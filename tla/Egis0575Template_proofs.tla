---------------------- MODULE Egis0575Template_proofs ----------------------
(* Theorems of the template, for every press, every stored data and every size: *)
(* nothing is indexed out of bounds, what was enrolled is what is matched, a      *)
(* match has been earned, and a press that shows what was enrolled is a match.  *)
EXTENDS Egis0575Template, FiniteSetTheorems, TLAPS

(* The enrolled print is the packed form of the frames that were pooled.       *)
PrintInv ==
  /\ enroll_feats \in Seq(Presses)
  /\ action = "enroll" => print = {} /\ Len(enroll_feats) < EnrollFrames
  /\ own => print # {}
  /\ print # {} => print = {Pack(pooled)} /\ pooled \in Seq(Presses)
                    /\ Len(pooled) = EnrollFrames

SetOK(set) ==
  /\ Len(set) <= MaxFeatures
  /\ \A k \in DOMAIN set : set[k].orient \in Orient

(* Every gallery frame is short enough and has orientations of the filter bank. *)
GalleryInv == \A s \in DOMAIN verify_gallery : SetOK(verify_gallery[s])

Inv == PrintInv /\ GalleryInv /\ EnrolledIsUsable

----------------------------------------------------------------------------
(* What packing and unpacking do to a template.                                *)

LEMMA Sizes ==
  /\ NOrient \in Nat /\ MaxFeatures \in Nat /\ AgreeFrames \in Nat /\ AgreeFrames > 0
  /\ EnrollFrames \in Nat /\ MaxStored \in Nat
  /\ AgreeFrames <= EnrollFrames /\ EnrollFrames <= MaxStored
PROOF BY TemplateAssumption

LEMMA FeatureOrient ==
  ASSUME NEW f \in Feature
  PROVE  f.orient \in Orient
PROOF BY DEF Feature

LEMMA StoredOrient ==
  ASSUME NEW f \in StoredFeature
  PROVE  f.f.orient \in 0..255
PROOF BY DEF StoredFeature

LEMMA ByteOrient ==
  ASSUME NEW orient \in 0..255, orient < NOrient
  PROVE  orient \in Orient
PROOF BY Sizes DEF Orient

LEMMA PressFacts ==
  ASSUME NEW press \in Presses
  PROVE  /\ press \in Seq(Feature) /\ Len(press) <= MaxFeatures
         /\ DOMAIN press = 1..Len(press)
         /\ \A k \in DOMAIN press : press[k] \in Feature
PROOF BY TemplateAssumption

(* What this driver packs, it unpacks, unchanged.                              *)
LEMMA RoundTrip ==
  ASSUME NEW sets \in Seq(Presses), Len(sets) = EnrollFrames
  PROVE  Usable(Pack(sets)) /\ Unpacked(Pack(sets)) = sets
PROOF
<1> DEFINE data == Pack(sets)
<1>1. /\ data.format = "(yaa(qqyay))" /\ data.version = TemplateVersion
      /\ data.frames = [s \in DOMAIN sets |-> [i \in DOMAIN sets[s] |->
                          [f |-> sets[s][i], len |-> DescBytes]]]
  BY DEF Pack, Template
<1>2. DOMAIN sets = 1..EnrollFrames /\ \A s \in DOMAIN sets : sets[s] \in Presses
  OBVIOUS
<1>3. DOMAIN data.frames = 1..EnrollFrames /\ Len(data.frames) = EnrollFrames
  BY <1>1, <1>2, TemplateAssumption
<1>4. ASSUME NEW s \in DOMAIN sets
      PROVE  /\ data.frames[s] = [i \in DOMAIN sets[s] |-> [f |-> sets[s][i], len |-> DescBytes]]
             /\ Read(data.frames[s]) = DOMAIN sets[s]
             /\ \A k \in DOMAIN sets[s] : sets[s][k].orient \in Orient
             /\ sets[s] = [k \in DOMAIN sets[s] |-> sets[s][k]]
  <2>1. data.frames[s] = [i \in DOMAIN sets[s] |-> [f |-> sets[s][i], len |-> DescBytes]]
    BY <1>1
  <2>2. /\ sets[s] \in Seq(Feature) /\ Len(sets[s]) <= MaxFeatures
        /\ DOMAIN sets[s] = 1..Len(sets[s])
    BY <1>2, PressFacts
  <2>3. Read(data.frames[s]) = DOMAIN sets[s]
    BY <2>1, <2>2, TemplateAssumption DEF Read
  <2>4. \A k \in DOMAIN sets[s] : sets[s][k].orient \in Orient
    <3>1. \A k \in DOMAIN sets[s] : sets[s][k] \in Feature
      BY <1>2, PressFacts
    <3> QED BY <3>1, FeatureOrient
  <2> QED BY <2>1, <2>2, <2>3, <2>4
<1>5. Usable(data)
  <2>1. Len(data.frames) \in 1..MaxStored
    BY <1>3, TemplateAssumption
  <2>2. ASSUME NEW s \in DOMAIN data.frames, NEW k \in Read(data.frames[s])
        PROVE  data.frames[s][k].len = DescBytes /\ data.frames[s][k].f.orient < NOrient
    <3>1. s \in DOMAIN sets /\ k \in DOMAIN sets[s]
      BY <1>2, <1>3, <1>4
    <3>2. data.frames[s][k] = [f |-> sets[s][k], len |-> DescBytes]
      BY <1>4, <3>1
    <3>3. sets[s][k].orient \in Orient
      BY <1>4, <3>1
    <3>4. NOrient \in Nat
      BY TemplateAssumption
    <3>5. data.frames[s][k].f = sets[s][k] /\ data.frames[s][k].len = DescBytes
      BY <3>2
    <3>6. sets[s][k].orient < NOrient
      BY <3>3, <3>4 DEF Orient
    <3> QED BY <3>5, <3>6
  <2> QED BY <1>1, <2>1, <2>2 DEF Usable
<1>6. Unpacked(data) = sets
  <2>1. ASSUME NEW s \in DOMAIN sets
        PROVE  [k \in Read(data.frames[s]) |-> data.frames[s][k].f] = sets[s]
    <3>1. ASSUME NEW k \in DOMAIN sets[s] PROVE data.frames[s][k].f = sets[s][k]
      <4>1. data.frames[s] = [i \in DOMAIN sets[s] |-> [f |-> sets[s][i], len |-> DescBytes]]
        BY <1>4
      <4>2. data.frames[s][k] = [f |-> sets[s][k], len |-> DescBytes]
        BY <4>1
      <4> QED BY <4>2
    <3>2. [k \in Read(data.frames[s]) |-> data.frames[s][k].f]
            = [k \in DOMAIN sets[s] |-> sets[s][k]]
      BY <1>4, <3>1
    <3> QED BY <1>4, <3>2
  <2>2. sets = [s \in DOMAIN sets |-> sets[s]]
    OBVIOUS
  <2> QED BY <1>2, <1>3, <2>1, <2>2 DEF Unpacked
<1> QED BY <1>5, <1>6

(* What is unpacked is in bounds, whoever packed it.                           *)
LEMMA UnpackedIsSound ==
  ASSUME NEW data \in Data, Usable(data), NEW s \in DOMAIN Unpacked(data)
  PROVE  SetOK(Unpacked(data)[s])
PROOF
<1>1. data.frames \in Seq(Seq(StoredFeature)) /\ s \in DOMAIN data.frames
      /\ Unpacked(data)[s] = [k \in Read(data.frames[s]) |-> data.frames[s][k].f]
  BY DEF Data, Unpacked
<1>2. data.frames[s] \in Seq(StoredFeature)
  BY <1>1
<1>3. Len(Unpacked(data)[s]) <= MaxFeatures
  <2> DEFINE n == IF Len(data.frames[s]) <= MaxFeatures THEN Len(data.frames[s]) ELSE MaxFeatures
  <2>1. n \in Nat /\ n <= MaxFeatures /\ Read(data.frames[s]) = 1..n
    BY <1>2, Sizes DEF Read
  <2> HIDE DEF n
  <2>2. Unpacked(data)[s] = [k \in 1..n |-> data.frames[s][k].f]
    BY <1>1, <2>1
  <2>3. Len(Unpacked(data)[s]) = n
    BY <2>1, <2>2
  <2> QED BY <2>1, <2>3
<1>4. ASSUME NEW k \in Read(data.frames[s])
      PROVE  data.frames[s][k].f.orient \in Orient
  <2>1. data.frames[s][k] \in StoredFeature
    BY <1>2 DEF Read
  <2>2. data.frames[s][k].f.orient \in 0..255
    BY <2>1, StoredOrient
  <2>3. data.frames[s][k].f.orient < NOrient
    BY <1>1 DEF Usable
  <2>4. NOrient \in Nat
    BY Sizes
  <2> QED BY <2>2, <2>3, <2>4, ByteOrient
<1> QED BY <1>1, <1>3, <1>4 DEF SetOK

(* What this driver packs has the type that is stored.                         *)
LEMMA PoolIsSound ==
  ASSUME NEW sets \in Seq(Presses), NEW s \in DOMAIN sets
  PROVE  SetOK(sets[s])
PROOF
<1>1. sets[s] \in Presses
  OBVIOUS
<1>2. /\ Len(sets[s]) <= MaxFeatures /\ Len(sets[s]) \in Nat
      /\ DOMAIN sets[s] = 1..Len(sets[s]) /\ MaxFeatures \in Nat
      /\ \A k \in DOMAIN sets[s] : sets[s][k] \in Feature
  BY <1>1, PressFacts, TemplateAssumption
<1>3. Len(sets[s]) <= MaxFeatures
  BY <1>2
<1>4. \A k \in DOMAIN sets[s] : sets[s][k].orient \in Orient
  BY <1>2, FeatureOrient
<1> QED BY <1>3, <1>4 DEF SetOK

----------------------------------------------------------------------------
(* The invariant.                                                             *)

LEMMA InitInv == Init => Inv
PROOF BY DEF Init, Inv, PrintInv, GalleryInv, EnrolledIsUsable

LEMMA VerifyKeeps ==
  ASSUME Inv, NEW data \in print \cup Foreign, DevVerify(data)
  PROVE  Inv'
PROOF
<1>1. PrintInv'
  <2>1. UNCHANGED <<enroll_feats, print, pooled>> /\ own' = (data \in print)
        /\ action' # "enroll"
    BY DEF DevVerify
  <2> QED BY <2>1 DEF Inv, PrintInv
<1>2. CASE data \in print
  <2>1. print = {Pack(pooled)} /\ pooled \in Seq(Presses) /\ Len(pooled) = EnrollFrames
    BY <1>2 DEF Inv, PrintInv
  <2>2. Usable(data) /\ Unpacked(data) = pooled
    BY <1>2, <2>1, RoundTrip
  <2>3. verify_gallery' = pooled /\ Len(verify_gallery') >= AgreeFrames
    BY <2>1, <2>2, TemplateAssumption DEF DevVerify
  <2>4. action' = "verify" /\ verdict' = "none" /\ pooled' = pooled
    BY <2>1, <2>3, TemplateAssumption DEF DevVerify
  <2>5. GalleryInv'
    BY <2>1, <2>3, PoolIsSound DEF GalleryInv
  <2> QED BY <1>1, <2>3, <2>4, <2>5 DEF Inv, EnrolledIsUsable
<1>3. CASE data \notin print
  <2>1. ~own' /\ data \in Data
    BY <1>3, TemplateAssumption DEF DevVerify
  <2>2. GalleryInv'
    <3>1. CASE Usable(data)
      BY <2>1, <3>1, UnpackedIsSound DEF DevVerify, GalleryInv
    <3>2. CASE ~Usable(data)
      BY <3>2 DEF DevVerify, GalleryInv
    <3> QED BY <3>1, <3>2
  <2> QED BY <1>1, <2>1, <2>2 DEF Inv, EnrolledIsUsable
<1> QED BY <1>2, <1>3

LEMMA PoolKeeps ==
  ASSUME Inv, NEW press \in Presses, PoolFrame(press)
  PROVE  Inv'
PROOF
<1>1. /\ action = "enroll" /\ print = {} /\ ~own /\ own' = own
      /\ verify_gallery' = verify_gallery /\ enroll_feats' = Append(enroll_feats, press)
  BY DEF Inv, PrintInv, PoolFrame
<1>2. enroll_feats' \in Seq(Presses) /\ Len(enroll_feats') = Len(enroll_feats) + 1
  BY <1>1 DEF Inv, PrintInv
<1>3. CASE Len(enroll_feats') < EnrollFrames
  BY <1>1, <1>2, <1>3 DEF Inv, PrintInv, GalleryInv, EnrolledIsUsable, PoolFrame
<1>4. CASE ~(Len(enroll_feats') < EnrollFrames)
  <2>1. print' = {Pack(enroll_feats')} /\ action' = "none" /\ pooled' = enroll_feats'
    BY <1>4 DEF PoolFrame
  <2>2. Len(enroll_feats') = EnrollFrames
    <3>1. Len(enroll_feats) \in Nat /\ Len(enroll_feats) < EnrollFrames
      BY <1>1 DEF Inv, PrintInv
    <3> QED BY <1>2, <1>4, <3>1, Sizes
  <2> QED BY <1>1, <1>2, <2>1, <2>2 DEF Inv, PrintInv, GalleryInv, EnrolledIsUsable
<1> QED BY <1>3, <1>4

LEMMA ProbeKeeps ==
  ASSUME Inv, NEW probes, Finalize(probes) \/ UNCHANGED <<action, verdict>>,
         UNCHANGED <<enroll_feats, print, verify_gallery, own, pooled>>
  PROVE  Inv'
PROOF
<1>1. action' = "enroll" => action = "enroll"
  BY DEF Finalize
<1>2. PrintInv' /\ GalleryInv'
  BY <1>1 DEF Inv, PrintInv, GalleryInv
<1>3. CASE Finalize(probes)
  <2>1. action' = "none" /\ verdict' \in {"match", "no match"}
    BY <1>3 DEF Finalize
  <2> QED BY <1>2, <2>1 DEF Inv, EnrolledIsUsable
<1>4. CASE UNCHANGED <<action, verdict>>
  BY <1>2, <1>4 DEF Inv, EnrolledIsUsable
<1> QED BY <1>3, <1>4

LEMMA NextKeeps == Inv /\ [Next]_vars => Inv'
PROOF
<1> SUFFICES ASSUME Inv, [Next]_vars PROVE Inv'
  OBVIOUS
<1>1. CASE DevEnroll
  <2>1. /\ action' = "enroll" /\ enroll_feats' = <<>> /\ print = {}
        /\ UNCHANGED <<print, verify_gallery, own, pooled>> /\ ~own
    BY <1>1 DEF DevEnroll, Inv, PrintInv
  <2>2. Len(enroll_feats') < EnrollFrames /\ enroll_feats' \in Seq(Presses)
    BY <2>1, Sizes
  <2> QED BY <2>1, <2>2 DEF Inv, PrintInv, GalleryInv, EnrolledIsUsable
<1>2. CASE ProbesEnd
  BY <1>2, ProbeKeeps DEF ProbesEnd
<1>3. CASE Cancelled
  BY <1>3 DEF Cancelled, Inv, PrintInv, GalleryInv, EnrolledIsUsable
<1>4. ASSUME NEW press \in Presses, RejectFrame(press) PROVE Inv'
  BY <1>4 DEF RejectFrame, Inv, PrintInv, GalleryInv, EnrolledIsUsable
<1>5. ASSUME NEW press \in Presses, PoolFrame(press) PROVE Inv'
  BY <1>5, PoolKeeps
<1>6. ASSUME NEW press \in Presses, Probe(press) PROVE Inv'
  BY <1>6, ProbeKeeps DEF Probe
<1>7. ASSUME NEW data \in print \cup Foreign, DevVerify(data) PROVE Inv'
  BY <1>7, VerifyKeeps
<1>8. CASE UNCHANGED vars
  BY <1>8 DEF vars, Inv, PrintInv, GalleryInv, EnrolledIsUsable
<1> QED BY <1>1, <1>2, <1>3, <1>4, <1>5, <1>6, <1>7, <1>8 DEF Next

----------------------------------------------------------------------------
(* Theorems.                                                                  *)

(* Whatever data is stored in a print, unpack_feature_frames lets nothing        *)
(* through that egis0575_m_score would index out of bounds.                    *)
THEOREM GalleryAlwaysInBounds == Spec => []GalleryInBounds
PROOF
<1>1. Inv => GalleryInBounds
  <2> SUFFICES ASSUME Inv, NEW s \in DOMAIN verify_gallery
               PROVE  /\ Len(verify_gallery[s]) <= MaxFeatures
                      /\ \A press \in Presses : \A i \in DOMAIN press :
                           \A k \in DOMAIN verify_gallery[s] :
                             press[i].orient - verify_gallery[s][k].orient + NOrient - 1
                               \in 0..2*NOrient-2
    BY DEF GalleryInBounds
  <2>1. SetOK(verify_gallery[s])
    BY DEF Inv, GalleryInv
  <2>2. ASSUME NEW press \in Presses, NEW i \in DOMAIN press,
               NEW k \in DOMAIN verify_gallery[s]
        PROVE  press[i].orient - verify_gallery[s][k].orient + NOrient - 1 \in 0..2*NOrient-2
    <3>1. press[i].orient \in Orient
      BY PressFacts, FeatureOrient
    <3>2. verify_gallery[s][k].orient \in Orient
      BY <2>1 DEF SetOK
    <3>3. \A a, b \in Orient : a - b + NOrient - 1 \in 0..2*NOrient-2
      BY Sizes DEF Orient
    <3> QED BY <3>1, <3>2, <3>3
  <2>3. Len(verify_gallery[s]) <= MaxFeatures
    BY <2>1 DEF SetOK
  <2> QED BY <2>2, <2>3
<1> QED BY <1>1, InitInv, NextKeeps, PTL DEF Spec

(* A print of this driver is always accepted and always matched against the      *)
(* frames that were pooled, orientations included.                             *)
THEOREM EnrolledAlwaysUsable == Spec => []EnrolledIsUsable
PROOF
<1>1. Inv => EnrolledIsUsable
  BY DEF Inv
<1> QED BY <1>1, InitInv, NextKeeps, PTL DEF Spec

----------------------------------------------------------------------------
(* Least and greatest members of what a choice is made from, and how many pairs *)
(* there are.                                                                 *)

LEMMA LeastExists ==
  ASSUME NEW S \in SUBSET Nat, S # {}
  PROVE  \E x \in S : \A y \in S : x <= y
PROOF
<1> DEFINE below == {ss \in Nat \X Nat : ss[1] < ss[2]}
<1>1. IsWellFoundedOn(below, Nat)
  BY NatLessThanWellFounded DEF OpToRel
<1>2. \A x, y \in Nat : <<y, x>> \in below <=> y < x
  OBVIOUS
<1> HIDE DEF below
<1>3. PICK x \in S : \A y \in S : ~ (<<y, x>> \in below)
  BY <1>1, WFMin
<1>4. ASSUME NEW y \in S PROVE x <= y
  <2>1. x \in Nat /\ y \in Nat
    OBVIOUS
  <2>2. ~ (y < x)
    BY <1>2, <1>3, <2>1
  <2> QED BY <2>1, <2>2
<1> QED BY <1>4

LEMMA MinIsMember ==
  ASSUME NEW b \in Nat, NEW S \in SUBSET Int, S # {}, \A x \in S : -b <= x
  PROVE  Min(S) \in S /\ \A x \in S : Min(S) <= x
PROOF
<1> DEFINE T == {x + b : x \in S}
<1>1. T \in SUBSET Nat /\ T # {}
  <2>1. \A x \in S : x \in Int /\ x + b \in Nat
    OBVIOUS
  <2> QED BY <2>1
<1>2. PICK t \in T : \A u \in T : t <= u
  BY <1>1, LeastExists
<1>3. PICK x \in S : t = x + b
  BY <1>2
<1>4. \A y \in S : x <= y
  <2> SUFFICES ASSUME NEW y \in S PROVE x <= y
    OBVIOUS
  <2>1. t <= y + b
    BY <1>2
  <2> QED BY <1>3, <2>1
<1> QED BY <1>4 DEF Min

LEMMA GreatestExists ==
  ASSUME NEW n \in Nat, NEW S, S # {}, NEW f \in [S -> 0..n]
  PROVE  \E x \in S : \A y \in S : f[x] >= f[y]
PROOF
<1> DEFINE T == {n - f[x] : x \in S}
<1>1. T \in SUBSET Nat /\ T # {}
  OBVIOUS
<1>2. PICK t \in T : \A u \in T : t <= u
  BY <1>1, LeastExists
<1>3. PICK x \in S : t = n - f[x]
  BY <1>2
<1>4. \A y \in S : f[x] >= f[y]
  <2> SUFFICES ASSUME NEW y \in S PROVE f[x] >= f[y]
    OBVIOUS
  <2>1. t <= n - f[y]
    BY <1>2
  <2>2. f[x] \in 0..n /\ f[y] \in 0..n
    OBVIOUS
  <2> QED BY <1>3, <2>1, <2>2
<1> QED BY <1>4

(* A set of pairs is as large as the set of its probe features.                *)
LEMMA CountedByIndex ==
  ASSUME NEW n \in Nat, NEW S, \A p \in S : p.i \in 1..n,
         \A p, q \in S : p.i = q.i => p = q
  PROVE  /\ IsFiniteSet(S)
         /\ Cardinality({p.i : p \in S}) = Cardinality(S)
PROOF
<1> DEFINE T == {p.i : p \in S}
           f == [p \in S |-> p.i]
<1>1. IsFiniteSet(1..n)
  BY FS_Interval
<1>2. T \subseteq 1..n /\ IsFiniteSet(T)
  BY <1>1, FS_Subset
<1>3. f \in Injection(S, T) /\ f \in Surjection(S, T)
  BY DEF Injection, Surjection, IsInjective
<1>4. IsFiniteSet(S) /\ (Cardinality(S) = Cardinality(T) <=> f \in Surjection(S, T))
  BY <1>2, <1>3, FS_Injection
<1> QED BY <1>3, <1>4

(* The tolerance of 12 degrees is smaller than one step of the filter bank: two  *)
(* turns are the same when they are equal.                                     *)
LEMMA SameTurnIsEqual ==
  ASSUME NOrient < 15, NEW a \in Int, NEW b \in Int,
         a - b \in -(2*NOrient - 2)..(2*NOrient - 2), SameTurn(a, b)
  PROVE  a = b
PROOF
<1> DEFINE m == 360 * NOrient
           v == 180 * (a - b)
           dm == v % m
<1>1. NOrient \in Nat \ {0} /\ m \in Nat \ {0} /\ v \in Int
  BY TemplateAssumption
<1>2. ASSUME NEW S, NEW x \in Int, NEW y \in Int, S = {x, y}
      PROVE  Min(S) \in {x, y}
  <2>1. \E z \in S : \A w \in S : z <= w
    BY <1>2
  <2> QED BY <1>2, <2>1 DEF Min
<1>3. CASE a > b
  <2>1. v \in 0..m-1 /\ v >= 180 /\ m - v >= 360
    BY <1>1, <1>3
  <2>2. dm = v
    BY <1>1, <2>1
  <2> QED BY <1>1, <1>2, <2>1, <2>2 DEF SameTurn
<1>4. CASE a < b
  <2>1. v \in -m..-1 /\ -v >= 180 /\ m + v >= 360
    BY <1>1, <1>4
  <2>2. dm = v + m
    BY <1>1, <2>1
  <2> QED BY <1>1, <1>2, <2>1, <2>2 DEF SameTurn
<1> QED BY <1>3, <1>4

----------------------------------------------------------------------------
(* What egis0575_m_score counts.                                              *)

(* What a pair stands for: a probe feature and a gallery feature.              *)
PairOf(probe, gallery, p) ==
  /\ p.i \in DOMAIN probe
  /\ \E j \in DOMAIN gallery :
       p = [i |-> p.i, h |-> Distance(probe[p.i], gallery[j]),
            offset |-> Offset(probe[p.i], gallery[j]),
            turn |-> probe[p.i].orient - gallery[j].orient]

LEMMA NearestIsMember ==
  ASSUME NEW gallery \in Seq(Feature), NEW f, Nearest(f, gallery) # 0
  PROVE  Nearest(f, gallery) \in DOMAIN gallery
PROOF
<1> DEFINE near == {j \in DOMAIN gallery : Distance(f, gallery[j]) < 512
                      /\ \A k \in DOMAIN gallery :
                           Distance(f, gallery[j]) <= Distance(f, gallery[k])}
<1>1. near # {} /\ Nearest(f, gallery) = Min(near)
  BY DEF Nearest
<1>2. near \subseteq DOMAIN gallery /\ DOMAIN gallery \subseteq Nat
  OBVIOUS
<1> HIDE DEF near
<1>3. near \in SUBSET Int /\ \A x \in near : -0 <= x
  BY <1>2
<1>4. Min(near) \in near
  BY <1>1, <1>3, MinIsMember
<1> QED BY <1>1, <1>2, <1>4

LEMMA PairsArePairs ==
  ASSUME NEW probe \in Seq(Feature), NEW gallery \in Seq(Feature)
  PROVE  /\ \A p \in Pairs(probe, gallery) : PairOf(probe, gallery, p)
         /\ \A p, q \in Pairs(probe, gallery) : p.i = q.i => p = q
PROOF
<1> DEFINE pair(i) == LET g == gallery[Nearest(probe[i], gallery)]
                      IN  [i |-> i, h |-> Distance(probe[i], g), offset |-> Offset(probe[i], g),
                           turn |-> probe[i].orient - g.orient]
           I == {k \in DOMAIN probe : Nearest(probe[k], gallery) # 0}
<1>1. Pairs(probe, gallery) = {pair(i) : i \in I}
  BY DEF Pairs
<1>2. \A i \in I : pair(i).i = i
  OBVIOUS
<1>3. ASSUME NEW i \in I PROVE PairOf(probe, gallery, pair(i))
  <2>1. Nearest(probe[i], gallery) \in DOMAIN gallery
    BY NearestIsMember
  <2> QED BY <2>1 DEF PairOf
<1> HIDE DEF pair, I
<1>4. \A p, q \in Pairs(probe, gallery) : p.i = q.i => p = q
  BY <1>1, <1>2
<1> QED BY <1>1, <1>3, <1>4

(* The types of a pair, and how far a turn can go.                             *)
LEMMA PairTypes ==
  ASSUME NEW probe \in Seq(Feature), NEW gallery \in Seq(Feature),
         NEW p, PairOf(probe, gallery, p)
  PROVE  /\ p.i \in 1..Len(probe)
         /\ p.offset[1] \in Int /\ p.offset[2] \in Int
         /\ p.turn \in -(NOrient - 1)..(NOrient - 1)
PROOF
<1>1. PICK j \in DOMAIN gallery :
        p = [i |-> p.i, h |-> Distance(probe[p.i], gallery[j]),
             offset |-> Offset(probe[p.i], gallery[j]),
             turn |-> probe[p.i].orient - gallery[j].orient]
  BY DEF PairOf
<1>2. p.i \in 1..Len(probe) /\ probe[p.i] \in Feature /\ gallery[j] \in Feature
  BY DEF PairOf
<1>3. ASSUME NEW f \in Feature
      PROVE  f.x \in Int /\ f.y \in Int /\ f.orient \in 0..NOrient-1
  <2>1. f.x \in UInt16 /\ f.y \in UInt16 /\ f.orient \in Orient
    BY DEF Feature
  <2>2. UInt16 \subseteq Int /\ Orient = 0..NOrient-1
    BY DEF UInt16, Orient
  <2> QED BY <2>1, <2>2
<1>4. p.offset = Offset(probe[p.i], gallery[j])
      /\ p.turn = probe[p.i].orient - gallery[j].orient
  BY <1>1
<1>5. p.offset[1] \in Int /\ p.offset[2] \in Int
  <2>1. p.offset[1] = probe[p.i].x - gallery[j].x /\ p.offset[2] = probe[p.i].y - gallery[j].y
    BY <1>4 DEF Offset
  <2> QED BY <1>2, <1>3, <2>1
<1>6. p.turn \in -(NOrient - 1)..(NOrient - 1)
  <2>1. probe[p.i].orient \in 0..NOrient-1 /\ gallery[j].orient \in 0..NOrient-1
    BY <1>2, <1>3
  <2> QED BY <1>4, <2>1, TemplateAssumption
<1> QED BY <1>2, <1>5, <1>6

(* The cluster is the bucket of some pair.                                     *)
LEMMA ClusterIsBucket ==
  ASSUME NEW n \in Nat, NEW pairs, pairs # {}, \A p \in pairs : p.i \in 1..n,
         \A p, q \in pairs : p.i = q.i => p = q
  PROVE  \E p \in pairs : Cluster(pairs) = Bucket(p.offset)
PROOF
<1> DEFINE fellows(p) == Cardinality({q \in pairs : Bucket(q.offset) = Bucket(p.offset)})
           f == [p \in pairs |-> fellows(p)]
           beats(p, q) == fellows(p) > fellows(q) \/ (fellows(p) = fellows(q) /\ p.i <= q.i)
<1>1. IsFiniteSet(pairs) /\ Cardinality(pairs) \in Nat
  BY CountedByIndex, FS_CardinalityType
<1>2. \A p \in pairs : fellows(p) \in 0..Cardinality(pairs)
  <2> SUFFICES ASSUME NEW p \in pairs PROVE fellows(p) \in 0..Cardinality(pairs)
    OBVIOUS
  <2> DEFINE T == {q \in pairs : Bucket(q.offset) = Bucket(p.offset)}
  <2>1. T \in SUBSET pairs
    OBVIOUS
  <2> HIDE DEF T
  <2>2. IsFiniteSet(T) /\ Cardinality(T) <= Cardinality(pairs)
    BY <1>1, <2>1, FS_Subset
  <2>3. Cardinality(T) \in Nat
    BY <2>2, FS_CardinalityType
  <2>4. Cardinality(T) \in 0..Cardinality(pairs)
    BY <1>1, <2>2, <2>3
  <2> QED BY <2>4 DEF T
<1> HIDE DEF fellows
<1>3. f \in [pairs -> 0..Cardinality(pairs)]
  BY <1>2
<1>4. PICK b \in pairs : \A q \in pairs : f[b] >= f[q]
  BY <1>1, <1>3, GreatestExists
<1> DEFINE J == {p.i : p \in {q \in pairs : fellows(q) = fellows(b)}}
<1>5. J \in SUBSET Nat /\ J # {}
  OBVIOUS
<1>6. PICK k \in J : \A m \in J : k <= m
  BY <1>5, LeastExists
<1>7. PICK l \in pairs : l.i = k /\ fellows(l) = fellows(b)
  BY <1>6
<1>8. ASSUME NEW q \in pairs PROVE beats(l, q)
  <2>1. fellows(l) >= fellows(q) /\ fellows(l) \in Int /\ fellows(q) \in Int
    <3>1. f[b] >= f[q] /\ f[b] = fellows(b) /\ f[q] = fellows(q)
      BY <1>4
    <3> QED BY <1>2, <1>7, <3>1
  <2>2. CASE fellows(q) = fellows(l)
    <3>1. q.i \in J
      BY <1>7, <2>2
    <3> QED BY <1>6, <1>7, <2>2, <3>1
  <2> QED BY <2>1, <2>2
<1>9. \E first \in pairs : \A q \in pairs : beats(first, q)
  BY <1>8
<1>10. Cluster(pairs) = Bucket((CHOOSE p \in pairs : \A q \in pairs : beats(p, q)).offset)
  BY DEF Cluster, fellows
<1> DEFINE first == CHOOSE p \in pairs : \A q \in pairs : beats(p, q)
<1>11. first \in pairs
  BY <1>9
<1> HIDE DEF beats, first
<1> QED BY <1>10, <1>11 DEF first

(* The mode is the turn of some inlier.                                        *)
LEMMA ModeIsTurn ==
  ASSUME NEW b \in Nat, NEW inl, inl # {}, IsFiniteSet(inl),
         \A p \in inl : p.turn \in -b..b
  PROVE  \E p \in inl : Mode(inl) = p.turn
PROOF
<1> DEFINE votes(d) == Cardinality({p \in inl : p.turn = d})
           turns == {p.turn : p \in inl}
           f == [d \in turns |-> votes(d)]
           most == {d \in turns : \A e \in turns : votes(d) >= votes(e)}
<1>1. Cardinality(inl) \in Nat
  BY FS_CardinalityType
<1>2. \A d \in turns : votes(d) \in 0..Cardinality(inl)
  <2> SUFFICES ASSUME NEW d \in turns PROVE votes(d) \in 0..Cardinality(inl)
    OBVIOUS
  <2> DEFINE T == {p \in inl : p.turn = d}
  <2>1. T \in SUBSET inl
    OBVIOUS
  <2> HIDE DEF T
  <2>2. IsFiniteSet(T) /\ Cardinality(T) <= Cardinality(inl)
    BY <2>1, FS_Subset
  <2>3. Cardinality(T) \in Nat
    BY <2>2, FS_CardinalityType
  <2>4. Cardinality(T) \in 0..Cardinality(inl)
    BY <1>1, <2>2, <2>3
  <2> QED BY <2>4 DEF T
<1>3. turns # {} /\ turns \in SUBSET Int /\ \A d \in turns : -b <= d
  OBVIOUS
<1>4. Mode(inl) = Min(most)
  BY DEF Mode
<1> HIDE DEF votes, turns
<1>5. f \in [turns -> 0..Cardinality(inl)]
  BY <1>2
<1>6. PICK d \in turns : \A e \in turns : f[d] >= f[e]
  BY <1>1, <1>3, <1>5, GreatestExists
<1>7. d \in most
  BY <1>6
<1>8. most \in SUBSET Int /\ most # {} /\ \A e \in most : -b <= e
  BY <1>3, <1>7
<1>9. Min(most) \in most
  BY <1>8, MinIsMember
<1>10. Mode(inl) \in turns
  BY <1>4, <1>9
<1> QED BY <1>10 DEF turns

(* The pairs that a score counts: they are enough, near enough, and agree in     *)
(* turn and, up to the window, in offset.                                       *)
LEMMA ScoreNeedsAgreement ==
  ASSUME NOrient < 15, NEW probe \in Seq(Feature), NEW gallery \in Seq(Feature),
         Score(probe, gallery) >= AgreeScore
  PROVE  \E good \in SUBSET Pairs(probe, gallery) :
           /\ Cardinality(good) >= MinMatched
           /\ \A p \in good : p.h <= HammingBudget
           /\ \A p, q \in good : p.turn = q.turn
           /\ \A p, q \in good : \A d \in 1..2 : AbsDiff(p.offset[d], q.offset[d]) <= 16
PROOF
<1> DEFINE pairs == Pairs(probe, gallery)
           inl == Inliers(pairs)
           good == {p \in inl : SameTurn(p.turn, Mode(inl))}
<1>1. pairs # {} /\ ~ (Cardinality(good) < MinMatched)
  <2>1. ~ (0 >= AgreeScore)
    BY TemplateAssumption
  <2> QED BY <2>1 DEF Score
<1>2. /\ \A p \in pairs : PairOf(probe, gallery, p)
      /\ \A p, q \in pairs : p.i = q.i => p = q
  BY PairsArePairs
<1>3. \A p \in pairs : /\ p.i \in 1..Len(probe)
                       /\ p.offset[1] \in Int /\ p.offset[2] \in Int
                       /\ p.turn \in -(NOrient - 1)..(NOrient - 1)
  BY <1>2, PairTypes
<1>4. Len(probe) \in Nat /\ NOrient \in Nat /\ NOrient - 1 \in Nat /\ MinMatched \in Nat \ {0}
  BY TemplateAssumption
<1> HIDE DEF pairs
<1>5. inl \subseteq pairs /\ good \subseteq pairs
  BY DEF Inliers
<1>6. IsFiniteSet(pairs) /\ IsFiniteSet(inl) /\ IsFiniteSet(good)
  <2>1. IsFiniteSet(pairs)
    BY <1>2, <1>3, <1>4, CountedByIndex
  <2> HIDE DEF inl, good
  <2> QED BY <1>5, <2>1, FS_Subset
<1>7. Cardinality(good) >= MinMatched /\ good # {}
  <2> HIDE DEF good
  <2>1. Cardinality(good) \in Nat
    BY <1>6, FS_CardinalityType
  <2>2. Cardinality(good) >= MinMatched
    BY <1>1, <1>4, <2>1
  <2>3. Cardinality({}) = 0 /\ ~ (0 >= MinMatched)
    BY <1>4, FS_EmptySet
  <2> QED BY <2>2, <2>3
<1>8. PICK c \in pairs : Cluster(pairs) = Bucket(c.offset)
  BY <1>1, <1>2, <1>3, <1>4, ClusterIsBucket
<1>9. \A d \in 1..2 : 8 * Cluster(pairs)[d] + 4 \in Int
  <2>1. c.offset[1] \in Int /\ c.offset[2] \in Int
    BY <1>3
  <2>2. c.offset[1] \div 8 \in Int /\ c.offset[2] \div 8 \in Int
    BY <2>1
  <2>3. Cluster(pairs)[1] = c.offset[1] \div 8 /\ Cluster(pairs)[2] = c.offset[2] \div 8
    BY <1>8 DEF Bucket
  <2> QED BY <2>2, <2>3
<1>10. inl # {}
  BY <1>7
<1>11. PICK r \in inl : Mode(inl) = r.turn
  <2>1. \A p \in inl : p.turn \in -(NOrient - 1)..(NOrient - 1)
    BY <1>3, <1>5
  <2> HIDE DEF inl
  <2> QED BY <1>4, <1>6, <1>10, <2>1, ModeIsTurn
<1>12. ASSUME NEW p \in good PROVE p.turn = r.turn
  <2>1. SameTurn(p.turn, r.turn)
    BY <1>11
  <2>2. /\ p.turn \in -(NOrient - 1)..(NOrient - 1)
        /\ r.turn \in -(NOrient - 1)..(NOrient - 1)
    BY <1>3, <1>5
  <2>3. /\ p.turn \in Int /\ r.turn \in Int
        /\ p.turn - r.turn \in -(2*NOrient - 2)..(2*NOrient - 2)
    BY <1>4, <2>2
  <2> QED BY <2>1, <2>3, SameTurnIsEqual
<1>13. ASSUME NEW p \in good, NEW q \in good, NEW d \in 1..2
       PROVE  AbsDiff(p.offset[d], q.offset[d]) <= 16
  <2>1. p.offset[d] \in Int /\ q.offset[d] \in Int /\ 8 * Cluster(pairs)[d] + 4 \in Int
    <3>1. d = 1 \/ d = 2
      OBVIOUS
    <3> QED BY <1>3, <1>5, <1>9, <3>1
  <2>2. /\ AbsDiff(p.offset[d], 8 * Cluster(pairs)[d] + 4) <= 8
        /\ AbsDiff(q.offset[d], 8 * Cluster(pairs)[d] + 4) <= 8
    BY DEF Inliers
  <2>3. \A a, b, z \in Int : AbsDiff(a, z) <= 8 /\ AbsDiff(b, z) <= 8 => AbsDiff(a, b) <= 16
    BY DEF AbsDiff
  <2> QED BY <2>1, <2>2, <2>3
<1>14. \A p \in good : p.h <= HammingBudget
  BY DEF Inliers
<1>15. /\ good \in SUBSET pairs
       /\ \A p, q \in good : p.turn = q.turn
       /\ \A p, q \in good : \A d \in 1..2 : AbsDiff(p.offset[d], q.offset[d]) <= 16
  BY <1>5, <1>12, <1>13
<1> HIDE DEF good
<1> QED BY <1>7, <1>14, <1>15 DEF pairs

(* A frame that agrees resembles the probe.                                    *)
LEMMA AgreeingResembles ==
  ASSUME NOrient < 15, NEW probe \in Seq(Feature), NEW gallery \in Seq(Feature),
         Score(probe, gallery) >= AgreeScore
  PROVE  Resembles(probe, gallery)
PROOF
<1>1. PICK good \in SUBSET Pairs(probe, gallery) :
           /\ Cardinality(good) >= MinMatched
           /\ \A p \in good : p.h <= HammingBudget
           /\ \A p, q \in good : p.turn = q.turn
           /\ \A p, q \in good : \A d \in 1..2 : AbsDiff(p.offset[d], q.offset[d]) <= 16
  BY ScoreNeedsAgreement
<1>2. /\ \A p \in good : PairOf(probe, gallery, p)
      /\ \A p, q \in good : p.i = q.i => p = q
  BY PairsArePairs
<1>3. \A p \in good : p.i \in 1..Len(probe)
  BY <1>2, PairTypes
<1>4. Len(probe) \in Nat /\ MinMatched \in Nat \ {0} /\ DOMAIN probe = 1..Len(probe)
  BY TemplateAssumption
<1>5. IsFiniteSet(good) /\ Cardinality({p.i : p \in good}) = Cardinality(good)
  BY <1>2, <1>3, <1>4, CountedByIndex
<1>6. PICK q \in good : TRUE
  <2>1. Cardinality({}) = 0 /\ ~ (0 >= MinMatched)
    BY <1>4, FS_EmptySet
  <2> QED BY <1>1, <2>1
<1>7. PICK n \in DOMAIN gallery :
        q = [i |-> q.i, h |-> Distance(probe[q.i], gallery[n]),
             offset |-> Offset(probe[q.i], gallery[n]),
             turn |-> probe[q.i].orient - gallery[n].orient]
  BY <1>2 DEF PairOf
<1>8. /\ q.i \in DOMAIN probe
      /\ q.offset = Offset(probe[q.i], gallery[n])
      /\ q.turn = probe[q.i].orient - gallery[n].orient
  BY <1>3, <1>4, <1>7
<1> DEFINE C == {i \in DOMAIN probe : \E j \in DOMAIN gallery :
      /\ Distance(probe[i], gallery[j]) <= HammingBudget
      /\ probe[i].orient - gallery[j].orient = probe[q.i].orient - gallery[n].orient
      /\ \A d \in 1..2 : AbsDiff(Offset(probe[i], gallery[j])[d],
                                 Offset(probe[q.i], gallery[n])[d]) <= 16}
<1>9. ASSUME NEW p \in good PROVE p.i \in C
  <2>1. PICK j \in DOMAIN gallery :
          p = [i |-> p.i, h |-> Distance(probe[p.i], gallery[j]),
               offset |-> Offset(probe[p.i], gallery[j]),
               turn |-> probe[p.i].orient - gallery[j].orient]
    BY <1>2 DEF PairOf
  <2>2. /\ p.h = Distance(probe[p.i], gallery[j])
        /\ p.offset = Offset(probe[p.i], gallery[j])
        /\ p.turn = probe[p.i].orient - gallery[j].orient
    BY <2>1
  <2>3. /\ p.h <= HammingBudget /\ p.turn = q.turn
        /\ \A d \in 1..2 : AbsDiff(p.offset[d], q.offset[d]) <= 16
    BY <1>1
  <2>4. p.i \in DOMAIN probe
    BY <1>3, <1>4
  <2>5. \A d \in 1..2 : AbsDiff(Offset(probe[p.i], gallery[j])[d],
                                Offset(probe[q.i], gallery[n])[d]) <= 16
    BY <1>8, <2>2, <2>3
  <2> QED BY <1>8, <2>2, <2>3, <2>4, <2>5
<1>10. {p.i : p \in good} \subseteq C
  BY <1>9
<1>11. IsFiniteSet(C) /\ Cardinality(C) \in Nat
  <2>1. C \subseteq DOMAIN probe
    OBVIOUS
  <2> HIDE DEF C
  <2>2. IsFiniteSet(1..Len(probe))
    BY <1>4, FS_Interval
  <2> QED BY <1>4, <2>1, <2>2, FS_Subset, FS_CardinalityType
<1>12. Cardinality(C) >= MinMatched
  <2> HIDE DEF C
  <2>1. Cardinality({p.i : p \in good}) <= Cardinality(C)
    BY <1>10, <1>11, FS_Subset
  <2>2. Cardinality(good) \in Nat
    BY <1>5, FS_CardinalityType
  <2>3. Cardinality(good) <= Cardinality(C)
    BY <1>5, <2>1
  <2> QED BY <1>1, <1>4, <1>11, <2>2, <2>3
<1> QED BY <1>8, <1>12 DEF Resembles

(* No verdict of a match without enough frames that resemble the probe.         *)
LEMMA MatchingResembles ==
  ASSUME NOrient < 15, NEW probe \in Seq(Feature), NEW gallery \in Seq(Seq(Feature)),
         Matches(probe, gallery)
  PROVE  Cardinality({g \in DOMAIN gallery : Resembles(probe, gallery[g])}) >= AgreeFrames
PROOF
<1> DEFINE A == {g \in DOMAIN gallery : Score(probe, gallery[g]) >= AgreeScore}
           R == {g \in DOMAIN gallery : Resembles(probe, gallery[g])}
<1>1. A \subseteq R
  <2> SUFFICES ASSUME NEW g \in A PROVE Resembles(probe, gallery[g])
    OBVIOUS
  <2>1. gallery[g] \in Seq(Feature) /\ Score(probe, gallery[g]) >= AgreeScore
    OBVIOUS
  <2> QED BY <2>1, AgreeingResembles
<1>2. Cardinality(A) >= AgreeFrames
  BY DEF Matches
<1>3. R \subseteq 1..Len(gallery) /\ IsFiniteSet(1..Len(gallery))
  <2>1. DOMAIN gallery = 1..Len(gallery) /\ Len(gallery) \in Nat
    OBVIOUS
  <2> QED BY <2>1, FS_Interval
<1> HIDE DEF A, R
<1>4. /\ IsFiniteSet(R) /\ IsFiniteSet(A) /\ Cardinality(A) <= Cardinality(R)
      /\ Cardinality(A) \in Nat /\ Cardinality(R) \in Nat
  BY <1>1, <1>3, FS_Subset, FS_CardinalityType
<1>5. Cardinality(R) >= AgreeFrames
  BY <1>2, <1>4, TemplateAssumption
<1> QED BY <1>5 DEF R

----------------------------------------------------------------------------
(* What a press that shows a part of a frame scores.                           *)

(* The sum over no pair, and over pairs that lie at no distance.               *)
LEMMA SumOfNothing == MapThenSumSet(LAMBDA p : p.h \div 2, {}) = 0
PROOF
<1> DEFINE S == {}
           pick(s) == CHOOSE x \in s : TRUE
           Eq(g) == g = [s \in SUBSET S |-> IF s = {} THEN 0 ELSE (pick(s).h \div 2) + g[s \ {pick(s)}]]
           c == [s \in SUBSET S |-> 0]
<1>1. MapThenSumSet(LAMBDA p : p.h \div 2, {}) = (CHOOSE g : Eq(g))[{}]
  BY DEF MapThenSumSet, MapThenFoldSet
<1>2. \A s \in SUBSET S : s = {}
  OBVIOUS
<1>3. Eq(c)
  BY <1>2
<1>4. ASSUME NEW g, Eq(g) PROVE g[{}] = 0
  BY <1>2, <1>4
<1>5. Eq(CHOOSE g : Eq(g))
  BY <1>3
<1> HIDE DEF Eq
<1> QED BY <1>1, <1>4, <1>5

LEMMA SumOfZeros ==
  ASSUME NEW S, IsFiniteSet(S), \A p \in S : p.h = 0
  PROVE  MapThenSumSet(LAMBDA p : 128 - p.h, S) = 128 * Cardinality(S)
PROOF
<1> DEFINE pick(s) == CHOOSE x \in s : TRUE
           next(g, s) == (128 - pick(s).h) + g[s \ {pick(s)}]
           Eq(g) == g = [s \in SUBSET S |-> IF s = {} THEN 0 ELSE next(g, s)]
           c == [s \in SUBSET S |-> 128 * Cardinality(s)]
<1>1. MapThenSumSet(LAMBDA p : 128 - p.h, S) = (CHOOSE g : Eq(g))[S]
  BY DEF MapThenSumSet, MapThenFoldSet
<1>2. ASSUME NEW s \in SUBSET S, s # {}
      PROVE  /\ pick(s) \in s /\ pick(s).h = 0
             /\ s \ {pick(s)} \in SUBSET S
             /\ Cardinality(s) \in Nat /\ Cardinality(s \ {pick(s)}) = Cardinality(s) - 1
  <2>1. pick(s) \in s /\ IsFiniteSet(s)
    BY <1>2, FS_Subset
  <2> HIDE DEF pick
  <2> QED BY <2>1, FS_CardinalityType, FS_RemoveElement
<1> HIDE DEF pick
<1>3. Cardinality({}) = 0
  BY FS_EmptySet
<1>4. Eq(c)
  <2>1. ASSUME NEW s \in SUBSET S, s # {} PROVE c[s] = next(c, s)
    BY <1>2, <2>1
  <2>2. c[{}] = 0
    BY <1>3
  <2>3. \A s \in SUBSET S : c[s] = IF s = {} THEN 0 ELSE next(c, s)
    <3> HIDE DEF next
    <3> QED BY <2>1, <2>2
  <2> QED BY <2>3
<1>5. ASSUME NEW g, Eq(g) PROVE g[S] = 128 * Cardinality(S)
  <2> DEFINE off == {s \in SUBSET S : g[s] # 128 * Cardinality(s)}
             sizes == {Cardinality(s) : s \in off}
  <2>3. \A s \in SUBSET S : g[s] = IF s = {} THEN 0 ELSE next(g, s)
    <3> HIDE DEF next
    <3> QED BY <1>5
  <2>1. CASE off = {}
    BY <2>1
  <2>2. CASE off # {}
    <3>1. sizes \in SUBSET Nat /\ sizes # {}
      <4>1. \A s \in SUBSET S : Cardinality(s) \in Nat
        BY FS_Subset, FS_CardinalityType
      <4> QED BY <2>2, <4>1
    <3>2. PICK n \in sizes : \A m \in sizes : n <= m
      BY <3>1, LeastExists
    <3>3. PICK s \in off : n = Cardinality(s)
      BY <3>2
    <3>4. s \in SUBSET S /\ g[s] # 128 * Cardinality(s)
      BY <3>3
    <3>5. s # {}
      <4>1. g[{}] = 0
        BY <2>3
      <4> QED BY <1>3, <3>4, <4>1
    <3> DEFINE r == s \ {pick(s)}
    <3>6. /\ pick(s).h = 0 /\ r \in SUBSET S
          /\ Cardinality(s) \in Nat /\ Cardinality(r) = Cardinality(s) - 1
      BY <1>2, <3>4, <3>5
    <3>7. ~ (Cardinality(s) <= Cardinality(r))
      BY <3>6
    <3>8. r \notin off
      BY <3>2, <3>3, <3>7
    <3>9. g[r] = 128 * Cardinality(r)
      BY <3>6, <3>8
    <3>10. g[s] = next(g, s)
      <4> HIDE DEF next
      <4> QED BY <2>3, <3>4, <3>5
    <3> QED BY <3>4, <3>6, <3>9, <3>10
  <2> QED BY <2>1, <2>2
<1>6. Eq(CHOOSE g : Eq(g))
  BY <1>4
<1> HIDE DEF Eq
<1> QED BY <1>1, <1>5, <1>6

LEMMA FeatureTypes ==
  ASSUME NEW f \in Feature
  PROVE  f.x \in Int /\ f.y \in Int /\ f.orient \in Int /\ f.desc \in Desc
PROOF
<1>1. f.x \in UInt16 /\ f.y \in UInt16 /\ f.orient \in Orient /\ f.desc \in Desc
  BY DEF Feature
<1>2. UInt16 \subseteq Int /\ Orient \subseteq Int
  BY Sizes DEF UInt16, Orient
<1> QED BY <1>1, <1>2

LEMMA DistanceType == \A c, d \in Desc : Dist[c][d] \in 0..512
PROOF
<1>1. Dist \in [Desc -> [Desc -> 0..512]]
  BY TemplateAssumption
<1> QED BY <1>1

LEMMA DistanceRange == \A v \in 0..512 : 0 <= v /\ (v <= 0 => ~ (v > 0)) /\ 0 < 512
OBVIOUS

(* A feature that is in the frame, and no other like it, is its own nearest.    *)
LEMMA NearestOfShown ==
  ASSUME NEW gallery \in Seq(Feature), Distinct(gallery),
         NEW j \in DOMAIN gallery, NEW f, f.desc = gallery[j].desc
  PROVE  Nearest(f, gallery) = j /\ Distance(f, gallery[j]) = 0
PROOF
<1> DEFINE near == {l \in DOMAIN gallery : Distance(f, gallery[l]) < 512
                      /\ \A k \in DOMAIN gallery :
                           Distance(f, gallery[l]) <= Distance(f, gallery[k])}
<1>1. \A k \in DOMAIN gallery : gallery[k].desc \in Desc
  BY FeatureTypes
<1>2. ASSUME NEW k \in DOMAIN gallery
      PROVE  Distance(f, gallery[k]) \in 0..512 /\ Distance(f, gallery[k]) = Distance(gallery[j], gallery[k])
  BY <1>1, DistanceType DEF Distance
<1> HIDE DEF near
<1>3. \A v \in 0..512 : 0 <= v /\ (v <= 0 => ~ (v > 0)) /\ 0 < 512
  BY DistanceRange
<1>4. Distance(f, gallery[j]) = 0
  BY <1>1, TemplateAssumption DEF Distance
<1>5. \A k \in DOMAIN gallery : k # j => Distance(f, gallery[k]) > 0
  BY <1>2 DEF Distinct
<1>6. near = {j}
  <2>1. j \in near
    <3>1. \A k \in DOMAIN gallery : 0 <= Distance(f, gallery[k])
      BY <1>2, <1>3
    <3> QED BY <1>4, <1>3, <3>1 DEF near
  <2>2. ASSUME NEW l \in near PROVE l = j
    <3>1. l \in DOMAIN gallery /\ Distance(f, gallery[l]) <= 0
      BY <1>4 DEF near
    <3>2. Distance(f, gallery[l]) \in 0..512
      BY <1>2, <3>1
    <3>3. ~ (Distance(f, gallery[l]) > 0)
      BY <1>3, <3>1, <3>2
    <3> QED BY <1>5, <3>1, <3>3
  <2> QED BY <2>1, <2>2
<1>7. Min(near) = j
  <2>1. j \in Int
    OBVIOUS
  <2> QED BY <1>6, <2>1 DEF Min
<1>8. Nearest(f, gallery) = Min(near)
  <2>1. near # {}
    BY <1>6
  <2> QED BY <2>1 DEF Nearest, near
<1> QED BY <1>4, <1>7, <1>8

(* The features of a press lie apart.                                          *)
Apart(press) ==
  \A i, k \in DOMAIN press :
    press[i].x = press[k].x /\ press[i].y = press[k].y => i = k

(* A press that shows a part of a frame is paired with that part, every feature  *)
(* of it with no distance, one offset and one turn.                            *)
LEMMA ShownPairs ==
  ASSUME NEW probe \in Seq(Feature), NEW gallery \in Seq(Feature), Apart(probe),
         Distinct(gallery), Shows(probe, gallery), Len(probe) > 0
  PROVE  /\ Len(probe) <= Len(gallery)
         /\ \E dx, dy, turn \in Int :
              \A p \in Pairs(probe, gallery) : p.h = 0 /\ p.offset = <<dx, dy>> /\ p.turn = turn
         /\ {p.i : p \in Pairs(probe, gallery)} = DOMAIN probe
PROOF
<1>1. PICK m \in DOMAIN gallery : \A i \in DOMAIN probe : \E j \in DOMAIN gallery :
        /\ probe[i].desc = gallery[j].desc
        /\ Offset(probe[i], gallery[j]) = Offset(probe[1], gallery[m])
        /\ probe[i].orient - gallery[j].orient = probe[1].orient - gallery[m].orient
  BY DEF Shows
<1>2. /\ DOMAIN probe = 1..Len(probe) /\ Len(probe) \in Nat
      /\ DOMAIN gallery = 1..Len(gallery) /\ Len(gallery) \in Nat
      /\ \A i \in DOMAIN probe : probe[i] \in Feature
      /\ \A j \in DOMAIN gallery : gallery[j] \in Feature
  OBVIOUS
<1> DEFINE at(i) == Nearest(probe[i], gallery)
<1>3. ASSUME NEW i \in DOMAIN probe
      PROVE  /\ at(i) \in DOMAIN gallery /\ at(i) # 0
             /\ Distance(probe[i], gallery[at(i)]) = 0
             /\ Offset(probe[i], gallery[at(i)]) = Offset(probe[1], gallery[m])
             /\ probe[i].orient - gallery[at(i)].orient = probe[1].orient - gallery[m].orient
  <2>1. PICK j \in DOMAIN gallery :
        /\ probe[i].desc = gallery[j].desc
        /\ Offset(probe[i], gallery[j]) = Offset(probe[1], gallery[m])
        /\ probe[i].orient - gallery[j].orient = probe[1].orient - gallery[m].orient
    BY <1>1
  <2>2. at(i) = j /\ Distance(probe[i], gallery[j]) = 0
    BY <2>1, NearestOfShown
  <2>3. j # 0
    BY <1>2
  <2> HIDE DEF at
  <2> QED BY <2>1, <2>2, <2>3
<1> DEFINE pair(i) == LET g == gallery[at(i)]
                      IN  [i |-> i, h |-> Distance(probe[i], g), offset |-> Offset(probe[i], g),
                           turn |-> probe[i].orient - g.orient]
<1>4. Pairs(probe, gallery) = {pair(i) : i \in DOMAIN probe}
  <2>1. Pairs(probe, gallery) = {pair(i) : i \in {k \in DOMAIN probe : at(k) # 0}}
    BY DEF Pairs
  <2>2. {k \in DOMAIN probe : at(k) # 0} = DOMAIN probe
    <3> HIDE DEF at
    <3> QED BY <1>3
  <2> HIDE DEF pair, at
  <2> QED BY <2>1, <2>2
<1>5. Len(probe) <= Len(gallery)
  <2> DEFINE f == [i \in DOMAIN probe |-> at(i)]
  <2>1. ASSUME NEW i \in DOMAIN probe, NEW k \in DOMAIN probe, at(i) = at(k) PROVE i = k
    <3> DEFINE g == gallery[at(i)]
    <3>1. g \in Feature /\ probe[i] \in Feature /\ probe[k] \in Feature
      BY <1>2, <1>3
    <3>2. Offset(probe[i], g) = Offset(probe[k], g)
      BY <1>3, <2>1
    <3> HIDE DEF g, at
    <3>3. probe[i].x - g.x = probe[k].x - g.x /\ probe[i].y - g.y = probe[k].y - g.y
      BY <3>2 DEF Offset
    <3>4. probe[i].x = probe[k].x /\ probe[i].y = probe[k].y
      BY <3>1, <3>3, FeatureTypes
    <3> QED BY <3>4 DEF Apart
  <2> HIDE DEF at
  <2>2. f \in Injection(DOMAIN probe, DOMAIN gallery)
    BY <1>3, <2>1 DEF Injection, IsInjective
  <2>3. /\ IsFiniteSet(DOMAIN gallery) /\ Cardinality(DOMAIN gallery) = Len(gallery)
        /\ IsFiniteSet(DOMAIN probe) /\ Cardinality(DOMAIN probe) = Len(probe)
    <3>1. \A n \in Nat : IsFiniteSet(1..n) /\ Cardinality(1..n) = n
      <4> SUFFICES ASSUME NEW n \in Nat PROVE IsFiniteSet(1..n) /\ Cardinality(1..n) = n
        OBVIOUS
      <4>1. 1 \in Int /\ n \in Int /\ (IF 1 > n THEN 0 ELSE n - 1 + 1) = n
        OBVIOUS
      <4> QED BY <4>1, FS_Interval
    <3> QED BY <1>2, <3>1
  <2> HIDE DEF f
  <2> QED BY <2>2, <2>3, FS_Injection
<1>6. \E dx, dy, turn \in Int :
        \A p \in Pairs(probe, gallery) : p.h = 0 /\ p.offset = <<dx, dy>> /\ p.turn = turn
  <2> DEFINE dx == probe[1].x - gallery[m].x
             dy == probe[1].y - gallery[m].y
             turn == probe[1].orient - gallery[m].orient
  <2>1. dx \in Int /\ dy \in Int /\ turn \in Int /\ Offset(probe[1], gallery[m]) = <<dx, dy>>
    <3>1. probe[1] \in Feature /\ gallery[m] \in Feature
      BY <1>2
    <3> QED BY <3>1, FeatureTypes DEF Offset
  <2>2. ASSUME NEW p \in Pairs(probe, gallery)
        PROVE  p.h = 0 /\ p.offset = <<dx, dy>> /\ p.turn = turn
    <3>1. PICK i \in DOMAIN probe : p = pair(i)
      BY <1>4
    <3>2. /\ p.h = Distance(probe[i], gallery[at(i)])
          /\ p.offset = Offset(probe[i], gallery[at(i)])
          /\ p.turn = probe[i].orient - gallery[at(i)].orient
      BY <3>1
    <3> HIDE DEF at, dx, dy
    <3> QED BY <1>3, <2>1, <3>2
  <2> HIDE DEF dx, dy, turn
  <2> QED BY <2>1, <2>2
<1>7. {p.i : p \in Pairs(probe, gallery)} = DOMAIN probe
  <2>1. \A i : pair(i).i = i
    OBVIOUS
  <2> HIDE DEF pair
  <2>2. \A p \in Pairs(probe, gallery) : p.i \in DOMAIN probe
    BY <1>4, <2>1
  <2>3. \A i \in DOMAIN probe : \E p \in Pairs(probe, gallery) : i = p.i
    BY <1>4, <2>1
  <2> QED BY <2>2, <2>3
<1> QED BY <1>5, <1>6, <1>7

(* A turn is the same as itself, whatever the filter bank.                     *)
LEMMA SameTurnReflexive ==
  ASSUME NEW turn \in Int
  PROVE  SameTurn(turn, turn)
PROOF
<1> DEFINE m == 360 * NOrient
           dm == (180 * (turn - turn)) % m
<1>1. NOrient \in Nat /\ m \in Nat /\ m > 0
  BY TemplateAssumption
<1>2. dm = 0
  <2>1. 180 * (turn - turn) = 0
    OBVIOUS
  <2> HIDE DEF m
  <2>2. 0 % m = 0
    BY <1>1
  <2> QED BY <2>1, <2>2
<1>3. Min({dm, m - dm}) = 0
  <2>1. {dm, m - dm} = {0, m}
    BY <1>1, <1>2
  <2> HIDE DEF m
  <2>2. Min({0, m}) = 0
    BY <1>1 DEF Min
  <2> QED BY <2>1, <2>2
<1> HIDE DEF dm
<1> QED BY <1>1, <1>3 DEF SameTurn, dm

(* The centre of a bucket is within the window of every offset in it.           *)
LEMMA NearCentre ==
  ASSUME NEW v \in Int
  PROVE  AbsDiff(v, 8 * (v \div 8) + 4) <= 8
PROOF BY DEF AbsDiff

(* A press that shows a part of a frame scores full marks for every feature.    *)
LEMMA ShownScores ==
  ASSUME NEW probe \in Seq(Feature), NEW gallery \in Seq(Feature), Apart(probe),
         Distinct(gallery), Shows(probe, gallery), Len(probe) >= MinMatched
  PROVE  Score(probe, gallery) = 128 * Len(probe)
PROOF
<1> DEFINE pairs == Pairs(probe, gallery)
           inl == Inliers(pairs)
           good == {p \in inl : SameTurn(p.turn, Mode(inl))}
<1>1. Len(probe) \in Nat /\ Len(gallery) \in Nat /\ MinMatched \in Nat \ {0}
      /\ DOMAIN probe = 1..Len(probe) /\ Len(probe) > 0 /\ HammingBudget \in Nat
  BY TemplateAssumption
<1>2. /\ Len(probe) <= Len(gallery)
      /\ {p.i : p \in pairs} = DOMAIN probe
  BY <1>1, ShownPairs
<1>3. PICK dx \in Int, dy \in Int, turn \in Int :
        \A p \in pairs : p.h = 0 /\ p.offset = <<dx, dy>> /\ p.turn = turn
  BY <1>1, ShownPairs
<1>4. \A p, q \in pairs : p.i = q.i => p = q
  BY PairsArePairs
<1> HIDE DEF pairs
<1>5. IsFiniteSet(pairs) /\ Cardinality(pairs) = Len(probe) /\ pairs # {}
  <2>1. \A p \in pairs : p.i \in 1..Len(probe)
    BY <1>1, <1>2
  <2>2. IsFiniteSet(pairs) /\ Cardinality({p.i : p \in pairs}) = Cardinality(pairs)
    BY <1>1, <1>4, <2>1, CountedByIndex
  <2>3. Cardinality(1..Len(probe)) = Len(probe)
    <3>1. 1 \in Int /\ Len(probe) \in Int
          /\ (IF 1 > Len(probe) THEN 0 ELSE Len(probe) - 1 + 1) = Len(probe)
      BY <1>1
    <3> QED BY <3>1, FS_Interval
  <2>4. Cardinality(pairs) = Len(probe)
    BY <1>1, <1>2, <2>2, <2>3
  <2>5. pairs # {}
    <3>1. 1 \in DOMAIN probe
      BY <1>1
    <3> QED BY <1>2, <3>1
  <2> QED BY <2>2, <2>4, <2>5
<1>6. Cluster(pairs) = <<dx \div 8, dy \div 8>>
  <2>1. PICK p \in pairs : Cluster(pairs) = Bucket(p.offset)
    BY <1>1, <1>2, <1>4, <1>5, ClusterIsBucket
  <2> QED BY <1>3, <2>1 DEF Bucket
<1>7. inl = pairs
  <2> SUFFICES ASSUME NEW p \in pairs
               PROVE  /\ p.h <= HammingBudget
                      /\ \A d \in 1..2 : AbsDiff(p.offset[d], 8 * Cluster(pairs)[d] + 4) <= 8
    BY DEF Inliers
  <2>1. p.h <= HammingBudget
    BY <1>1, <1>3
  <2>2. /\ p.offset[1] = dx /\ p.offset[2] = dy
        /\ Cluster(pairs)[1] = dx \div 8 /\ Cluster(pairs)[2] = dy \div 8
    BY <1>3, <1>6
  <2>3. /\ AbsDiff(p.offset[1], 8 * Cluster(pairs)[1] + 4) <= 8
        /\ AbsDiff(p.offset[2], 8 * Cluster(pairs)[2] + 4) <= 8
    BY <2>2, NearCentre
  <2>4. \A d \in 1..2 : d = 1 \/ d = 2
    OBVIOUS
  <2> QED BY <2>1, <2>3, <2>4
<1>8. Mode(inl) = turn
  <2> DEFINE b == AbsDiff(turn, 0)
  <2>1. b \in Nat /\ turn \in -b..b
    BY DEF AbsDiff
  <2> HIDE DEF b, inl
  <2>2. \A p \in inl : p.turn \in -b..b
    BY <1>3, <1>7, <2>1
  <2>3. PICK p \in inl : Mode(inl) = p.turn
    BY <1>5, <1>7, <2>1, <2>2, ModeIsTurn
  <2> QED BY <1>3, <1>7, <2>3
<1>9. good = pairs
  <2> HIDE DEF inl
  <2> QED BY <1>3, <1>7, <1>8, SameTurnReflexive
<1>10. Sum(pairs, good) = 128 * Len(probe)
  <2> HIDE DEF good
  <2>1. MapThenSumSet(LAMBDA p : 128 - p.h, good) = 128 * Len(probe)
    BY <1>3, <1>5, <1>9, SumOfZeros
  <2>2. {p \in pairs : p.h > 256} = {}
    BY <1>3
  <2>3. MapThenSumSet(LAMBDA p : p.h \div 2, {p \in pairs : p.h > 256}) = 0
    BY <2>2, SumOfNothing
  <2>4. Sum(pairs, good) = 128 * Len(probe) - 0
    BY <2>1, <2>3 DEF Sum
  <2> QED BY <1>1, <2>4
<1>11. Score(probe, gallery) =
        IF \/ Len(probe) < MinMatched \/ Len(gallery) < MinMatched
           \/ pairs = {} \/ Cardinality(inl) < MinMatched
           \/ Cardinality(good) < MinMatched
        THEN 0 ELSE Sum(pairs, good)
  BY DEF Score, pairs
<1> HIDE DEF inl, good
<1>12. /\ ~ (Len(probe) < MinMatched) /\ ~ (Len(gallery) < MinMatched)
       /\ ~ (Cardinality(inl) < MinMatched) /\ ~ (Cardinality(good) < MinMatched)
  BY <1>1, <1>2, <1>5, <1>7, <1>9
<1> QED BY <1>5, <1>10, <1>11, <1>12

(* A probe that shows a part of enough frames matches.                         *)
LEMMA ShownMatches ==
  ASSUME NEW probe \in Presses, NEW gallery \in Seq(Seq(Feature)), Len(probe) >= MinMatched,
         Cardinality({g \in DOMAIN gallery :
           Distinct(gallery[g]) /\ Shows(probe, gallery[g])}) >= AgreeFrames
  PROVE  Matches(probe, gallery)
PROOF
<1> DEFINE A == {g \in DOMAIN gallery : Score(probe, gallery[g]) >= AgreeScore}
           R == {g \in DOMAIN gallery : Distinct(gallery[g]) /\ Shows(probe, gallery[g])}
<1>1. /\ probe \in Seq(Feature) /\ Apart(probe) /\ Len(probe) \in Nat
      /\ DOMAIN gallery = 1..Len(gallery) /\ Len(gallery) \in Nat
  <2>1. probe \in Seq(Feature)
    BY PressFacts
  <2>2. Apart(probe)
    BY RecognitionAssumption DEF Apart
  <2> QED BY <2>1, <2>2
<1>2. ASSUME NEW g \in R
      PROVE  Score(probe, gallery[g]) >= MatchThreshold /\ g \in A
  <2>1. Score(probe, gallery[g]) = 128 * Len(probe)
    BY <1>1, ShownScores
  <2>2. /\ MatchThreshold \in Int /\ AgreeScore \in Int /\ MinMatched \in Int
        /\ MatchThreshold <= 128 * MinMatched /\ AgreeScore <= 128 * MinMatched
    BY TemplateAssumption, RecognitionAssumption
  <2>3. MatchThreshold <= 128 * Len(probe) /\ AgreeScore <= 128 * Len(probe)
    BY <1>1, <2>2
  <2> QED BY <1>1, <2>1, <2>2, <2>3
<1>3. R \subseteq DOMAIN gallery /\ A \subseteq DOMAIN gallery
  OBVIOUS
<1>4. Cardinality(R) >= AgreeFrames
  OBVIOUS
<1> HIDE DEF R
<1>5. R # {}
  <2>1. Cardinality({}) = 0 /\ ~ (0 >= AgreeFrames)
    BY FS_EmptySet, TemplateAssumption
  <2> QED BY <1>4, <2>1
<1>6. PICK g \in R : Score(probe, gallery[g]) >= MatchThreshold
  BY <1>2, <1>5
<1>7. Cardinality(A) >= AgreeFrames
  <2> HIDE DEF A
  <2>1. R \subseteq A /\ A \subseteq 1..Len(gallery)
    BY <1>1, <1>2, <1>3
  <2>2. IsFiniteSet(A)
    <3>1. IsFiniteSet(1..Len(gallery))
      BY <1>1, FS_Interval
    <3> QED BY <2>1, <3>1, FS_Subset
  <2>3. /\ Cardinality(R) <= Cardinality(A)
        /\ Cardinality(R) \in Nat /\ Cardinality(A) \in Nat /\ AgreeFrames \in Nat
    BY <2>1, <2>2, FS_Subset, FS_CardinalityType, TemplateAssumption
  <2> QED BY <1>4, <2>3
<1> QED BY <1>3, <1>6, <1>7 DEF Matches

LEMMA RefusedIsNotShown ==
  ASSUME NEW probe \in Presses, NEW gallery \in Seq(Seq(Feature)), Len(probe) >= MinMatched,
         ~ Matches(probe, gallery)
  PROVE  Cardinality({g \in DOMAIN gallery :
           Distinct(gallery[g]) /\ Shows(probe, gallery[g])}) < AgreeFrames
PROOF
<1> DEFINE R == {g \in DOMAIN gallery : Distinct(gallery[g]) /\ Shows(probe, gallery[g])}
<1>1. ~ (Cardinality(R) >= AgreeFrames)
  BY ShownMatches
<1>2. R \subseteq 1..Len(gallery) /\ Len(gallery) \in Nat
  OBVIOUS
<1> HIDE DEF R
<1>3. IsFiniteSet(R)
  <2>1. IsFiniteSet(1..Len(gallery))
    BY <1>2, FS_Interval
  <2> QED BY <1>2, <2>1, FS_Subset
<1>4. Cardinality(R) \in Nat /\ AgreeFrames \in Nat
  BY <1>3, FS_CardinalityType, Sizes
<1>5. Cardinality(R) < AgreeFrames
  <2>1. \A m, n \in Nat : ~ (m >= n) => m < n
    OBVIOUS
  <2> QED BY <1>1, <1>4, <2>1
<1> QED BY <1>5 DEF R

----------------------------------------------------------------------------
(* What the verdict stands for.                                               *)

(* The verdict stands for probes and a gallery that are still there to be        *)
(* compared.                                                                  *)
EarnedInv ==
  /\ verify_gallery \in Seq(Seq(Feature))
  /\ verify_probes \in Seq(Presses) /\ judged \in Seq(Presses)
  /\ verdict = "match" => \E p \in DOMAIN judged : Matches(judged[p], verify_gallery)

(* A refusal has judged every probe.                                           *)
RefusedInv ==
  verdict = "no match" => \A p \in DOMAIN judged : ~ Matches(judged[p], verify_gallery)

(* What is unpacked is a sequence of feature sets.                             *)
LEMMA UnpackedType ==
  ASSUME NEW data \in Data, Usable(data)
  PROVE  Unpacked(data) \in Seq(Seq(Feature))
PROOF
<1>1. data.frames \in Seq(Seq(StoredFeature))
  BY DEF Data
<1>2. ASSUME NEW s \in DOMAIN data.frames
      PROVE  [k \in Read(data.frames[s]) |-> data.frames[s][k].f] \in Seq(Feature)
  <2> DEFINE n == IF Len(data.frames[s]) <= MaxFeatures THEN Len(data.frames[s]) ELSE MaxFeatures
  <2>1. data.frames[s] \in Seq(StoredFeature)
    BY <1>1
  <2>2. n \in Nat /\ Read(data.frames[s]) = 1..n /\ 1..n \subseteq DOMAIN data.frames[s]
    BY <2>1, Sizes DEF Read
  <2> HIDE DEF n
  <2>3. ASSUME NEW k \in 1..n PROVE data.frames[s][k].f \in Feature
    <3> DEFINE f == data.frames[s][k].f
    <3>1. data.frames[s][k] \in StoredFeature
      BY <2>1, <2>2
    <3>2. f \in [x : UInt16, y : UInt16, orient : 0..255, desc : Desc]
      BY <3>1 DEF StoredFeature
    <3>3. f.orient \in Orient
      <4>1. f.orient < NOrient /\ f.orient \in 0..255
        BY <2>2, <3>2 DEF Usable
      <4> QED BY <4>1, ByteOrient
    <3> HIDE DEF f
    <3>4. f \in Feature
      BY <3>2, <3>3 DEF Feature
    <3> QED BY <3>4 DEF f
  <2>4. [k \in 1..n |-> data.frames[s][k].f] \in [1..n -> Feature]
    BY <2>3
  <2> QED BY <2>2, <2>4
<1>3. DOMAIN data.frames = 1..Len(data.frames) /\ Len(data.frames) \in Nat
  BY <1>1
<1> QED BY <1>2, <1>3 DEF Unpacked

LEMMA PressesAreFeatures == \A sets \in Seq(Presses) : sets \in Seq(Seq(Feature))
PROOF
<1>1. Presses \subseteq Seq(Feature)
  BY TemplateAssumption
<1> QED BY <1>1

LEMMA FinalizeEarns ==
  ASSUME EarnedInv, NEW probes \in Seq(Presses), Finalize(probes), UNCHANGED verify_gallery
  PROVE  EarnedInv'
PROOF
<1>1. verify_probes' = <<>> /\ judged' = probes
  BY DEF Finalize
<1>2. verdict' = "match" => \E p \in DOMAIN probes : Matches(probes[p], verify_gallery)
  BY DEF Finalize
<1> QED BY <1>1, <1>2 DEF EarnedInv

LEMMA EarnedKeeps == Inv /\ EarnedInv /\ [Next]_vars => EarnedInv'
PROOF
<1> SUFFICES ASSUME Inv, EarnedInv, [Next]_vars PROVE EarnedInv'
  OBVIOUS
<1>1. CASE DevEnroll
  BY <1>1 DEF DevEnroll, EarnedInv
<1>2. CASE ProbesEnd
  BY <1>2, FinalizeEarns DEF ProbesEnd, EarnedInv
<1>3. CASE Cancelled
  BY <1>3 DEF Cancelled, EarnedInv
<1>4. ASSUME NEW press \in Presses, RejectFrame(press) PROVE EarnedInv'
  BY <1>4 DEF RejectFrame, EarnedInv
<1>5. ASSUME NEW press \in Presses, PoolFrame(press) PROVE EarnedInv'
  BY <1>5 DEF PoolFrame, EarnedInv
<1>6. ASSUME NEW press \in Presses, Probe(press) PROVE EarnedInv'
  <2> DEFINE probes == Append(verify_probes, press)
  <2>1. probes \in Seq(Presses)
    BY DEF EarnedInv
  <2>2. UNCHANGED verify_gallery
    BY <1>6 DEF Probe
  <2>3. \/ Finalize(probes)
        \/ verify_probes' = probes /\ UNCHANGED <<verdict, judged>>
    BY <1>6 DEF Probe
  <2> HIDE DEF probes
  <2> QED BY <2>1, <2>2, <2>3, FinalizeEarns DEF EarnedInv
<1>7. ASSUME NEW data \in print \cup Foreign, DevVerify(data) PROVE EarnedInv'
  <2>1. Usable(data) => Unpacked(data) \in Seq(Seq(Feature))
    <3>1. CASE data \in print
      <4>1. data = Pack(pooled) /\ pooled \in Seq(Presses) /\ Len(pooled) = EnrollFrames
        BY <3>1 DEF Inv, PrintInv
      <4> QED BY <4>1, RoundTrip, PressesAreFeatures
    <3>2. CASE data \in Foreign
      BY <3>2, TemplateAssumption, UnpackedType
    <3> QED BY <3>1, <3>2
  <2>2. verify_gallery' \in Seq(Seq(Feature)) /\ verify_probes' = <<>> /\ judged' = <<>>
    BY <1>7, <2>1 DEF DevVerify
  <2>3. verdict' # "match"
    BY <1>7 DEF DevVerify
  <2> QED BY <2>2, <2>3 DEF EarnedInv
<1>8. CASE UNCHANGED vars
  BY <1>8 DEF vars, EarnedInv
<1> QED BY <1>1, <1>2, <1>3, <1>4, <1>5, <1>6, <1>7, <1>8 DEF Next

LEMMA PressOf ==
  ASSUME NEW sets \in Seq(Presses), NEW s \in DOMAIN sets
  PROVE  sets[s] \in Presses
PROOF OBVIOUS

LEMMA RefusedKeeps == RefusedInv /\ [Next]_vars => RefusedInv'
PROOF
<1> SUFFICES ASSUME RefusedInv, [Next]_vars, verdict' = "no match", NEW p \in DOMAIN judged'
             PROVE  ~ Matches(judged'[p], verify_gallery')
  BY DEF RefusedInv
<1>1. ASSUME NEW probes, Finalize(probes), UNCHANGED verify_gallery
      PROVE  ~ Matches(judged'[p], verify_gallery')
  BY <1>1 DEF Finalize
<1>2. ASSUME UNCHANGED <<verdict, judged, verify_gallery>>
      PROVE  ~ Matches(judged'[p], verify_gallery')
  BY <1>2 DEF RefusedInv
<1>3. CASE DevEnroll
  BY <1>3 DEF DevEnroll
<1>4. CASE ProbesEnd
  BY <1>1, <1>4 DEF ProbesEnd
<1>5. CASE Cancelled
  BY <1>2, <1>5 DEF Cancelled
<1>6. ASSUME NEW press \in Presses, RejectFrame(press) \/ PoolFrame(press) \/ Probe(press)
      PROVE  ~ Matches(judged'[p], verify_gallery')
  BY <1>1, <1>2, <1>6 DEF RejectFrame, PoolFrame, Probe
<1>7. ASSUME NEW data \in print \cup Foreign, DevVerify(data)
      PROVE  ~ Matches(judged'[p], verify_gallery')
  BY <1>7 DEF DevVerify
<1>8. CASE UNCHANGED vars
  BY <1>2, <1>8 DEF vars
<1> QED BY <1>3, <1>4, <1>5, <1>6, <1>7, <1>8 DEF Next

(* A verify succeeds only if enough frames of the gallery have enough features    *)
(* of one probe, near in the descriptor, within one window and turned alike.    *)
(* The premise says that a step of the filter bank is more than the 12 degrees  *)
(* that egis0575_m_score tolerates; it has 11 orientations.                    *)
THEOREM MatchAlwaysEarned ==
  ASSUME NOrient < 15
  PROVE  Spec => []MatchIsEarned
PROOF
<1>1. Inv /\ EarnedInv => MatchIsEarned
  <2> SUFFICES ASSUME EarnedInv, verdict = "match"
               PROVE  \E p \in DOMAIN judged :
                        Cardinality({g \in DOMAIN verify_gallery :
                          Resembles(judged[p], verify_gallery[g])}) >= AgreeFrames
    BY DEF MatchIsEarned
  <2>1. PICK p \in DOMAIN judged : Matches(judged[p], verify_gallery)
    BY DEF EarnedInv
  <2>2. judged[p] \in Seq(Feature) /\ verify_gallery \in Seq(Seq(Feature))
    BY PressFacts DEF EarnedInv
  <2> QED BY <2>1, <2>2, MatchingResembles
<1>2. Init => EarnedInv
  BY DEF Init, EarnedInv
<1> QED BY <1>1, <1>2, InitInv, NextKeeps, EarnedKeeps, PTL DEF Spec

(* A verify fails only if no probe of enough features shows a part of enough      *)
(* frames of the gallery: finalize_verify passes over no genuine finger, however *)
(* it is moved and turned on the sensor.                                       *)
THEOREM GenuineAlwaysMatches == Spec => []GenuineMatches
PROOF
<1>1. EarnedInv /\ RefusedInv => GenuineMatches
  <2> SUFFICES ASSUME EarnedInv, RefusedInv, verdict = "no match", NEW p \in DOMAIN judged
               PROVE  Len(judged[p]) >= MinMatched =>
                        Cardinality({g \in DOMAIN verify_gallery :
                          Distinct(verify_gallery[g]) /\ Shows(judged[p], verify_gallery[g])})
                            < AgreeFrames
    BY DEF GenuineMatches
  <2>1. judged[p] \in Presses /\ verify_gallery \in Seq(Seq(Feature))
    <3>1. judged \in Seq(Presses) /\ verify_gallery \in Seq(Seq(Feature))
      BY DEF EarnedInv
    <3> QED BY <3>1, PressOf
  <2>2. ~ Matches(judged[p], verify_gallery)
    BY DEF RefusedInv
  <2> QED BY <2>1, <2>2, RefusedIsNotShown
<1>2. Init => EarnedInv /\ RefusedInv
  BY DEF Init, EarnedInv, RefusedInv
<1> QED BY <1>1, <1>2, InitInv, NextKeeps, EarnedKeeps, RefusedKeeps, PTL DEF Spec
=============================================================================
