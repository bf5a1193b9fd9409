-------------------------- MODULE Egis0575Template --------------------------
(* The feature template of egis0575, from the presses of an enrollment through *)
(* the stored print to the verdict of a verify: the matcher's score, the       *)
(* same-spot gate, packing and unpacking, the gallery checks.  A press is the   *)
(* sequence of features egis0575_m_extract finds in it; a descriptor is a       *)
(* member of Desc, compared through its Hamming distances.  Sizes and          *)
(* thresholds are parameters; pixel and angle tolerances are the code's.       *)
EXTENDS Integers, Sequences, FiniteSetsExt

CONSTANTS
  Desc,              \* the descriptors
  Dist,              \* their distances, 0..512
  NOrient,           \* EGIS0575_M_N_ORIENT
  MaxFeatures,       \* EGIS0575_M_MAX_FEATURES
  MinMatched,        \* EGIS0575_M_MIN_MATCHED
  HammingBudget,     \* EGIS0575_M_HAMMING_BUDGET
  MatchThreshold,    \* EGIS0575_M_MATCH_THRESHOLD
  AgreeScore,        \* EGIS0575_M_AGREE_SCORE
  AgreeFrames,       \* EGIS0575_M_AGREE_FRAMES
  EnrollFrames,      \* EGIS0575_ENROLL_FRAMES
  SimThreshold,      \* enroll_sim_threshold, 0 disables
  SimMaxRejects,     \* EGIS0575_ENROLL_SIM_MAX_REJECTS
  ProbeFrames,       \* EGIS0575_VERIFY_PROBE_FRAMES
  MaxStored,         \* the most frames unpack_feature_frames takes, 64
  Presses,           \* what the sensor may show
  Foreign            \* stored data that this driver did not write

DescBytes == 64      \* EGIS0575_M_DESC_BYTES
TemplateVersion == 1 \* EGIS0575_TEMPLATE_VERSION

UInt16 == 0..65535
Orient == 0..NOrient-1
Feature == [x : UInt16, y : UInt16, orient : Orient, desc : Desc]

(* What the type of the stored data guarantees, whoever wrote it.              *)
StoredFeature ==
  [f : [x : UInt16, y : UInt16, orient : 0..255, desc : Desc], len : Nat]
Data == [format : STRING, version : 0..255, frames : Seq(Seq(StoredFeature))]

ASSUME TemplateAssumption ==
  /\ NOrient \in Nat \ {0} /\ MaxFeatures \in Nat \ {0} /\ MinMatched \in Nat \ {0}
  /\ AgreeFrames \in Nat \ {0} /\ EnrollFrames \in Nat /\ MaxStored \in Nat
  /\ AgreeFrames <= EnrollFrames /\ EnrollFrames <= MaxStored
  /\ ProbeFrames \in Nat \ {0} /\ SimThreshold \in Nat /\ SimMaxRejects \in Nat
  /\ HammingBudget \in Nat /\ MatchThreshold \in Nat \ {0} /\ AgreeScore \in Nat \ {0}
  /\ Presses \subseteq Seq(Feature) /\ \A press \in Presses : Len(press) <= MaxFeatures
  /\ Foreign \subseteq Data
  /\ Dist \in [Desc -> [Desc -> 0..512]] /\ \A d \in Desc : Dist[d][d] = 0

(* egis0575_m_extract keeps its features apart, so no two lie at one place, and  *)
(* no threshold asks for more than MinMatched perfect features score.          *)
ASSUME RecognitionAssumption ==
  /\ \A press \in Presses : \A i, k \in DOMAIN press :
       press[i].x = press[k].x /\ press[i].y = press[k].y => i = k
  /\ MatchThreshold <= 128 * MinMatched /\ AgreeScore <= 128 * MinMatched

VARIABLES
  action,              \* the current action: "none", "enroll", "verify"
  enroll_feats,        \* the first enroll_stage entries of self->enroll_feats
  enroll_sim_rejects,
  print,               \* "fpi-data" of the enrolled print, {} or one template
  verify_gallery,
  verify_probes,
  verdict,             \* "none", "match", "no match", "invalid"
  own,                 \* history: the print being verified is the enrolled one
  pooled,              \* history: the frames of the last enrollment
  judged               \* history: the probes of the verdict

vars == <<action, enroll_feats, enroll_sim_rejects, print, verify_gallery,
          verify_probes, verdict, own, pooled, judged>>

Init ==
  /\ action = "none" /\ enroll_feats = <<>> /\ enroll_sim_rejects = 0
  /\ print = {} /\ verify_gallery = <<>> /\ verify_probes = <<>>
  /\ verdict = "none" /\ own = FALSE /\ pooled = <<>> /\ judged = <<>>

----------------------------------------------------------------------------
(* egis0575_m_score.                                                          *)

Distance(f, g) == Dist[f.desc][g.desc]

(* The first nearest gallery feature, 0 when all are as far as can be.         *)
Nearest(f, gallery) ==
  LET near == {j \in DOMAIN gallery : Distance(f, gallery[j]) < 512
                 /\ \A k \in DOMAIN gallery :
                      Distance(f, gallery[j]) <= Distance(f, gallery[k])}
  IN  IF near = {} THEN 0 ELSE Min(near)

Offset(f, g) == <<f.x - g.x, f.y - g.y>>

\* Mutant: divides towards zero.
BucketTruncated(offset) ==
  LET div8(v) == IF v >= 0 THEN v \div 8 ELSE -((-v) \div 8)
  IN  <<div8(offset[1]), div8(offset[2])>>

(* floordiv8 of both coordinates.                                              *)
Bucket(offset) == <<offset[1] \div 8, offset[2] \div 8>>

(* Every probe feature that has a plausible partner, with how far the partner    *)
(* is, how far it lies and how much it is turned.                              *)
Pairs(probe, gallery) ==
  { LET g == gallery[Nearest(probe[i], gallery)]
    IN  [i |-> i, h |-> Distance(probe[i], g), offset |-> Offset(probe[i], g),
         turn |-> probe[i].orient - g.orient] :
    i \in {k \in DOMAIN probe : Nearest(probe[k], gallery) # 0} }

(* The bucket that most pairs fall into, the first of the ties.                *)
Cluster(pairs) ==
  LET fellows(p) == Cardinality({q \in pairs : Bucket(q.offset) = Bucket(p.offset)})
      first == CHOOSE p \in pairs : \A q \in pairs :
                 fellows(p) > fellows(q) \/ (fellows(p) = fellows(q) /\ p.i <= q.i)
  IN  Bucket(first.offset)

AbsDiff(a, b) == IF a >= b THEN a - b ELSE b - a

(* Near enough, and within POS_TOL_PX of the centre of the cluster.            *)
Inliers(pairs) ==
  LET cluster == Cluster(pairs)
  IN  {p \in pairs : /\ p.h <= HammingBudget
                     /\ \A d \in 1..2 : AbsDiff(p.offset[d], 8 * cluster[d] + 4) <= 8}

(* The turn that most inliers share, the smallest of the ties.                 *)
Mode(inl) ==
  LET votes(d) == Cardinality({p \in inl : p.turn = d})
      turns == {p.turn : p \in inl}
  IN  Min({d \in turns : \A e \in turns : votes(d) >= votes(e)})

(* Two turns, in steps of 180/NOrient degrees, within ANGLE_TOL_DEG.           *)
SameTurn(turn, mode) ==
  LET dm == (180 * (turn - mode)) % (360 * NOrient)
  IN  Min({dm, 360 * NOrient - dm}) <= 12 * NOrient

(* The sum over what agrees less the penalty for what has no plausible partner. *)
Sum(pairs, good) ==
  MapThenSumSet(LAMBDA p : 128 - p.h, good)
    - MapThenSumSet(LAMBDA p : p.h \div 2, {p \in pairs : p.h > 256})

(* What agrees in position and in turn counts, if it is enough.                *)
Score(probe, gallery) ==
  LET pairs == Pairs(probe, gallery)
      inl   == Inliers(pairs)
      good  == {p \in inl : SameTurn(p.turn, Mode(inl))}
  IN  IF \/ Len(probe) < MinMatched \/ Len(gallery) < MinMatched
         \/ pairs = {} \/ Cardinality(inl) < MinMatched
         \/ Cardinality(good) < MinMatched
      THEN 0 ELSE Sum(pairs, good)

\* Mutant: one good frame is enough.
BestFrameMatches(probe, gallery) ==
  \E g \in DOMAIN gallery : Score(probe, gallery[g]) >= MatchThreshold

(* probe_matches_gallery: the best frame clears the threshold and enough agree. *)
Matches(probe, gallery) ==
  /\ \E g \in DOMAIN gallery : Score(probe, gallery[g]) >= MatchThreshold
  /\ Cardinality({g \in DOMAIN gallery : Score(probe, gallery[g]) >= AgreeScore})
       >= AgreeFrames

----------------------------------------------------------------------------
(* pack_feature_frames and unpack_feature_frames.                             *)

Template(format, version, frames) ==
  [format |-> format, version |-> version, frames |-> frames]

\* Mutant: the orientation is not stored, as in version 0 of the format.
PackWithoutOrient(sets) ==
  Template("(yaa(qqyay))", TemplateVersion,
    [s \in DOMAIN sets |-> [i \in DOMAIN sets[s] |->
       [f |-> [sets[s][i] EXCEPT !.orient = 0], len |-> DescBytes]]])

Pack(sets) ==
  Template("(yaa(qqyay))", TemplateVersion,
    [s \in DOMAIN sets |-> [i \in DOMAIN sets[s] |->
       [f |-> sets[s][i], len |-> DescBytes]]])

(* The features of a stored frame that are read at all.                        *)
Read(frame) == {k \in DOMAIN frame : k <= MaxFeatures}

\* Mutant: orientations are not checked.
UsableAnyOrient(data) ==
  /\ data.format = "(yaa(qqyay))"
  /\ data.version = TemplateVersion
  /\ Len(data.frames) \in 1..MaxStored
  /\ \A s \in DOMAIN data.frames : \A k \in Read(data.frames[s]) :
       data.frames[s][k].len = DescBytes

Usable(data) ==
  /\ data.format = "(yaa(qqyay))"
  /\ data.version = TemplateVersion
  /\ Len(data.frames) \in 1..MaxStored
  /\ \A s \in DOMAIN data.frames : \A k \in Read(data.frames[s]) :
       /\ data.frames[s][k].len = DescBytes
       /\ data.frames[s][k].f.orient < NOrient

(* Features past the length of the set are dropped.                            *)
Unpacked(data) ==
  [s \in DOMAIN data.frames |-> [k \in Read(data.frames[s]) |-> data.frames[s][k].f]]

----------------------------------------------------------------------------
(* The driver's handlers.                                                     *)

(* dev_enroll; the loop of the action starts with reset_action_state.  Bound: a  *)
(* single print is enrolled.                                                  *)
DevEnroll ==
  /\ action = "none"
  /\ print = {}
  /\ action' = "enroll"
  /\ enroll_feats' = <<>> /\ enroll_sim_rejects' = 0 /\ verify_probes' = <<>>
  /\ verdict' = "none"
  /\ UNCHANGED <<print, verify_gallery, own, pooled, judged>>

SameSpot(press) ==
  /\ SimThreshold > 0 /\ enroll_feats # <<>>
  /\ enroll_sim_rejects < SimMaxRejects
  /\ \E i \in DOMAIN enroll_feats : Score(press, enroll_feats[i]) >= SimThreshold

(* on_frame_accepted_enroll: a frame of the same spot is not pooled.           *)
RejectFrame(press) ==
  /\ action = "enroll"
  /\ SameSpot(press)
  /\ enroll_sim_rejects' = enroll_sim_rejects + 1
  /\ UNCHANGED <<action, enroll_feats, print, verify_gallery, verify_probes, verdict,
                 own, pooled, judged>>

PoolFrame(press) ==
  /\ action = "enroll"
  /\ ~SameSpot(press)
  /\ enroll_sim_rejects' = 0
  /\ enroll_feats' = Append(enroll_feats, press)
  /\ IF Len(enroll_feats') < EnrollFrames
     THEN UNCHANGED <<action, print, pooled>>
     ELSE /\ print' = {Pack(enroll_feats')}
          /\ action' = "none"
          /\ pooled' = enroll_feats'
  /\ UNCHANGED <<verify_gallery, verify_probes, verdict, own, judged>>

(* dev_verify: a print that cannot be used or can never match fails at once.   *)
DevVerify(data) ==
  /\ action = "none"
  /\ own' = (data \in print)
  /\ verify_probes' = <<>>
  /\ judged' = <<>>
  /\ verify_gallery' = IF Usable(data) THEN Unpacked(data) ELSE <<>>
  /\ IF Len(verify_gallery') < AgreeFrames
     THEN verdict' = "invalid" /\ UNCHANGED <<action, enroll_sim_rejects>>
     ELSE action' = "verify" /\ verdict' = "none" /\ enroll_sim_rejects' = 0
  /\ UNCHANGED <<enroll_feats, print, pooled>>

(* finalize_verify                                                            *)
Finalize(probes) ==
  /\ verdict' = IF \E p \in DOMAIN probes : Matches(probes[p], verify_gallery)
                THEN "match" ELSE "no match"
  /\ verify_probes' = <<>>
  /\ judged' = probes
  /\ action' = "none"

(* A probe that matches, or the last one, ends the verify.                     *)
Probe(press) ==
  /\ action = "verify"
  /\ LET probes == Append(verify_probes, press) IN
     IF Matches(press, verify_gallery) \/ Len(probes) >= ProbeFrames
     THEN Finalize(probes)
     ELSE verify_probes' = probes /\ UNCHANGED <<action, verdict, judged>>
  /\ UNCHANGED <<enroll_feats, enroll_sim_rejects, print, verify_gallery, own, pooled>>

(* A lift or the turn's timeout: match what there is.                          *)
ProbesEnd ==
  /\ action = "verify"
  /\ verify_probes # <<>>
  /\ Finalize(verify_probes)
  /\ UNCHANGED <<enroll_feats, enroll_sim_rejects, print, verify_gallery, own, pooled>>

(* A cancelled action leaves its frames and its probes behind.                 *)
Cancelled ==
  /\ action # "none"
  /\ action' = "none"
  /\ UNCHANGED <<enroll_feats, enroll_sim_rejects, print, verify_gallery, verify_probes,
                 verdict, own, pooled, judged>>

Next ==
  \/ DevEnroll \/ ProbesEnd \/ Cancelled
  \/ \E press \in Presses : RejectFrame(press) \/ PoolFrame(press) \/ Probe(press)
  \/ \E data \in print \cup Foreign : DevVerify(data)

Spec == Init /\ [][Next]_vars

----------------------------------------------------------------------------
(* Properties.                                                               *)

(* Whatever was stored, the matcher never reads past a feature set, and the     *)
(* turn between two of its features is an index of egis0575_m_score's ang_cnt.  *)
GalleryInBounds ==
  \A s \in DOMAIN verify_gallery :
    /\ Len(verify_gallery[s]) <= MaxFeatures
    /\ \A press \in Presses : \A i \in DOMAIN press : \A k \in DOMAIN verify_gallery[s] :
         press[i].orient - verify_gallery[s][k].orient + NOrient - 1 \in 0..2*NOrient-2

(* A print enrolled by this driver is never refused, and is matched against     *)
(* the very frames that were pooled: dev_verify's "enroll always pools          *)
(* EGIS0575_ENROLL_FRAMES frames".                                            *)
EnrolledIsUsable ==
  own => verdict # "invalid" /\ (action = "verify" => verify_gallery = pooled)

(* The press shows a part of the frame, moved and turned as a whole.            *)
Shows(press, frame) ==
  \E m \in DOMAIN frame : \A i \in DOMAIN press : \E j \in DOMAIN frame :
    /\ press[i].desc = frame[j].desc
    /\ Offset(press[i], frame[j]) = Offset(press[1], frame[m])
    /\ press[i].orient - frame[j].orient = press[1].orient - frame[m].orient

Distinct(frame) ==
  \A i, j \in DOMAIN frame : i # j => Distance(frame[i], frame[j]) > 0

(* A finger that shows a part of enough frames is recognised, wherever on the   *)
(* sensor and however turned it lies.                                         *)
GenuineMatches ==
  verdict = "no match" =>
    \A p \in DOMAIN judged :
      Len(judged[p]) >= MinMatched =>
        Cardinality({g \in DOMAIN verify_gallery :
          Distinct(verify_gallery[g]) /\ Shows(judged[p], verify_gallery[g])}) < AgreeFrames

(* Enough features of the press have a counterpart in the frame, all moved      *)
(* within one window and turned alike.                                        *)
Resembles(press, frame) ==
  \E m \in DOMAIN press, n \in DOMAIN frame :
    Cardinality({i \in DOMAIN press : \E j \in DOMAIN frame :
      /\ Distance(press[i], frame[j]) <= HammingBudget
      /\ press[i].orient - frame[j].orient = press[m].orient - frame[n].orient
      /\ \A d \in 1..2 : AbsDiff(Offset(press[i], frame[j])[d],
                                Offset(press[m], frame[n])[d]) <= 16}) >= MinMatched

(* No match on the word of one frame, nor on features that lie or turn apart.   *)
MatchIsEarned ==
  verdict = "match" =>
    \E p \in DOMAIN judged :
      Cardinality({g \in DOMAIN verify_gallery :
        Resembles(judged[p], verify_gallery[g])}) >= AgreeFrames
=============================================================================
