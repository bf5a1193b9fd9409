-------------------------- MODULE FpContext_proofs --------------------------
(* Theorems of the context, for any devices.  That a device is announced once   *)
(* and closed needs to know where its removal waits: for a task, for the close, *)
(* for its source or in a handler, never in two places at once.  That the list  *)
(* loses the device that was announced needs handlers that do not iterate the  *)
(* main context: Nesting = 0.                                                 *)
EXTENDS FpContext, FiniteSetTheorems, SequenceTheorems, TLAPS

Distinct(s) == \A i, j \in DOMAIN s : s[i] = s[j] => i = j

Announced == {e.device : e \in Members(emitting)}
Probing == {d \in Device : init[d] = "probing"}

(* The counter of enumerate counts the probes.                                 *)
PendingInv ==
  /\ TypeOK
  /\ alive => pending_devices = Cardinality(Probing)

(* Where the removal of a device waits; the source is made once.               *)
PlaceInv ==
  /\ \A d \in is_removed : port[d] = "gone" /\ (task[d] # "none" => d \in is_open \cup owed)
  /\ Members(sources) \cup Announced \cup owed \cup on_notify_open \subseteq is_removed
  /\ Distinct(sources)
  /\ Members(sources) \cap Announced = {}
  /\ (Members(sources) \cup Announced) \cap (is_open \cup owed) = {}
  /\ owed \cap on_notify_open = {}
  /\ ~alive => sources = <<>> /\ devices = <<>> /\ emitting = <<>> /\ on_notify_open = {}

(* The list holds every device once, and holds those whose removal waits.       *)
ListInv ==
  /\ Distinct(devices)
  /\ \A d \in Members(devices) : init[d] = "listed"
  /\ alive => owed \cup (on_notify_open \cap is_open) \subseteq Members(devices)
  /\ Members(sources) \subseteq Members(devices)
  /\ Len(emitting) <= 1
  /\ \A k \in DOMAIN emitting : /\ emitting[k].idx \in DOMAIN devices
                                /\ devices[emitting[k].idx] = emitting[k].device

----------------------------------------------------------------------------
(* Lists.                                                                     *)

LEMMA MembersCons ==
  ASSUME NEW S, NEW s \in Seq(S), NEW e \in S
  PROVE  /\ <<e>> \o s \in Seq(S)
         /\ Members(<<e>> \o s) = {e} \cup Members(s)
         /\ Distinct(s) /\ e \notin Members(s) => Distinct(<<e>> \o s)
PROOF
<1> DEFINE t == <<e>> \o s
<1>1. /\ t \in Seq(S) /\ Len(s) \in Nat /\ Len(t) = Len(s) + 1 /\ t[1] = e
      /\ DOMAIN s = 1..Len(s) /\ DOMAIN t = 1..Len(t)
  OBVIOUS
<1>2. \A i \in 2..Len(t) : t[i] = s[i - 1] /\ i - 1 \in DOMAIN s
  BY <1>1
<1>3. \A i \in DOMAIN s : s[i] = t[i + 1] /\ i + 1 \in DOMAIN t
  BY <1>1
<1> HIDE DEF t
<1>4. Members(t) = {e} \cup Members(s)
  <2>1. ASSUME NEW i \in DOMAIN t PROVE t[i] \in {e} \cup Members(s)
    BY <1>1, <1>2 DEF Members
  <2>2. e \in Members(t)
    BY <1>1 DEF Members
  <2>3. Members(s) \subseteq Members(t)
    BY <1>3 DEF Members
  <2> QED BY <2>1, <2>2, <2>3 DEF Members
<1>5. ASSUME Distinct(s), e \notin Members(s) PROVE Distinct(t)
  <2> SUFFICES ASSUME NEW i \in DOMAIN t, NEW j \in DOMAIN t, t[i] = t[j] PROVE i = j
    BY DEF Distinct
  <2>1. ASSUME NEW k \in 2..Len(t) PROVE t[k] \in Members(s)
    BY <1>2, <2>1 DEF Members
  <2>2. CASE i = 1 \/ j = 1
    BY <1>1, <1>5, <2>1, <2>2
  <2>3. CASE i # 1 /\ j # 1
    <3>1. i - 1 = j - 1
      BY <1>1, <1>2, <1>5, <2>3 DEF Distinct
    <3> QED BY <1>1, <3>1
  <2> QED BY <2>2, <2>3
<1> QED BY <1>1, <1>4, <1>5 DEF t

LEMMA MembersAppend ==
  ASSUME NEW S, NEW s \in Seq(S), NEW e \in S
  PROVE  /\ Append(s, e) \in Seq(S)
         /\ Members(Append(s, e)) = Members(s) \cup {e}
         /\ Distinct(s) /\ e \notin Members(s) => Distinct(Append(s, e))
         /\ \A i \in DOMAIN s : i \in DOMAIN Append(s, e) /\ Append(s, e)[i] = s[i]
PROOF
<1> DEFINE t == Append(s, e)
<1>1. /\ t \in Seq(S) /\ Len(s) \in Nat /\ Len(t) = Len(s) + 1 /\ t[Len(t)] = e
      /\ DOMAIN s = 1..Len(s) /\ DOMAIN t = 1..Len(t)
  OBVIOUS
<1>2. \A i \in DOMAIN s : t[i] = s[i] /\ i \in DOMAIN t
  BY <1>1
<1> HIDE DEF t
<1>3. \A i \in DOMAIN t : i \in DOMAIN s \/ i = Len(t)
  BY <1>1
<1>4. Members(t) = Members(s) \cup {e}
  <2>1. ASSUME NEW i \in DOMAIN t PROVE t[i] \in Members(s) \cup {e}
    BY <1>1, <1>2, <1>3 DEF Members
  <2>2. e \in Members(t)
    BY <1>1 DEF Members
  <2>3. Members(s) \subseteq Members(t)
    BY <1>2 DEF Members
  <2> QED BY <2>1, <2>2, <2>3 DEF Members
<1>5. ASSUME Distinct(s), e \notin Members(s) PROVE Distinct(t)
  <2>1. \A i \in DOMAIN s : s[i] \in Members(s)
    BY DEF Members
  <2> QED BY <1>1, <1>2, <1>3, <1>5, <2>1 DEF Distinct
<1> QED BY <1>1, <1>2, <1>4, <1>5 DEF t

(* A source is taken from wherever it stands.                                  *)
LEMMA MembersRemoveAt ==
  ASSUME NEW S, NEW s \in Seq(S), NEW i \in DOMAIN s, Distinct(s)
  PROVE  /\ SubSeq(s, 1, i - 1) \o SubSeq(s, i + 1, Len(s)) \in Seq(S)
         /\ Members(SubSeq(s, 1, i - 1) \o SubSeq(s, i + 1, Len(s))) = Members(s) \ {s[i]}
         /\ Distinct(SubSeq(s, 1, i - 1) \o SubSeq(s, i + 1, Len(s)))
PROOF
<1> DEFINE a == SubSeq(s, 1, i - 1)
           b == SubSeq(s, i + 1, Len(s))
           t == a \o b
<1>1. Len(s) \in Nat /\ DOMAIN s = 1..Len(s) /\ i \in 1..Len(s)
  OBVIOUS
<1>2. a \in Seq(S) /\ Len(a) = i - 1 /\ \A k \in 1..(i - 1) : a[k] = s[k]
  BY <1>1
<1>3. b \in Seq(S) /\ Len(b) = Len(s) - i /\ \A k \in 1..(Len(s) - i) : b[k] = s[k + i]
  BY <1>1
<1> HIDE DEF a, b
<1>4. /\ t \in Seq(S) /\ Len(t) = Len(s) - 1 /\ DOMAIN t = 1..(Len(s) - 1)
      /\ \A k \in 1..(i - 1) : t[k] = s[k]
      /\ \A k \in i..(Len(s) - 1) : t[k] = s[k + 1]
  <2>1. t \in Seq(S) /\ Len(t) = Len(s) - 1 /\ DOMAIN t = 1..Len(t)
    <3>1. t \in Seq(S) /\ Len(t) = Len(a) + Len(b)
      BY <1>2, <1>3, ConcatProperties
    <3>3. DOMAIN t = 1..Len(t)
      BY <3>1
    <3>2. Len(a) + Len(b) = Len(s) - 1
      BY <1>1, <1>2, <1>3
    <3> QED BY <3>1, <3>2, <3>3
  <2>2. \A k \in 1..(i - 1) : t[k] = a[k]
    BY <1>1, <1>2, <1>3
  <2>3. ASSUME NEW k \in i..(Len(s) - 1) PROVE t[k] = s[k + 1]
    <3>1. t[k] = b[k - Len(a)]
      BY <1>1, <1>2, <1>3
    <3>2. k - Len(a) \in 1..(Len(s) - i) /\ (k - Len(a)) + i = k + 1
      BY <1>1, <1>2
    <3> QED BY <1>3, <3>1, <3>2
  <2> QED BY <1>2, <2>1, <2>2, <2>3
<1> HIDE DEF t
<1>5. \A k \in DOMAIN t : \E j \in DOMAIN s : j # i /\ t[k] = s[j] /\ j = IF k < i THEN k ELSE k + 1
  <2> SUFFICES ASSUME NEW k \in DOMAIN t
               PROVE  \E j \in DOMAIN s : j # i /\ t[k] = s[j] /\ j = IF k < i THEN k ELSE k + 1
    OBVIOUS
  <2>1. CASE k < i
    <3>1. k \in 1..(i - 1) /\ k \in DOMAIN s /\ k # i
      BY <1>1, <1>4, <2>1
    <3> QED BY <1>4, <2>1, <3>1
  <2>2. CASE ~(k < i)
    <3>1. k \in i..(Len(s) - 1) /\ k + 1 \in DOMAIN s /\ k + 1 # i
      BY <1>1, <1>4, <2>2
    <3> QED BY <1>4, <2>2, <3>1
  <2> QED BY <2>1, <2>2
<1>6. \A j \in DOMAIN s : j # i => \E k \in DOMAIN t : t[k] = s[j]
  <2> SUFFICES ASSUME NEW j \in DOMAIN s, j # i PROVE \E k \in DOMAIN t : t[k] = s[j]
    OBVIOUS
  <2>1. CASE j < i
    <3>1. j \in 1..(i - 1) /\ j \in DOMAIN t
      BY <1>1, <1>4, <2>1
    <3> QED BY <1>4, <3>1
  <2>2. CASE j > i
    <3>1. j - 1 \in i..(Len(s) - 1) /\ j - 1 \in DOMAIN t /\ (j - 1) + 1 = j
      BY <1>1, <1>4, <2>2
    <3> QED BY <1>4, <3>1
  <2> QED BY <1>1, <2>1, <2>2
<1>7. Members(t) = Members(s) \ {s[i]}
  <2>1. ASSUME NEW k \in DOMAIN t PROVE t[k] \in Members(s) \ {s[i]}
    BY <1>5 DEF Members, Distinct
  <2>2. ASSUME NEW j \in DOMAIN s, s[j] # s[i] PROVE s[j] \in Members(t)
    BY <1>6, <2>2 DEF Members
  <2> QED BY <2>1, <2>2 DEF Members
<1>8. Distinct(t)
  <2> SUFFICES ASSUME NEW k \in DOMAIN t, NEW l \in DOMAIN t, t[k] = t[l] PROVE k = l
    BY DEF Distinct
  <2>1. (IF k < i THEN k ELSE k + 1) = (IF l < i THEN l ELSE l + 1)
    BY <1>5 DEF Distinct
  <2> QED BY <1>1, <1>4, <2>1
<1> QED BY <1>4, <1>7, <1>8 DEF t, a, b

(* g_ptr_array_remove_index_fast moves the last element, and loses none but the *)
(* one at the index.                                                          *)
LEMMA MembersRemoveFast ==
  ASSUME NEW S, NEW s \in Seq(S), NEW i
  PROVE  /\ RemoveIndexFast(s, i) \in Seq(S)
         /\ Members(RemoveIndexFast(s, i)) \subseteq Members(s)
         /\ Distinct(s) => Distinct(RemoveIndexFast(s, i))
         /\ Distinct(s) /\ i \in DOMAIN s =>
              Members(RemoveIndexFast(s, i)) = Members(s) \ {s[i]}
PROOF
<1>1. CASE i \notin DOMAIN s
  BY <1>1 DEF RemoveIndexFast
<1>2. CASE i \in DOMAIN s
  <2> DEFINE r == [s EXCEPT ![i] = s[Len(s)]]
             t == SubSeq(r, 1, Len(s) - 1)
  <2>1. Len(s) \in Nat /\ DOMAIN s = 1..Len(s) /\ i \in 1..Len(s) /\ Len(s) # 0
    BY <1>2
  <2>2. r \in Seq(S) /\ Len(r) = Len(s)
    BY <2>1
  <2>3. \A k \in DOMAIN s : r[k] = IF k = i THEN s[Len(s)] ELSE s[k]
    OBVIOUS
  <2> HIDE DEF r
  <2>4. t \in Seq(S) /\ DOMAIN t = 1..(Len(s) - 1) /\ \A k \in DOMAIN t : t[k] = r[k]
    BY <2>1, <2>2
  <2>5. t = RemoveIndexFast(s, i)
    BY <1>2 DEF RemoveIndexFast, r
  <2> HIDE DEF t
  <2>6. \A k \in DOMAIN t : k \in DOMAIN s /\ k # Len(s) /\ t[k] = IF k = i THEN s[Len(s)] ELSE s[k]
    BY <2>1, <2>3, <2>4
  <2>7. Len(s) \in DOMAIN s
    BY <2>1
  <2>8. Members(t) \subseteq Members(s)
    BY <2>6, <2>7 DEF Members
  <2>9. ASSUME Distinct(s) PROVE Distinct(t)
    <3> SUFFICES ASSUME NEW k \in DOMAIN t, NEW l \in DOMAIN t, t[k] = t[l] PROVE k = l
      BY DEF Distinct
    <3> QED BY <2>6, <2>7, <2>9 DEF Distinct
  <2>10. ASSUME Distinct(s) PROVE Members(t) = Members(s) \ {s[i]}
    <3>1. ASSUME NEW k \in DOMAIN t PROVE t[k] # s[i]
      BY <1>2, <2>6, <2>7, <2>10 DEF Distinct
    <3>2. ASSUME NEW j \in DOMAIN s, s[j] # s[i] PROVE s[j] \in Members(t)
      <4>1. CASE j = Len(s)
        <5>1. i \in DOMAIN t /\ t[i] = s[j]
          BY <2>1, <2>4, <2>6, <3>2, <4>1
        <5> QED BY <5>1 DEF Members
      <4>2. CASE j # Len(s)
        <5>1. j \in DOMAIN t /\ t[j] = s[j]
          BY <2>1, <2>4, <2>6, <3>2, <4>2
        <5> QED BY <5>1 DEF Members
      <4> QED BY <4>1, <4>2
    <3> QED BY <2>8, <3>1, <3>2 DEF Members
  <2> QED BY <2>4, <2>5, <2>8, <2>9, <2>10
<1> QED BY <1>1, <1>2

(* The handlers that have not returned yet, but for the innermost one.          *)
LEMMA MembersFront ==
  ASSUME NEW S, NEW s \in Seq(S), s # <<>>
  PROVE  /\ SubSeq(s, 1, Len(s) - 1) \in Seq(S)
         /\ Members(SubSeq(s, 1, Len(s) - 1)) \subseteq Members(s)
         /\ Len(SubSeq(s, 1, Len(s) - 1)) = Len(s) - 1 /\ Len(s) \in Nat /\ Len(s) \in DOMAIN s
PROOF
<1> DEFINE t == SubSeq(s, 1, Len(s) - 1)
<1>1. Len(s) \in Nat /\ DOMAIN s = 1..Len(s) /\ Len(s) # 0
  OBVIOUS
<1>2. t \in Seq(S) /\ Len(t) = Len(s) - 1 /\ DOMAIN t = 1..(Len(s) - 1) /\ \A k \in DOMAIN t : t[k] = s[k]
  BY <1>1
<1> HIDE DEF t
<1>3. \A k \in DOMAIN t : k \in DOMAIN s
  BY <1>1, <1>2
<1>4. Members(t) \subseteq Members(s)
  BY <1>2, <1>3 DEF Members
<1> QED BY <1>1, <1>2, <1>4 DEF t

LEMMA IndexFinds ==
  ASSUME NEW d \in Members(devices)
  PROVE  IndexOf(d) \in DOMAIN devices /\ devices[IndexOf(d)] = d
PROOF
<1>1. \E i \in DOMAIN devices : devices[i] = d
  BY DEF Members
<1> QED BY <1>1 DEF IndexOf

LEMMA MembersNone == Members(<<>>) = {} /\ Distinct(<<>>)
PROOF BY DEF Members, Distinct

----------------------------------------------------------------------------
(* Types, and the count of the probes.                                         *)

LEMMA InitPending == Init => PendingInv
PROOF
<1> SUFFICES ASSUME Init PROVE PendingInv
  OBVIOUS
<1>1. Probing = {}
  BY DEF Init, Probing
<1>2. Cardinality({}) = 0 /\ Cardinality(Device) \in Nat
  BY ContextAssumption, FS_EmptySet, FS_CardinalityType
<1>3. devices \in Seq(Device) /\ sources \in Seq(Device) /\ emitting \in Seq([device : Device, idx : Nat])
  BY DEF Init
<1>4. TypeOK
  BY <1>2, <1>3 DEF Init, TypeOK
<1> QED BY <1>1, <1>2, <1>4 DEF Init, PendingInv

(* A removed device has its source, or its handler.                            *)
LEMMA DeviceRemovedTypes ==
  ASSUME TypeOK, NEW d \in Device, NEW open, DeviceRemoved(d, open)
  PROVE  sources' \in Seq(Device) /\ on_notify_open' \subseteq Device
PROOF
<1>1. sources \in Seq(Device) /\ on_notify_open \subseteq Device
  BY DEF TypeOK
<1>2. <<d>> \o sources \in Seq(Device)
  BY <1>1, MembersCons
<1> QED BY <1>1, <1>2 DEF DeviceRemoved

LEMMA TaskEndsTypes ==
  ASSUME TypeOK, NEW d \in Device, TaskEnds(d)
  PROVE  TypeOK'
PROOF
<1>1. is_open' \subseteq Device
  BY DEF TypeOK, TaskEnds
<1>2. task' \in [Device -> {"none", "open", "close", "other"}]
  BY DEF TypeOK, TaskEnds
<1>3. sources' \in Seq(Device) /\ on_notify_open' \subseteq Device
  <2>1. CASE d \in owed /\ alive
    BY <2>1, DeviceRemovedTypes DEF TaskEnds
  <2>2. CASE ~(d \in owed /\ alive)
    <3>1. sources \in Seq(Device) /\ on_notify_open \subseteq Device
      BY DEF TypeOK
    <3>2. <<d>> \o sources \in Seq(Device)
      BY <3>1, MembersCons
    <3> QED BY <2>2, <3>1, <3>2 DEF TaskEnds
  <2> QED BY <2>1, <2>2
<1>4. owed' \subseteq Device
  BY DEF TypeOK, TaskEnds
<1> QED BY <1>1, <1>2, <1>3, <1>4 DEF TypeOK, TaskEnds

LEMMA UsbDeviceRemovedTypes ==
  ASSUME TypeOK, NEW d \in Device, UsbDeviceRemoved(d)
  PROVE  TypeOK'
PROOF
<1>1. port' \in [Device -> {"empty", "plugged", "unplugged", "gone"}]
  BY DEF TypeOK, UsbDeviceRemoved
<1>2. CASE d \notin Members(devices)
  BY <1>1, <1>2 DEF TypeOK, UsbDeviceRemoved, contextVars
<1>3. CASE d \in Members(devices)
  <2>1. sources' \in Seq(Device) /\ on_notify_open' \subseteq Device
    <3>1. CASE task[d] # "none"
      BY <1>3, <3>1 DEF TypeOK, UsbDeviceRemoved
    <3>2. CASE task[d] = "none"
      BY <1>3, <3>2, DeviceRemovedTypes DEF UsbDeviceRemoved
    <3> QED BY <3>1, <3>2
  <2>2. owed' \subseteq Device /\ is_removed' \subseteq Device
    BY <1>3 DEF TypeOK, UsbDeviceRemoved
  <2> QED BY <1>1, <1>3, <2>1, <2>2 DEF TypeOK, UsbDeviceRemoved
<1> QED BY <1>2, <1>3

LEMMA RemoveDeviceTypes ==
  ASSUME TypeOK, RemoveDevice
  PROVE  TypeOK'
PROOF
<1>1. PICK i \in DOMAIN sources :
        /\ sources' = SubSeq(sources, 1, i - 1) \o SubSeq(sources, i + 1, Len(sources))
        /\ emitting' = IF sources[i] \in Members(devices)
                       THEN Append(emitting, [device |-> sources[i], idx |-> IndexOf(sources[i])])
                       ELSE emitting
  BY DEF RemoveDevice
<1>2. sources \in Seq(Device) /\ devices \in Seq(Device) /\ emitting \in Seq([device : Device, idx : Nat])
  BY DEF TypeOK
<1>3. i \in 1..Len(sources) /\ Len(sources) \in Nat /\ sources[i] \in Device
  BY <1>2
<1>4. sources' \in Seq(Device)
  <2>1. SubSeq(sources, 1, i - 1) \in Seq(Device) /\ SubSeq(sources, i + 1, Len(sources)) \in Seq(Device)
    BY <1>2, <1>3
  <2> QED BY <1>1, <2>1, ConcatProperties
<1>5. emitting' \in Seq([device : Device, idx : Nat])
  <2>1. CASE sources[i] \in Members(devices)
    <3>1. IndexOf(sources[i]) \in Nat
      BY <1>2, <2>1, IndexFinds
    <3>2. [device |-> sources[i], idx |-> IndexOf(sources[i])] \in [device : Device, idx : Nat]
      BY <1>3, <3>1
    <3> QED BY <1>1, <1>2, <2>1, <3>2, AppendProperties
  <2>2. CASE sources[i] \notin Members(devices)
    BY <1>1, <1>2, <2>2
  <2> QED BY <2>1, <2>2
<1> QED BY <1>4, <1>5 DEF TypeOK, RemoveDevice, deviceVars

LEMMA RemoveDeviceEndsTypes ==
  ASSUME TypeOK, RemoveDeviceEnds
  PROVE  TypeOK'
PROOF
<1>1. emitting \in Seq([device : Device, idx : Nat]) /\ emitting # <<>> /\ devices \in Seq(Device)
  BY DEF TypeOK, RemoveDeviceEnds
<1>2. SubSeq(emitting, 1, Len(emitting) - 1) \in Seq([device : Device, idx : Nat])
  BY <1>1, MembersFront
<1>3. RemoveIndexFast(devices, emitting[Len(emitting)].idx) \in Seq(Device)
  BY <1>1, MembersRemoveFast
<1> QED BY <1>2, <1>3 DEF TypeOK, RemoveDeviceEnds, deviceVars

(* A probe that begins or ends is counted.                                     *)
LEMMA ProbesAreFinite ==
  TypeOK => /\ IsFiniteSet(Probing) /\ Cardinality(Probing) \in 0..Cardinality(Device)
            /\ Cardinality(Device) \in Nat
PROOF
<1>1. Probing \subseteq Device
  BY DEF Probing
<1>2. IsFiniteSet(Probing) /\ Cardinality(Probing) <= Cardinality(Device)
  BY <1>1, ContextAssumption, FS_Subset
<1> QED BY <1>2, ContextAssumption, FS_CardinalityType

LEMMA AddedIsCounted ==
  ASSUME PendingInv, NEW d \in Device, UsbDeviceAdded(d)
  PROVE  /\ pending_devices' \in 0..Cardinality(Device)
         /\ pending_devices' = Cardinality(Probing')
PROOF
<1>1. /\ init \in [Device -> {"none", "probing", "listed", "failed", "ignored"}]
      /\ pending_devices \in 0..Cardinality(Device) /\ pending_devices = Cardinality(Probing)
  BY DEF PendingInv, TypeOK, UsbDeviceAdded
<1>2. CASE init' = [init EXCEPT ![d] = "ignored"] /\ UNCHANGED pending_devices
  <2>1. Probing' = Probing
    BY <1>1, <1>2 DEF UsbDeviceAdded, Probing
  <2> QED BY <1>1, <1>2, <2>1
<1>3. CASE init' = [init EXCEPT ![d] = "probing"] /\ pending_devices' = pending_devices + 1
  <2>1. Probing' = Probing \cup {d} /\ d \notin Probing
    BY <1>1, <1>3 DEF UsbDeviceAdded, Probing
  <2>2. Probing' \subseteq Device
    BY DEF Probing
  <2>3. Cardinality(Probing') <= Cardinality(Device) /\ IsFiniteSet(Probing) /\ Cardinality(Device) \in Nat
    BY <2>2, ProbesAreFinite, ContextAssumption, FS_Subset DEF PendingInv
  <2>4. Cardinality(Probing') = Cardinality(Probing) + 1
    BY <2>1, <2>3, FS_AddElement
  <2> QED BY <1>1, <1>3, <2>3, <2>4
<1> QED BY <1>2, <1>3 DEF UsbDeviceAdded

LEMMA DoneIsCounted ==
  ASSUME PendingInv, NEW d \in Device, AsyncDeviceInitDone(d)
  PROVE  /\ pending_devices' \in 0..Cardinality(Device)
         /\ alive => pending_devices' = Cardinality(Probing')
PROOF
<1>1. /\ init \in [Device -> {"none", "probing", "listed", "failed", "ignored"}]
      /\ pending_devices \in 0..Cardinality(Device)
      /\ alive => pending_devices = Cardinality(Probing)
  BY DEF PendingInv, TypeOK
<1>2. d \in Probing /\ Probing' = Probing \ {d}
  BY <1>1 DEF AsyncDeviceInitDone, Probing
<1>3. IsFiniteSet(Probing) /\ Cardinality(Probing) \in 0..Cardinality(Device) /\ Cardinality(Device) \in Nat
  BY ProbesAreFinite DEF PendingInv
<1>4. Cardinality(Probing') = Cardinality(Probing) - 1
  BY <1>2, <1>3, FS_RemoveElement
<1>5. IsFiniteSet(Probing')
  BY <1>2, <1>3, FS_RemoveElement
<1>6. Cardinality(Probing') \in Nat
  BY <1>5, FS_CardinalityType
<1>7. CASE alive
  BY <1>1, <1>3, <1>4, <1>6, <1>7 DEF AsyncDeviceInitDone
<1>8. CASE ~alive
  BY <1>1, <1>8 DEF AsyncDeviceInitDone
<1> QED BY <1>7, <1>8

LEMMA PendingKept ==
  ASSUME PendingInv, [Next]_vars
  PROVE  PendingInv'
PROOF
<1>1. TypeOK
  BY DEF PendingInv
<1>2. ASSUME UNCHANGED <<init, pending_devices>>, alive' => alive, TypeOK' PROVE PendingInv'
  BY <1>2 DEF PendingInv, Probing
<1>3. ASSUME NEW d \in Device, Plug(d) \/ Unplug(d) PROVE PendingInv'
  <2>1. port' \in [Device -> {"empty", "plugged", "unplugged", "gone"}]
    BY <1>1, <1>3 DEF Plug, Unplug, TypeOK
  <2>2. TypeOK'
    BY <1>1, <1>3, <2>1 DEF Plug, Unplug, TypeOK, contextVars, deviceVars
  <2> QED BY <1>2, <1>3, <2>2 DEF Plug, Unplug, contextVars
<1>4. ASSUME NEW d \in Device, UsbDeviceAdded(d) PROVE PendingInv'
  <2>1. init' \in [Device -> {"none", "probing", "listed", "failed", "ignored"}]
    BY <1>1, <1>4 DEF UsbDeviceAdded, TypeOK
  <2>2. TypeOK'
    BY <1>1, <1>4, <2>1, AddedIsCounted DEF UsbDeviceAdded, TypeOK, deviceVars
  <2> QED BY <1>4, <2>2, AddedIsCounted DEF PendingInv
<1>5. ASSUME NEW d \in Device, UsbDeviceRemoved(d) PROVE PendingInv'
  <2>1. TypeOK'
    BY <1>1, <1>5, UsbDeviceRemovedTypes
  <2> QED BY <1>2, <1>5, <2>1 DEF UsbDeviceRemoved, contextVars
<1>6. ASSUME NEW d \in Device, AsyncDeviceInitDone(d) PROVE PendingInv'
  <2>1. init' \in [Device -> {"none", "probing", "listed", "failed", "ignored"}]
    BY <1>1, <1>6 DEF AsyncDeviceInitDone, TypeOK
  <2>2. devices' \in Seq(Device)
    <3>1. devices \in Seq(Device)
      BY <1>1 DEF TypeOK
    <3>2. Append(devices, d) \in Seq(Device)
      BY <3>1, AppendProperties
    <3> QED BY <1>6, <3>1, <3>2 DEF AsyncDeviceInitDone
  <2>3. TypeOK'
    BY <1>1, <1>6, <2>1, <2>2, DoneIsCounted DEF AsyncDeviceInitDone, TypeOK, deviceVars
  <2> QED BY <1>6, <2>3, DoneIsCounted DEF PendingInv, AsyncDeviceInitDone
<1>7. ASSUME NEW d \in Device, TaskEnds(d) PROVE PendingInv'
  <2>1. TypeOK'
    BY <1>1, <1>7, TaskEndsTypes
  <2> QED BY <1>2, <1>7, <2>1 DEF TaskEnds
<1>8. ASSUME NEW d \in Device, NEW t \in {"open", "close", "other"}, Call(d, t) PROVE PendingInv'
  <2>1. task' \in [Device -> {"none", "open", "close", "other"}]
    BY <1>1, <1>8 DEF Call, TypeOK
  <2>2. TypeOK'
    BY <1>1, <1>8, <2>1 DEF Call, TypeOK, contextVars
  <2> QED BY <1>2, <1>8, <2>2 DEF Call, contextVars
<1>9. ASSUME Enumerate \/ EnumerateReturns PROVE PendingInv'
  <2>1. TypeOK'
    BY <1>1, <1>9 DEF Enumerate, EnumerateReturns, TypeOK, contextVars, deviceVars
  <2> QED BY <1>2, <1>9, <2>1 DEF Enumerate, EnumerateReturns, contextVars
<1>10. ASSUME RemoveDevice PROVE PendingInv'
  <2>1. TypeOK'
    BY <1>1, <1>10, RemoveDeviceTypes
  <2> QED BY <1>2, <1>10, <2>1 DEF RemoveDevice
<1>11. ASSUME RemoveDeviceEnds PROVE PendingInv'
  <2>1. TypeOK'
    BY <1>1, <1>11, RemoveDeviceEndsTypes
  <2> QED BY <1>2, <1>11, <2>1 DEF RemoveDeviceEnds
<1>12. ASSUME Finalize PROVE PendingInv'
  <2>1. devices' \in Seq(Device) /\ sources' \in Seq(Device)
    BY <1>12 DEF Finalize
  <2>2. TypeOK'
    BY <1>1, <1>12, <2>1 DEF Finalize, TypeOK, deviceVars
  <2> QED BY <1>2, <1>12, <2>2 DEF Finalize
<1>13. ASSUME UNCHANGED vars PROVE PendingInv'
  <2>1. TypeOK'
    BY <1>1, <1>13 DEF vars, TypeOK, contextVars, deviceVars
  <2> QED BY <1>2, <1>13, <2>1 DEF vars, contextVars
<1> QED BY <1>3, <1>4, <1>5, <1>6, <1>7, <1>8, <1>9, <1>10, <1>11, <1>12, <1>13 DEF Next


----------------------------------------------------------------------------
(* Where removals wait.                                                       *)

LEMMA InitPlace == Init => PlaceInv
PROOF
<1> SUFFICES ASSUME Init PROVE PlaceInv
  OBVIOUS
<1>1. Members(sources) = {} /\ Distinct(sources) /\ Announced = {}
  BY MembersNone DEF Init, Announced
<1> QED BY <1>1 DEF Init, PlaceInv

(* A device whose task runs has neither a source nor a handler that runs.       *)
LEMMA BusyIsNotAnnounced ==
  ASSUME PlaceInv, NEW d \in Device, task[d] # "none"
  PROVE  /\ d \notin Members(sources) \cup Announced
         /\ d \in is_removed => d \in is_open \cup owed
PROOF BY DEF PlaceInv

(* The source of a removal is made once.                                      *)
LEMMA SourceKeepsPlace ==
  ASSUME TypeOK, PlaceInv, NEW d \in Device, d \notin Members(sources) \cup Announced,
         sources' = <<d>> \o sources
  PROVE  /\ Members(sources') = {d} \cup Members(sources)
         /\ Distinct(sources')
         /\ UNCHANGED emitting => Announced' = Announced /\ Members(sources') \cap Announced' = {}
PROOF
<1>1. sources \in Seq(Device) /\ Distinct(sources) /\ Members(sources) \cap Announced = {}
  BY DEF TypeOK, PlaceInv
<1>2. Members(sources') = {d} \cup Members(sources) /\ Distinct(sources')
  BY <1>1, MembersCons
<1> QED BY <1>1, <1>2 DEF Announced

LEMMA UnplugKeepsPlace ==
  ASSUME TypeOK, PlaceInv, NEW d \in Device, Plug(d) \/ Unplug(d)
  PROVE  PlaceInv'
PROOF
<1>1. UNCHANGED <<contextVars, deviceVars, alive>> /\ port[d] # "gone"
  BY DEF Plug, Unplug
<1>2. \A e \in is_removed : e # d /\ port'[e] = port[e]
  BY <1>1 DEF TypeOK, PlaceInv, Plug, Unplug
<1>3. /\ UNCHANGED <<sources, devices, emitting, on_notify_open, is_open, task, is_removed, owed>>
      /\ Announced' = Announced
  BY <1>1 DEF contextVars, deviceVars, Announced
<1> QED BY <1>1, <1>2, <1>3 DEF PlaceInv

LEMMA UsbDeviceRemovedKeepsPlace ==
  ASSUME TypeOK, PlaceInv, NEW d \in Device, UsbDeviceRemoved(d)
  PROVE  PlaceInv'
PROOF
<1>1. /\ alive /\ port[d] = "unplugged" /\ port' = [port EXCEPT ![d] = "gone"]
      /\ UNCHANGED <<init, enumerating, alive, is_open, task>>
  BY DEF UsbDeviceRemoved
<1>2. d \notin is_removed /\ d \notin Members(sources) \cup Announced \cup owed \cup on_notify_open
  BY <1>1 DEF PlaceInv
<1>3. port'[d] = "gone" /\ \A e \in is_removed : port'[e] = port[e]
  BY <1>1, <1>2 DEF TypeOK
<1>4. CASE d \notin Members(devices)
  <2>1. UNCHANGED <<sources, devices, emitting, on_notify_open, is_removed, owed>> /\ Announced' = Announced
    BY <1>4 DEF UsbDeviceRemoved, contextVars, Announced
  <2> QED BY <1>1, <1>3, <2>1 DEF PlaceInv
<1>5. CASE d \in Members(devices)
  <2>1. is_removed' = is_removed \cup {d} /\ UNCHANGED <<devices, emitting>> /\ Announced' = Announced
    BY <1>5 DEF UsbDeviceRemoved, Announced
  <2>2. CASE task[d] # "none"
    <3>1. owed' = owed \cup {d} /\ UNCHANGED <<sources, on_notify_open>>
      BY <1>5, <2>2 DEF UsbDeviceRemoved
    <3> QED BY <1>1, <1>2, <1>3, <2>1, <3>1 DEF PlaceInv
  <2>3. CASE task[d] = "none" /\ d \in is_open
    <3>1. on_notify_open' = on_notify_open \cup {d} /\ UNCHANGED <<sources, owed>>
      BY <1>5, <2>3 DEF UsbDeviceRemoved, DeviceRemoved
    <3> QED BY <1>1, <1>2, <1>3, <2>1, <2>3, <3>1 DEF PlaceInv
  <2>4. CASE task[d] = "none" /\ d \notin is_open
    <3>1. sources' = <<d>> \o sources /\ UNCHANGED <<on_notify_open, owed>>
      BY <1>5, <2>4 DEF UsbDeviceRemoved, DeviceRemoved
    <3>2. Members(sources') = {d} \cup Members(sources) /\ Distinct(sources') /\ Members(sources') \cap Announced' = {}
      BY <1>2, <2>1, <3>1, SourceKeepsPlace
    <3> QED BY <1>1, <1>2, <1>3, <2>1, <2>4, <3>1, <3>2 DEF PlaceInv
  <2> QED BY <2>2, <2>3, <2>4
<1> QED BY <1>4, <1>5

LEMMA CallKeepsPlace ==
  ASSUME TypeOK, PlaceInv, NEW d \in Device, NEW t \in {"open", "close", "other"}, Call(d, t)
  PROVE  PlaceInv'
PROOF
<1>1. /\ task' = [task EXCEPT ![d] = t]
      /\ UNCHANGED <<port, alive, sources, devices, emitting, on_notify_open, is_open, is_removed, owed>>
      /\ Announced' = Announced
  BY DEF Call, contextVars, Announced
<1>2. d \in is_removed => d \in is_open
  BY DEF Call
<1>3. \A e \in is_removed : task'[e] # "none" => e \in is_open \cup owed
  BY <1>1, <1>2 DEF TypeOK, PlaceInv
<1> QED BY <1>1, <1>3 DEF PlaceInv

(* What the end of a task leaves: the device is announced only once closed.     *)
LEMMA TaskEndsWhere ==
  ASSUME TypeOK, PlaceInv, NEW d \in Device, TaskEnds(d)
  PROVE  /\ d \notin Members(sources) \cup Announced /\ d \notin owed' /\ owed' = owed \ {d}
         /\ d \in is_removed => d \in is_open \cup owed
         /\ \A e \in Device \ {d} : (e \in is_open' <=> e \in is_open) /\ task'[e] = task[e]
         /\ is_open' \subseteq is_open \cup {d}
         /\ task'[d] # "none" => d \in is_open'
         /\ \/ /\ d \in owed /\ alive /\ d \in is_open'
               /\ on_notify_open' = on_notify_open \cup {d} /\ UNCHANGED sources
            \/ /\ d \notin is_open' /\ sources' = <<d>> \o sources /\ UNCHANGED on_notify_open
               /\ alive /\ d \in is_removed
            \/ UNCHANGED <<sources, on_notify_open>>
PROOF
<1>1. d \notin Members(sources) \cup Announced /\ (d \in is_removed => d \in is_open \cup owed)
  BY BusyIsNotAnnounced DEF TaskEnds
<1>2. is_open' \in {is_open, is_open \cup {d}, is_open \ {d}}
  BY DEF TaskEnds
<1>3. owed' = owed \ {d}
  BY DEF TaskEnds
<1>4. \/ task' = [task EXCEPT ![d] = "none"]
      \/ d \in is_open' /\ task' = [task EXCEPT ![d] = "close"]
  BY DEF TaskEnds
<1>5. (\A e \in Device \ {d} : task'[e] = task[e]) /\ (task'[d] # "none" => d \in is_open')
  BY <1>4 DEF TypeOK
<1>6. \/ /\ d \in owed /\ alive /\ d \in is_open'
         /\ on_notify_open' = on_notify_open \cup {d} /\ UNCHANGED sources
      \/ /\ d \notin is_open' /\ sources' = <<d>> \o sources /\ UNCHANGED on_notify_open
         /\ alive /\ d \in is_removed
      \/ UNCHANGED <<sources, on_notify_open>>
  <2>1. CASE d \in owed /\ alive
    BY <2>1 DEF TaskEnds, DeviceRemoved, PlaceInv
  <2>2. CASE ~(d \in owed /\ alive)
    BY <2>2 DEF TaskEnds, PlaceInv
  <2> QED BY <2>1, <2>2
<1> QED BY <1>1, <1>2, <1>3, <1>5, <1>6

LEMMA TaskEndsKeepsPlace ==
  ASSUME TypeOK, PlaceInv, NEW d \in Device, TaskEnds(d)
  PROVE  PlaceInv'
PROOF
<1>1. /\ UNCHANGED <<port, alive, devices, emitting, is_removed>> /\ Announced' = Announced
      /\ is_removed \subseteq Device
  BY DEF TaskEnds, Announced, TypeOK
<1>2. /\ d \notin Members(sources) \cup Announced /\ d \notin owed' /\ owed' = owed \ {d}
      /\ \A e \in Device \ {d} : (e \in is_open' <=> e \in is_open) /\ task'[e] = task[e]
      /\ task'[d] # "none" => d \in is_open'
      /\ is_open' \subseteq is_open \cup {d}
  BY TaskEndsWhere
<1>3. \A e \in is_removed : port'[e] = "gone" /\ (task'[e] # "none" => e \in is_open' \cup owed')
  BY <1>1, <1>2 DEF PlaceInv
<1>4. (Members(sources) \cup Announced) \cap (is_open' \cup owed') = {}
  BY <1>2 DEF PlaceInv
<1>5. CASE /\ d \in owed /\ alive /\ d \in is_open'
           /\ on_notify_open' = on_notify_open \cup {d} /\ UNCHANGED sources
  BY <1>1, <1>2, <1>3, <1>4, <1>5 DEF PlaceInv
<1>6. CASE /\ d \notin is_open' /\ sources' = <<d>> \o sources /\ UNCHANGED on_notify_open
           /\ alive /\ d \in is_removed
  <2>1. Members(sources') = {d} \cup Members(sources) /\ Distinct(sources') /\ Members(sources') \cap Announced' = {}
    BY <1>1, <1>2, <1>6, SourceKeepsPlace
  <2> QED BY <1>1, <1>2, <1>3, <1>4, <1>6, <2>1 DEF PlaceInv
<1>7. CASE UNCHANGED <<sources, on_notify_open>>
  BY <1>1, <1>2, <1>3, <1>4, <1>7 DEF PlaceInv
<1> QED BY <1>5, <1>6, <1>7, TaskEndsWhere

(* A removal goes from its source to its handler, or is dropped.                *)
LEMMA RemoveDeviceMoves ==
  ASSUME TypeOK, PlaceInv, RemoveDevice
  PROVE  \E d \in Members(sources) :
           /\ Members(sources') = Members(sources) \ {d} /\ Distinct(sources')
           /\ \/ /\ d \in Members(devices)
                 /\ emitting' = Append(emitting, [device |-> d, idx |-> IndexOf(d)])
                 /\ Announced' = Announced \cup {d}
              \/ d \notin Members(devices) /\ UNCHANGED emitting /\ Announced' = Announced
PROOF
<1>1. PICK i \in DOMAIN sources :
        /\ sources' = SubSeq(sources, 1, i - 1) \o SubSeq(sources, i + 1, Len(sources))
        /\ emitting' = IF sources[i] \in Members(devices)
                       THEN Append(emitting, [device |-> sources[i], idx |-> IndexOf(sources[i])])
                       ELSE emitting
  BY DEF RemoveDevice
<1>2. sources \in Seq(Device) /\ devices \in Seq(Device) /\ emitting \in Seq([device : Device, idx : Nat])
  BY DEF TypeOK
<1>3. Members(sources') = Members(sources) \ {sources[i]} /\ Distinct(sources') /\ sources[i] \in Device
  BY <1>1, <1>2, MembersRemoveAt DEF PlaceInv
<1>4. sources[i] \in Members(sources)
  BY DEF Members
<1>5. CASE sources[i] \in Members(devices)
  <2> DEFINE e == [device |-> sources[i], idx |-> IndexOf(sources[i])]
  <2>1. IndexOf(sources[i]) \in Nat
    BY <1>2, <1>5, IndexFinds
  <2>2. e \in [device : Device, idx : Nat] /\ e.device = sources[i]
    BY <1>3, <2>1
  <2>3. emitting' = Append(emitting, e)
    BY <1>1, <1>5
  <2> HIDE DEF e
  <2>4. Members(emitting') = Members(emitting) \cup {e}
    <3> DEFINE E == [device : Device, idx : Nat]
    <3>1. emitting \in Seq(E) /\ e \in E
      BY <1>2, <2>2
    <3> HIDE DEF E
    <3>2. Members(Append(emitting, e)) = Members(emitting) \cup {e}
      BY <3>1, MembersAppend
    <3> QED BY <2>3, <3>2
  <2>5. Announced' = Announced \cup {sources[i]}
    BY <2>2, <2>4 DEF Announced
  <2> QED BY <1>3, <1>4, <1>5, <2>3, <2>5 DEF e
<1>6. CASE sources[i] \notin Members(devices)
  <2>1. UNCHANGED emitting /\ Announced' = Announced
    BY <1>1, <1>6 DEF Announced
  <2> QED BY <1>3, <1>4, <1>6, <2>1
<1> QED BY <1>5, <1>6

LEMMA RemoveDeviceKeepsPlace ==
  ASSUME TypeOK, PlaceInv, RemoveDevice
  PROVE  PlaceInv'
PROOF
<1>1. PICK d \in Members(sources) :
           /\ Members(sources') = Members(sources) \ {d} /\ Distinct(sources')
           /\ Announced' \subseteq Announced \cup {d}
  BY RemoveDeviceMoves
<1>2. UNCHANGED <<port, alive, devices, on_notify_open, is_open, task, is_removed, owed>>
  BY DEF RemoveDevice, deviceVars
<1>3. alive
  BY <1>1, MembersNone DEF PlaceInv
<1> QED BY <1>1, <1>2, <1>3 DEF PlaceInv

LEMMA RemoveDeviceEndsLeaves ==
  ASSUME TypeOK, RemoveDeviceEnds
  PROVE  Announced' \subseteq Announced /\ Len(emitting') = Len(emitting) - 1
PROOF
<1>1. emitting \in Seq([device : Device, idx : Nat]) /\ emitting # <<>>
  BY DEF TypeOK, RemoveDeviceEnds
<1>2. Members(emitting') \subseteq Members(emitting) /\ Len(emitting') = Len(emitting) - 1
  BY <1>1, MembersFront DEF RemoveDeviceEnds
<1> QED BY <1>2 DEF Announced

LEMMA RemoveDeviceEndsKeepsPlace ==
  ASSUME TypeOK, PlaceInv, RemoveDeviceEnds
  PROVE  PlaceInv'
PROOF
<1>1. Announced' \subseteq Announced
  BY RemoveDeviceEndsLeaves
<1>2. UNCHANGED <<port, alive, sources, on_notify_open, is_open, task, is_removed, owed>>
  BY DEF RemoveDeviceEnds, deviceVars
<1>3. alive
  BY DEF PlaceInv, RemoveDeviceEnds
<1> QED BY <1>1, <1>2, <1>3 DEF PlaceInv

LEMMA FinalizeKeepsPlace ==
  ASSUME PlaceInv, Finalize
  PROVE  PlaceInv'
PROOF
<1>1. Members(sources') = {} /\ Distinct(sources') /\ Announced' = {}
  BY MembersNone DEF Finalize, Announced
<1> QED BY <1>1 DEF Finalize, PlaceInv, deviceVars

LEMMA PlaceKept ==
  ASSUME TypeOK, PlaceInv, [Next]_vars
  PROVE  PlaceInv'
PROOF
<1>1. ASSUME UNCHANGED <<port, alive, sources, devices, emitting, on_notify_open, deviceVars>> PROVE PlaceInv'
  <2>1. Announced' = Announced
    BY <1>1 DEF Announced
  <2> QED BY <1>1, <2>1 DEF PlaceInv, deviceVars
<1>2. ASSUME NEW d \in Device, UsbDeviceAdded(d) PROVE PlaceInv'
  BY <1>1, <1>2 DEF UsbDeviceAdded
<1>3. ASSUME NEW d \in Device, AsyncDeviceInitDone(d) PROVE PlaceInv'
  <2>1. Announced' = Announced /\ (alive \/ UNCHANGED devices)
        /\ UNCHANGED <<port, alive, sources, emitting, on_notify_open, is_open, task, is_removed, owed>>
    BY <1>3 DEF AsyncDeviceInitDone, Announced, deviceVars
  <2> QED BY <2>1 DEF PlaceInv
<1>4. ASSUME Enumerate \/ EnumerateReturns \/ UNCHANGED vars PROVE PlaceInv'
  BY <1>1, <1>4 DEF Enumerate, EnumerateReturns, vars, contextVars
<1> QED BY <1>2, <1>3, <1>4, UnplugKeepsPlace, UsbDeviceRemovedKeepsPlace, CallKeepsPlace,
           TaskEndsKeepsPlace, RemoveDeviceKeepsPlace, RemoveDeviceEndsKeepsPlace,
           FinalizeKeepsPlace DEF Next

----------------------------------------------------------------------------
(* The list, while no handler iterates the main context.                       *)

LEMMA InitList == Init => ListInv
PROOF
<1> SUFFICES ASSUME Init PROVE ListInv
  OBVIOUS
<1>1. Members(devices) = {} /\ Distinct(devices) /\ Members(sources) = {}
  BY MembersNone DEF Init
<1>2. emitting = <<>> /\ Len(emitting) = 0 /\ DOMAIN emitting = {}
  BY DEF Init
<1> QED BY <1>1, <1>2 DEF Init, ListInv

LEMMA DoneKeepsList ==
  ASSUME TypeOK, ListInv, NEW d \in Device, AsyncDeviceInitDone(d)
  PROVE  ListInv'
PROOF
<1>1. /\ init[d] = "probing" /\ d \notin Members(devices) /\ devices \in Seq(Device)
      /\ UNCHANGED <<sources, emitting, on_notify_open, alive, is_open, owed>>
  BY DEF TypeOK, ListInv, AsyncDeviceInitDone, deviceVars
<1>2. \A e \in Members(devices) : e # d /\ init[e] = "listed"
  BY <1>1 DEF ListInv
<1>3. Members(devices) \subseteq Device
  BY <1>1 DEF Members
<1>4. CASE alive /\ init' = [init EXCEPT ![d] = "listed"] /\ devices' = Append(devices, d)
  <2>1. /\ Members(devices') = Members(devices) \cup {d} /\ Distinct(devices')
        /\ \A i \in DOMAIN devices : i \in DOMAIN devices' /\ devices'[i] = devices[i]
    BY <1>1, <1>4, MembersAppend DEF ListInv
  <2>2. \A e \in Members(devices') : init'[e] = "listed"
    BY <1>2, <1>3, <1>4, <2>1 DEF TypeOK
  <2>3. \A k \in DOMAIN emitting' : /\ emitting'[k].idx \in DOMAIN devices'
                                    /\ devices'[emitting'[k].idx] = emitting'[k].device
    BY <1>1, <2>1 DEF ListInv
  <2> QED BY <1>1, <2>1, <2>2, <2>3 DEF ListInv
<1>5. CASE init' = [init EXCEPT ![d] = "failed"] /\ UNCHANGED devices
  <2>1. \A e \in Members(devices') : init'[e] = "listed"
    BY <1>2, <1>3, <1>5 DEF TypeOK
  <2> QED BY <1>1, <1>5, <2>1 DEF ListInv
<1> QED BY <1>4, <1>5 DEF AsyncDeviceInitDone

LEMMA UsbDeviceRemovedKeepsList ==
  ASSUME TypeOK, ListInv, NEW d \in Device, UsbDeviceRemoved(d)
  PROVE  ListInv'
PROOF
<1>1. UNCHANGED <<init, alive, is_open>>
  BY DEF UsbDeviceRemoved
<1>2. CASE d \notin Members(devices)
  <2>1. UNCHANGED <<sources, devices, emitting, on_notify_open, owed>>
    BY <1>2 DEF UsbDeviceRemoved, contextVars
  <2> QED BY <1>1, <2>1 DEF ListInv
<1>3. CASE d \in Members(devices)
  <2>1. UNCHANGED <<devices, emitting>>
    BY <1>3 DEF UsbDeviceRemoved
  <2>2. /\ owed' \subseteq owed \cup {d} /\ on_notify_open' \subseteq on_notify_open \cup {d}
        /\ UNCHANGED sources \/ sources' = <<d>> \o sources
    BY <1>3 DEF UsbDeviceRemoved, DeviceRemoved
  <2>3. Members(sources') \subseteq Members(sources) \cup {d}
    <3>1. sources \in Seq(Device)
      BY DEF TypeOK
    <3>2. Members(<<d>> \o sources) = {d} \cup Members(sources)
      BY <3>1, MembersCons
    <3> QED BY <2>2, <3>2
  <2> QED BY <1>1, <1>3, <2>1, <2>2, <2>3 DEF ListInv
<1> QED BY <1>2, <1>3

LEMMA TaskEndsKeepsList ==
  ASSUME TypeOK, PlaceInv, ListInv, NEW d \in Device, TaskEnds(d)
  PROVE  ListInv'
PROOF
<1>1. UNCHANGED <<init, alive, devices, emitting>>
  BY DEF TaskEnds
<1>2. /\ owed' = owed \ {d} /\ is_open' \subseteq is_open \cup {d}
      /\ d \in is_removed => d \in is_open \cup owed
      /\ \/ /\ d \in owed /\ alive
            /\ on_notify_open' = on_notify_open \cup {d} /\ UNCHANGED sources
         \/ /\ sources' = <<d>> \o sources /\ UNCHANGED on_notify_open
            /\ alive /\ d \in is_removed
         \/ UNCHANGED <<sources, on_notify_open>>
  BY TaskEndsWhere
<1>3. on_notify_open \cup owed \subseteq is_removed /\ (alive => owed \subseteq Members(devices))
  BY DEF PlaceInv, ListInv
<1>4. alive /\ d \in on_notify_open => d \in Members(devices)
  BY <1>2, <1>3 DEF ListInv
<1>5. alive => owed' \cup (on_notify_open' \cap is_open') \subseteq Members(devices)
  BY <1>2, <1>3, <1>4 DEF ListInv
<1>6. CASE UNCHANGED sources
  BY <1>1, <1>5, <1>6 DEF ListInv
<1>7. CASE sources' = <<d>> \o sources /\ alive /\ (d \in owed \/ d \in on_notify_open)
  <2>1. Members(sources') = {d} \cup Members(sources)
    BY <1>7, MembersCons DEF TypeOK
  <2> QED BY <1>1, <1>3, <1>4, <1>5, <1>7, <2>1 DEF ListInv
<1>8. UNCHANGED sources \/ (sources' = <<d>> \o sources /\ alive /\ (d \in owed \/ d \in on_notify_open))
  BY <1>2 DEF TaskEnds, DeviceRemoved
<1> QED BY <1>6, <1>7, <1>8

LEMMA RemoveDeviceKeepsList ==
  ASSUME Nesting = 0, TypeOK, PlaceInv, ListInv, RemoveDevice
  PROVE  ListInv'
PROOF
<1>1. PICK d \in Members(sources) :
           /\ Members(sources') = Members(sources) \ {d}
           /\ \/ emitting' = Append(emitting, [device |-> d, idx |-> IndexOf(d)])
              \/ d \notin Members(devices)
  BY RemoveDeviceMoves
<1>2. d \in Members(devices) /\ IndexOf(d) \in DOMAIN devices /\ devices[IndexOf(d)] = d
  BY IndexFinds DEF ListInv
<1>3. emitting = <<>>
  BY DEF RemoveDevice, TypeOK
<1>4. Len(emitting') = 1 /\ DOMAIN emitting' = {1} /\ emitting'[1] = [device |-> d, idx |-> IndexOf(d)]
  BY <1>1, <1>2, <1>3
<1>5. \A k \in DOMAIN emitting' : emitting'[k].idx = IndexOf(d) /\ emitting'[k].device = d
  BY <1>4
<1>6. UNCHANGED <<init, alive, devices, on_notify_open, is_open, owed>>
  BY DEF RemoveDevice, deviceVars
<1> QED BY <1>1, <1>2, <1>4, <1>5, <1>6 DEF ListInv

(* The handlers of one removal return: the list loses the device they were for. *)
LEMMA RemoveDeviceEndsRemoves ==
  ASSUME TypeOK, ListInv, RemoveDeviceEnds
  PROVE  /\ emitting' = <<>>
         /\ emitting[Len(emitting)].device \in Announced
         /\ emitting[Len(emitting)].device \in Members(devices)
         /\ Members(devices') = Members(devices) \ {emitting[Len(emitting)].device}
         /\ Distinct(devices')
PROOF
<1>1. /\ emitting \in Seq([device : Device, idx : Nat]) /\ emitting # <<>> /\ devices \in Seq(Device)
      /\ Len(emitting) <= 1 /\ Distinct(devices)
      /\ emitting' = SubSeq(emitting, 1, Len(emitting) - 1)
      /\ devices' = RemoveIndexFast(devices, emitting[Len(emitting)].idx)
  BY DEF TypeOK, ListInv, RemoveDeviceEnds
<1>2. Len(emitting) = 1 /\ 1 \in DOMAIN emitting
  <2>1. Len(emitting) \in Nat /\ Len(emitting) # 0 /\ DOMAIN emitting = 1..Len(emitting)
    BY <1>1
  <2> QED BY <1>1, <2>1
<1>3. emitting' = <<>>
  BY <1>1, <1>2
<1>4. emitting[1].idx \in DOMAIN devices /\ devices[emitting[1].idx] = emitting[1].device
  BY <1>2 DEF ListInv
<1>5. emitting[1] \in Members(emitting) /\ devices[emitting[1].idx] \in Members(devices)
  BY <1>2, <1>4 DEF Members
<1>6. Members(devices') = Members(devices) \ {devices[emitting[1].idx]} /\ Distinct(devices')
  BY <1>1, <1>2, <1>4, MembersRemoveFast
<1> QED BY <1>2, <1>3, <1>4, <1>5, <1>6 DEF Announced

LEMMA RemoveDeviceEndsKeepsList ==
  ASSUME TypeOK, PlaceInv, ListInv, RemoveDeviceEnds
  PROVE  ListInv'
PROOF
<1> DEFINE d == emitting[Len(emitting)].device
<1>1. /\ emitting' = <<>> /\ d \in Announced /\ Members(devices') = Members(devices) \ {d}
      /\ Distinct(devices')
  BY RemoveDeviceEndsRemoves
<1> HIDE DEF d
<1>2. d \notin Members(sources) \cup owed \cup is_open
  BY <1>1 DEF PlaceInv
<1>3. UNCHANGED <<init, alive, sources, on_notify_open, is_open, owed>>
  BY DEF RemoveDeviceEnds, deviceVars
<1>4. Len(emitting') <= 1 /\ DOMAIN emitting' = {}
  BY <1>1
<1> QED BY <1>1, <1>2, <1>3, <1>4 DEF ListInv

LEMMA ListKept ==
  ASSUME Nesting = 0, TypeOK, PlaceInv, ListInv, [Next]_vars
  PROVE  ListInv'
PROOF
<1>1. ASSUME UNCHANGED <<init, alive, sources, devices, emitting, on_notify_open, is_open, owed>> PROVE ListInv'
  BY <1>1 DEF ListInv
<1>2. ASSUME NEW d \in Device, Plug(d) \/ Unplug(d) PROVE ListInv'
  BY <1>1, <1>2 DEF Plug, Unplug, contextVars, deviceVars
<1>3. ASSUME NEW d \in Device, UsbDeviceAdded(d) PROVE ListInv'
  <2>1. UNCHANGED <<alive, sources, devices, emitting, on_notify_open, is_open, owed>>
    BY <1>3 DEF UsbDeviceAdded, deviceVars
  <2>2. \A e \in Device : init[e] = "listed" => init'[e] = "listed"
    BY <1>3 DEF UsbDeviceAdded, TypeOK
  <2>3. Members(devices) \subseteq Device
    BY DEF Members, TypeOK
  <2> QED BY <2>1, <2>2, <2>3 DEF ListInv
<1>4. ASSUME NEW d \in Device, NEW t \in {"open", "close", "other"}, Call(d, t) PROVE ListInv'
  BY <1>1, <1>4 DEF Call, contextVars
<1>5. ASSUME Enumerate \/ EnumerateReturns \/ UNCHANGED vars PROVE ListInv'
  BY <1>1, <1>5 DEF Enumerate, EnumerateReturns, vars, contextVars, deviceVars
<1>6. ASSUME Finalize PROVE ListInv'
  <2>1. /\ Members(devices') = {} /\ Distinct(devices') /\ Members(sources') = {}
        /\ ~alive' /\ emitting' = <<>>
    BY <1>6, MembersNone DEF Finalize
  <2>2. Len(emitting') <= 1 /\ DOMAIN emitting' = {}
    BY <2>1
  <2> QED BY <2>1, <2>2 DEF ListInv
<1> QED BY <1>2, <1>3, <1>4, <1>5, <1>6, DoneKeepsList, UsbDeviceRemovedKeepsList,
           TaskEndsKeepsList, RemoveDeviceKeepsList, RemoveDeviceEndsKeepsList DEF Next

----------------------------------------------------------------------------
(* How a removal gets on: it waits for the task of the device (4), for its     *)
(* close (3), for its source to be run (2), for the handlers of its            *)
(* announcement (1), and is over when the device is not listed (0).            *)

Stage(d) ==
  IF d \in owed THEN 4
  ELSE IF d \in on_notify_open \cap is_open THEN 3
  ELSE IF d \in Members(sources) THEN 2
  ELSE IF d \in Announced THEN 1
  ELSE 0

RemovalInv ==
  /\ \A d \in is_removed : init[d] = "listed"
  /\ \A d \in owed : task[d] # "none"
  /\ alive => \A d \in is_removed : d \in Members(devices) <=> Stage(d) # 0

StagesSink == alive' => \A d \in is_removed : Stage(d)' <= Stage(d)

LEMMA SinksUnless ==
  ASSUME NEW d, Stage(d)' = Stage(d) \/ Stage(d) > Stage(d)'
  PROVE  Stage(d)' <= Stage(d)
PROOF
<1>1. Stage(d) \in Nat /\ Stage(d)' \in Nat
  BY DEF Stage
<1> QED BY <1>1

(* A step that moves no removal.                                               *)
LEMMA NothingSinks ==
  ASSUME UNCHANGED <<sources, devices, emitting, on_notify_open, is_open, is_removed, owed>>
  PROVE  /\ \A d : Stage(d)' = Stage(d)
         /\ StagesSink
         /\ Members(devices') = Members(devices)
PROOF
<1>1. \A d : Stage(d)' = Stage(d)
  BY DEF Stage, Announced
<1> QED BY <1>1, SinksUnless DEF StagesSink

LEMMA DoneSinks ==
  ASSUME TypeOK, RemovalInv, NEW d \in Device, AsyncDeviceInitDone(d)
  PROVE  RemovalInv' /\ StagesSink
PROOF
<1>1. /\ init[d] = "probing" /\ d \notin is_removed
      /\ UNCHANGED <<sources, emitting, on_notify_open, is_open, is_removed, owed, task, alive>>
      /\ \A e \in Device \ {d} : init'[e] = init[e]
  BY DEF TypeOK, RemovalInv, AsyncDeviceInitDone, deviceVars
<1>2. \A e : Stage(e)' = Stage(e)
  BY <1>1 DEF Stage, Announced
<1>3. Members(devices') \in {Members(devices), Members(devices) \cup {d}}
  <2>1. devices \in Seq(Device)
    BY DEF TypeOK
  <2>2. Members(Append(devices, d)) = Members(devices) \cup {d}
    BY <2>1, MembersAppend
  <2>3. devices' = devices \/ devices' = Append(devices, d)
    BY DEF AsyncDeviceInitDone
  <2> QED BY <2>2, <2>3
<1>4. is_removed \subseteq Device \ {d}
  BY <1>1 DEF TypeOK
<1>5. \A e \in is_removed : e \in Members(devices') <=> e \in Members(devices)
  BY <1>3, <1>4
<1>6. StagesSink
  BY <1>2, SinksUnless DEF StagesSink
<1> QED BY <1>1, <1>2, <1>4, <1>5, <1>6 DEF RemovalInv

LEMMA UsbDeviceRemovedSinks ==
  ASSUME TypeOK, PlaceInv, ListInv, RemovalInv, NEW d \in Device, UsbDeviceRemoved(d)
  PROVE  RemovalInv' /\ StagesSink
PROOF
<1>1. /\ port[d] = "unplugged" /\ alive
      /\ UNCHANGED <<init, alive, is_open, task, devices, emitting>>
      /\ Members(devices') = Members(devices) /\ Announced' = Announced
  BY DEF UsbDeviceRemoved, contextVars, Announced
<1>2. d \notin is_removed
  BY <1>1 DEF PlaceInv
<1>3. CASE d \notin Members(devices)
  <2>1. UNCHANGED <<sources, on_notify_open, is_removed, owed>>
    BY <1>3 DEF UsbDeviceRemoved, contextVars
  <2> QED BY <1>1, <2>1, NothingSinks DEF RemovalInv
<1>4. CASE d \in Members(devices)
  <2>1. is_removed' = is_removed \cup {d} /\ init[d] = "listed"
    BY <1>4 DEF UsbDeviceRemoved, ListInv
  <2>2. /\ owed \subseteq owed' /\ owed' \subseteq owed \cup {d} /\ (d \in owed' => task[d] # "none")
        /\ on_notify_open \subseteq on_notify_open' /\ on_notify_open' \subseteq on_notify_open \cup {d}
        /\ sources' = sources \/ sources' = <<d>> \o sources
        /\ d \in owed' \/ d \in on_notify_open' \cap is_open \/ sources' = <<d>> \o sources
    <3>1. CASE task[d] # "none"
      BY <1>4, <3>1 DEF UsbDeviceRemoved
    <3>2. CASE task[d] = "none" /\ d \in is_open
      <4>1. on_notify_open' = on_notify_open \cup {d} /\ UNCHANGED <<sources, owed>>
        BY <1>4, <3>2 DEF UsbDeviceRemoved, DeviceRemoved
      <4>2. d \notin owed
        BY <3>2 DEF RemovalInv
      <4> QED BY <3>2, <4>1, <4>2
    <3>3. CASE task[d] = "none" /\ d \notin is_open
      <4>1. sources' = <<d>> \o sources /\ UNCHANGED <<on_notify_open, owed>>
        BY <1>4, <3>3 DEF UsbDeviceRemoved, DeviceRemoved
      <4>2. d \notin owed
        BY <3>3 DEF RemovalInv
      <4> QED BY <4>1, <4>2
    <3> QED BY <3>1, <3>2, <3>3
  <2>3. sources' = <<d>> \o sources => Members(sources') = {d} \cup Members(sources)
    <3>1. sources \in Seq(Device)
      BY DEF TypeOK
    <3> QED BY <3>1, MembersCons
  <2>4. \A e \in is_removed : e # d /\ Stage(e)' = Stage(e)
    BY <1>1, <1>2, <2>2, <2>3 DEF Stage
  <2>5. Stage(d)' # 0
    BY <1>1, <2>2, <2>3 DEF Stage
  <2>6. StagesSink
    BY <2>4, SinksUnless DEF StagesSink
  <2> QED BY <1>1, <1>4, <2>1, <2>2, <2>4, <2>5, <2>6 DEF RemovalInv
<1> QED BY <1>3, <1>4

LEMMA TaskEndsSinks ==
  ASSUME TypeOK, PlaceInv, ListInv, RemovalInv, NEW d \in Device, TaskEnds(d)
  PROVE  RemovalInv' /\ StagesSink
PROOF
<1>1. /\ UNCHANGED <<init, alive, devices, emitting, is_removed>>
      /\ Members(devices') = Members(devices) /\ Announced' = Announced
  BY DEF TaskEnds, Announced
<1>2. /\ d \notin Members(sources) \cup Announced /\ owed' = owed \ {d}
      /\ d \in is_removed => d \in is_open \cup owed
      /\ \A e \in Device \ {d} : (e \in is_open' <=> e \in is_open) /\ task'[e] = task[e]
  BY TaskEndsWhere
<1>3. \A e \in owed' : task'[e] # "none"
  BY <1>2 DEF RemovalInv, TypeOK
<1>4. /\ \/ sources' = sources
         \/ sources' = <<d>> \o sources /\ Members(sources') = {d} \cup Members(sources)
      /\ on_notify_open' \in {on_notify_open, on_notify_open \cup {d}}
  <2>1. sources \in Seq(Device)
    BY DEF TypeOK
  <2> QED BY <2>1, MembersCons, TaskEndsWhere
<1>5. \A e \in is_removed \ {d} : Stage(e)' = Stage(e)
  <2>1. is_removed \subseteq Device
    BY DEF TypeOK
  <2> QED BY <1>1, <1>2, <1>4, <2>1 DEF Stage
<1>6. ASSUME alive, d \in is_removed
      PROVE  Stage(d)' <= Stage(d) /\ (Stage(d)' # 0 <=> Stage(d) # 0)
  <2>1. CASE d \in owed
    <3>1. DeviceRemoved(d, d \in is_open')
      BY <1>6, <2>1 DEF TaskEnds
    <3>2. d \in is_open' => d \in on_notify_open'
      BY <3>1 DEF DeviceRemoved
    <3>3. d \notin is_open' => d \in Members(sources')
      <4>1. d \notin is_open' => sources' = <<d>> \o sources
        BY <3>1 DEF DeviceRemoved
      <4>2. Members(<<d>> \o sources) = {d} \cup Members(sources)
        BY MembersCons DEF TypeOK
      <4> QED BY <4>1, <4>2
    <3> QED BY <1>2, <2>1, <3>2, <3>3 DEF Stage
  <2>2. CASE d \notin owed /\ d \in on_notify_open
    <3>1. d \in is_open
      BY <1>2, <1>6, <2>2
    <3>2. d \in is_open' => d \in on_notify_open'
      BY <2>2, <1>4
    <3>3. d \notin is_open' => d \in Members(sources')
      <4>1. d \notin is_open' => sources' = <<d>> \o sources
        BY <2>2 DEF TaskEnds
      <4>2. Members(<<d>> \o sources) = {d} \cup Members(sources)
        BY MembersCons DEF TypeOK
      <4> QED BY <4>1, <4>2
    <3> QED BY <1>2, <2>2, <3>1, <3>2, <3>3 DEF Stage
  <2>3. CASE d \notin owed /\ d \notin on_notify_open
    <3>1. UNCHANGED <<sources, on_notify_open>>
      BY <2>3 DEF TaskEnds
    <3> QED BY <1>1, <1>2, <2>3, <3>1 DEF Stage
  <2> QED BY <2>1, <2>2, <2>3
<1>7. StagesSink
  BY <1>1, <1>5, <1>6, SinksUnless DEF StagesSink
<1> QED BY <1>1, <1>3, <1>5, <1>6, <1>7 DEF RemovalInv

LEMMA RemoveDeviceSinks ==
  ASSUME Nesting = 0, TypeOK, PlaceInv, ListInv, RemovalInv, RemoveDevice
  PROVE  RemovalInv' /\ StagesSink
PROOF
<1>1. PICK d \in Members(sources) :
           /\ Members(sources') = Members(sources) \ {d}
           /\ \/ Announced' = Announced \cup {d}
              \/ d \notin Members(devices)
  BY RemoveDeviceMoves
<1>2. d \in Members(devices) /\ d \notin owed \cup is_open
  BY DEF ListInv, PlaceInv
<1>3. /\ UNCHANGED <<init, alive, devices, on_notify_open, is_open, is_removed, owed, task>>
      /\ Members(devices') = Members(devices)
  BY DEF RemoveDevice, deviceVars
<1>4. Stage(d) = 2 /\ Stage(d)' = 1
  BY <1>1, <1>2, <1>3 DEF Stage
<1>5. \A e \in is_removed \ {d} : Stage(e)' = Stage(e)
  BY <1>1, <1>2, <1>3 DEF Stage
<1>6. StagesSink
  BY <1>4, <1>5, SinksUnless DEF StagesSink
<1> QED BY <1>3, <1>4, <1>5, <1>6 DEF RemovalInv

LEMMA RemoveDeviceEndsSinks ==
  ASSUME TypeOK, PlaceInv, ListInv, RemovalInv, RemoveDeviceEnds
  PROVE  RemovalInv' /\ StagesSink
PROOF
<1>1. PICK d : /\ d = emitting[Len(emitting)].device
               /\ emitting' = <<>> /\ d \in Announced /\ Members(devices') = Members(devices) \ {d}
  BY RemoveDeviceEndsRemoves
<1>2. Announced = {d}
  <2>1. emitting \in Seq([device : Device, idx : Nat]) /\ emitting # <<>> /\ Len(emitting) <= 1
    BY DEF TypeOK, ListInv, RemoveDeviceEnds
  <2>2. Len(emitting) = 1 /\ DOMAIN emitting = {1}
    <3>1. Len(emitting) \in Nat /\ Len(emitting) # 0 /\ DOMAIN emitting = 1..Len(emitting)
      BY <2>1
    <3> QED BY <2>1, <3>1
  <2>3. Members(emitting) = {emitting[1]}
    BY <2>2 DEF Members
  <2> QED BY <1>1, <2>2, <2>3 DEF Announced
<1>3. /\ UNCHANGED <<init, alive, sources, on_notify_open, is_open, is_removed, owed, task>>
      /\ Announced' = {}
  BY <1>1, MembersNone DEF RemoveDeviceEnds, deviceVars, Announced
<1>4. Stage(d) = 1 /\ Stage(d)' = 0
  <2>1. d \notin Members(sources) \cup is_open \cup owed
    BY <1>1 DEF PlaceInv
  <2> QED BY <1>1, <1>3, <2>1 DEF Stage
<1>5. \A e \in is_removed \ {d} : Stage(e)' = Stage(e)
  BY <1>2, <1>3 DEF Stage
<1>6. StagesSink
  BY <1>4, <1>5, SinksUnless DEF StagesSink
<1> QED BY <1>1, <1>3, <1>4, <1>5, <1>6 DEF RemovalInv

LEMMA RemovalSinks ==
  ASSUME Nesting = 0, TypeOK, PlaceInv, ListInv, RemovalInv, [Next]_vars
  PROVE  RemovalInv' /\ StagesSink
PROOF
<1>1. ASSUME UNCHANGED <<sources, devices, emitting, on_notify_open, is_open, is_removed, owed, alive>>,
             \A d \in is_removed : init'[d] = init[d],
             \A d \in owed : task'[d] # "none"
      PROVE  RemovalInv' /\ StagesSink
  BY <1>1, NothingSinks DEF RemovalInv
<1>2. \A d \in owed : task[d] # "none"
  BY DEF RemovalInv
<1>3. ASSUME NEW d \in Device, Plug(d) \/ Unplug(d) PROVE RemovalInv' /\ StagesSink
  BY <1>1, <1>2, <1>3 DEF Plug, Unplug, contextVars, deviceVars
<1>4. ASSUME NEW d \in Device, UsbDeviceAdded(d) PROVE RemovalInv' /\ StagesSink
  <2>1. UNCHANGED <<sources, devices, emitting, on_notify_open, is_open, is_removed, owed, alive, task>>
    BY <1>4 DEF UsbDeviceAdded, deviceVars
  <2>2. \A e \in is_removed : e # d /\ init'[e] = init[e]
    BY <1>4 DEF UsbDeviceAdded, RemovalInv, TypeOK
  <2> QED BY <1>1, <1>2, <2>1, <2>2
<1>5. ASSUME NEW d \in Device, NEW t \in {"open", "close", "other"}, Call(d, t)
      PROVE  RemovalInv' /\ StagesSink
  <2>1. UNCHANGED <<sources, devices, emitting, on_notify_open, is_open, is_removed, owed, alive, init>>
    BY <1>5 DEF Call, contextVars
  <2>2. \A e \in owed : task'[e] # "none"
    BY <1>2, <1>5 DEF Call, TypeOK
  <2> QED BY <1>1, <2>1, <2>2
<1>6. ASSUME Enumerate \/ EnumerateReturns \/ UNCHANGED vars PROVE RemovalInv' /\ StagesSink
  BY <1>1, <1>2, <1>6 DEF Enumerate, EnumerateReturns, vars, contextVars, deviceVars
<1>7. ASSUME Finalize PROVE RemovalInv' /\ StagesSink
  BY <1>7 DEF Finalize, deviceVars, RemovalInv, StagesSink
<1> QED BY <1>3, <1>4, <1>5, <1>6, <1>7, DoneSinks, UsbDeviceRemovedSinks, TaskEndsSinks,
           RemoveDeviceSinks, RemoveDeviceEndsSinks DEF Next

----------------------------------------------------------------------------
(* The theorems.                                                              *)

LEMMA Waiting == Spec => [](PendingInv /\ PlaceInv)
PROOF
<1>1. Init => PendingInv /\ PlaceInv
  BY InitPending, InitPlace
<1>2. PendingInv /\ PlaceInv /\ [Next]_vars => (PendingInv /\ PlaceInv)'
  <2>1. PendingInv => TypeOK
    BY DEF PendingInv
  <2> QED BY <2>1, PendingKept, PlaceKept
<1> QED BY <1>1, <1>2, PTL DEF Spec

LEMMA Listing == ASSUME Nesting = 0 PROVE Spec => [](PendingInv /\ PlaceInv /\ ListInv)
PROOF
<1>1. Init => PendingInv /\ PlaceInv /\ ListInv
  BY InitPending, InitPlace, InitList
<1>2. PendingInv /\ PlaceInv /\ ListInv /\ [Next]_vars => (PendingInv /\ PlaceInv /\ ListInv)'
  <2>1. PendingInv => TypeOK
    BY DEF PendingInv
  <2> QED BY <2>1, PendingKept, PlaceKept, ListKept
<1> QED BY <1>1, <1>2, PTL DEF Spec

(* Every variable keeps to its type: the counter of pending devices, which       *)
(* fp_context_enumerate waits on, neither wraps below zero nor passes the        *)
(* number of devices.                                                         *)
THEOREM ContextTypeCorrect == Spec => []TypeOK
PROOF
<1>1. PendingInv => TypeOK
  BY DEF PendingInv
<1> QED BY <1>1, Waiting, PTL

(* priv->pending_devices counts exactly the probes under way, failed probes and  *)
(* ones of devices that were unplugged meanwhile included, so that               *)
(* fp_context_enumerate neither returns early nor waits for a probe that ended.  *)
THEOREM ProbesCounted == Spec => [](alive => pending_devices = Cardinality(Probing))
PROOF
<1>1. PendingInv => (alive => pending_devices = Cardinality(Probing))
  BY DEF PendingInv
<1> QED BY <1>1, Waiting, PTL

(* However deeply handlers of the removed signal iterate the main context, a     *)
(* device that is announced as removed is closed and runs no task that could     *)
(* open it, and its removal has no second source.                              *)
AnnouncedIsClosed ==
  /\ \A k \in DOMAIN emitting : /\ emitting[k].device \notin is_open
                                /\ task[emitting[k].device] = "none"
                                /\ emitting[k].device \notin Members(sources)
  /\ Distinct(sources)

(* fpi_device_remove announces only what is closed and idle, for any nesting.     *)
THEOREM AnnouncedClosed == Spec => []AnnouncedIsClosed
PROOF
<1>1. TypeOK /\ PlaceInv => AnnouncedIsClosed
  <2> SUFFICES ASSUME TypeOK, PlaceInv PROVE AnnouncedIsClosed
    OBVIOUS
  <2>1. ASSUME NEW k \in DOMAIN emitting
        PROVE  emitting[k].device \in Announced
    BY DEF Members, Announced
  <2>2. \A d \in Announced : d \in is_removed /\ d \notin Members(sources) \cup is_open \cup owed
    BY DEF PlaceInv
  <2>3. \A d \in is_removed : task[d] # "none" => d \in is_open \cup owed
    BY DEF PlaceInv
  <2> QED BY <2>1, <2>2, <2>3 DEF PlaceInv, AnnouncedIsClosed
<1>2. PendingInv => TypeOK
  BY DEF PendingInv
<1> QED BY <1>1, <1>2, Waiting, PTL

(* Removed signals of the context: a device is closed before it is announced,    *)
(* announced once, and listed until it is, for any number of devices and any     *)
(* order of unplugging, tasks and closes, while no handler iterates the context. *)
THEOREM RemovedAfterClose == ASSUME Nesting = 0 PROVE Spec => []RemovedOnceClosed
PROOF
<1>1. PlaceInv /\ ListInv => RemovedOnceClosed
  <2> SUFFICES ASSUME PlaceInv, ListInv PROVE RemovedOnceClosed
    OBVIOUS
  <2>1. \A k \in DOMAIN emitting : emitting[k].device \in Announced
    BY DEF Members, Announced
  <2>2. \A k \in DOMAIN emitting : emitting[k].device \notin is_open
    BY <2>1 DEF PlaceInv
  <2>3. \A i, j \in DOMAIN sources : sources[i] = sources[j] => i = j
    BY DEF PlaceInv, Distinct
  <2>4. Members(sources) \subseteq Members(devices) \ Announced
    BY DEF PlaceInv, ListInv
  <2> QED BY <2>2, <2>3, <2>4 DEF RemovedOnceClosed, Announced
<1> QED BY <1>1, Listing, PTL

(* remove_device_idle_cb takes the device's index before its handlers run and    *)
(* uses it after: it removes the device it announced and no other, although      *)
(* devices may be appended meanwhile.                                         *)
THEOREM RemovesAnnounced == ASSUME Nesting = 0 PROVE Spec => RemovesWhatItAnnounced
PROOF
<1> DEFINE A == emitting # <<>> /\ Len(emitting') < Len(emitting)
                => Members(devices) \ Members(devices') = {emitting[Len(emitting)].device}
<1>1. TypeOK /\ ListInv /\ [Next]_vars => [A]_vars
  <2> SUFFICES ASSUME TypeOK, ListInv, Next, emitting # <<>>, Len(emitting') < Len(emitting)
               PROVE  Members(devices) \ Members(devices') = {emitting[Len(emitting)].device}
    OBVIOUS
  <2>1. emitting \in Seq([device : Device, idx : Nat]) /\ Len(emitting) \in Nat
    BY DEF TypeOK
  <2>2. CASE RemoveDeviceEnds
    BY <2>2, RemoveDeviceEndsRemoves
  <2>3. CASE RemoveDevice
    <3>1. emitting' = emitting \/ \E e : emitting' = Append(emitting, e)
      BY <2>3 DEF RemoveDevice
    <3>2. Len(emitting') \in {Len(emitting), Len(emitting) + 1}
      BY <2>1, <3>1
    <3> QED BY <2>1, <3>2
  <2>4. CASE UNCHANGED emitting
    BY <2>1, <2>4
  <2>5. CASE \E d \in Device :
               \/ Plug(d) \/ Unplug(d) \/ UsbDeviceAdded(d) \/ UsbDeviceRemoved(d)
               \/ AsyncDeviceInitDone(d) \/ TaskEnds(d)
               \/ \E t \in {"open", "close", "other"} : Call(d, t)
    BY <2>4, <2>5 DEF Plug, Unplug, UsbDeviceAdded, UsbDeviceRemoved, AsyncDeviceInitDone,
                      TaskEnds, Call, contextVars
  <2>6. CASE Enumerate \/ EnumerateReturns \/ Finalize
    BY <2>4, <2>6 DEF Enumerate, EnumerateReturns, Finalize, contextVars
  <2> QED BY <2>2, <2>3, <2>5, <2>6 DEF Next
<1>2. PendingInv => TypeOK
  BY DEF PendingInv
<1> QED BY <1>1, <1>2, Listing, PTL DEF Spec, RemovesWhatItAnnounced

(* The removal of a device that is still listed is never forgotten: the device   *)
(* runs the task it waits for, is open and has its handler connected, has a      *)
(* source, or is being announced; and nothing waits any more of a device that    *)
(* has left the list.                                                         *)
RemovalHasPlace ==
  alive => \A d \in is_removed :
    d \in Members(devices) <=> \/ d \in owed /\ task[d] # "none"
                               \/ d \in on_notify_open \cap is_open
                               \/ d \in Members(sources) \cup Announced

LEMMA Removing == ASSUME Nesting = 0 PROVE Spec => [](PendingInv /\ PlaceInv /\ ListInv /\ RemovalInv)
PROOF
<1>1. Init => RemovalInv
  BY DEF Init, RemovalInv
<1>2. PendingInv => TypeOK
  BY DEF PendingInv
<1>3. PendingInv /\ PlaceInv /\ ListInv /\ RemovalInv /\ [Next]_vars => RemovalInv'
  BY <1>2, RemovalSinks
<1> QED BY <1>1, <1>3, Listing, PTL DEF Spec

(* usb_device_removed_cb, fpi_device_remove and the task and close handlers pass   *)
(* the removal of a listed device on and never drop it.                        *)
THEOREM RemovalNotForgotten == ASSUME Nesting = 0 PROVE Spec => []RemovalHasPlace
PROOF
<1>1. RemovalInv => RemovalHasPlace
  BY DEF RemovalInv, RemovalHasPlace, Stage
<1> QED BY <1>1, Removing, PTL

(* A removal only gets on: whatever is plugged, probed, called, cancelled or     *)
(* removed meanwhile, no step takes it back to an earlier stage, and the list    *)
(* does not get the device back.  With the fairness of the main loop and of the  *)
(* client this is why a device that is removed leaves the list.                *)
RemovalGetsOn ==
  [][alive' => \A d \in is_removed : /\ Stage(d)' <= Stage(d)
                                     /\ d \in Members(devices') => d \in Members(devices)]_vars

(* The safety core of RemovedLeaves, for any number of devices.                 *)
THEOREM RemovalAdvances == ASSUME Nesting = 0 PROVE Spec => RemovalGetsOn
PROOF
<1> DEFINE A == alive' => \A d \in is_removed : /\ Stage(d)' <= Stage(d)
                                                /\ d \in Members(devices') => d \in Members(devices)
<1>1. PendingInv /\ PlaceInv /\ ListInv /\ RemovalInv /\ [Next]_vars => [A]_vars
  <2> SUFFICES ASSUME PendingInv, PlaceInv, ListInv, RemovalInv, [Next]_vars, alive',
                      NEW d \in is_removed
               PROVE  Stage(d)' <= Stage(d) /\ (d \in Members(devices') => d \in Members(devices))
    OBVIOUS
  <2>1. TypeOK /\ RemovalInv' /\ StagesSink
    BY RemovalSinks DEF PendingInv
  <2>2. Stage(d)' <= Stage(d) /\ Stage(d) \in Nat /\ Stage(d)' \in Nat
    BY <2>1 DEF StagesSink, Stage
  <2>3. alive /\ d \in is_removed'
    <3>1. alive
      BY DEF Next, vars, Plug, Unplug, UsbDeviceAdded, UsbDeviceRemoved, AsyncDeviceInitDone,
             TaskEnds, Call, Enumerate, EnumerateReturns, RemoveDevice, RemoveDeviceEnds, Finalize
    <3>2. is_removed \subseteq is_removed'
      BY DEF Next, vars, Plug, Unplug, UsbDeviceAdded, UsbDeviceRemoved, AsyncDeviceInitDone,
             TaskEnds, Call, Enumerate, EnumerateReturns, RemoveDevice, RemoveDeviceEnds, Finalize,
             deviceVars
    <3> QED BY <3>1, <3>2
  <2>4. d \in Members(devices') => Stage(d)' # 0
    BY <2>1, <2>3 DEF RemovalInv
  <2>5. d \in Members(devices') => Stage(d) # 0
    BY <2>2, <2>4
  <2> QED BY <2>2, <2>3, <2>5 DEF RemovalInv
<1> QED BY <1>1, Removing, PTL DEF Spec, RemovalGetsOn
=============================================================================
