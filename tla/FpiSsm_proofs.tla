----------------------------- MODULE FpiSsm_proofs -----------------------------
(* Proofs about FpiSsm for chains of any depth, any number of states and any  *)
(* jumps that do not leave a cleanup backwards.  The inductive invariant says *)
(* of each machine what it waits for, and that it waits for one thing only.   *)
EXTENDS FpiSsm, TLAPS

(* A machine that is not running, or whose code is on the stack, waits for    *)
(* nothing; a machine that waits does so for one thing.                       *)
Waits ==
  \A m \in Machine :
    /\ ~Running(m) => ~transfer[m] /\ timeout[m] = "no"
    /\ ~allocated[m] => ~Child(m) /\ stack[2] # m
    /\ stack[2] = m => ~transfer[m] /\ timeout[m] = "no" /\ ~Child(m)
    /\ stack = <<"handler", m>> => Running(m)
    /\ stack = <<"callback", m>> => allocated[m] /\ completed[m]
    /\ allocated[m] /\ completed[m] => stack = <<"callback", m>>
    /\ Child(m) => Running(m) /\ ~transfer[m] /\ timeout[m] = "no"
    /\ transfer[m] => timeout[m] = "no"
    /\ timeout[m] = "jump" => <<cur_state[m], target[m]>> \in Jumps[m]
    /\ Running(m) => cur_state[m] < NrStates[m]
    /\ Running(m) /\ error[m] # None => cur_state[m] >= StartCleanup[m]

Inv == TypeOK /\ error = first /\ Waits /\ NeverStalls

----------------------------------------------------------------------------

(* What moving machine m comes to: its timer is cleared and either its        *)
(* handler or its completion callback is entered.                             *)
Moved(m) ==
  /\ timeout' = [timeout EXCEPT ![m] = "no"]
  /\ \E s \in 0..NrStates[m] : cur_state' = [cur_state EXCEPT ![m] = s]
  /\ \E e \in Errors \cup {None} : error' = [error EXCEPT ![m] = e]
  /\ error[m] = None \/ error'[m] = error[m]
  /\ first' = error'
  /\ \E c \in SUBSET Nat : cleaned' = [cleaned EXCEPT ![m] = c]
  /\ \/ /\ stack' = <<"handler", m>> /\ completed' = completed
        /\ cur_state'[m] < NrStates[m]
        /\ cur_state[m] >= StartCleanup[m] => cur_state'[m] >= StartCleanup[m]
        /\ error'[m] # None => cur_state'[m] >= StartCleanup[m]
     \/ stack' = <<"callback", m>> /\ completed' = [completed EXCEPT ![m] = TRUE]

LEMMA Shapes ==
  ASSUME NEW m \in Machine
  PROVE  NrStates[m] \in Nat \ {0} /\ StartCleanup[m] \in Nat \ {0} /\ StartCleanup[m] <= NrStates[m]
  BY SsmAssumption

LEMMA RunningFacts ==
  ASSUME Inv, NEW m \in Machine, Running(m)
  PROVE  /\ cur_state[m] \in Nat /\ cur_state[m] < NrStates[m] /\ NrStates[m] \in Nat
         /\ StartCleanup[m] \in Nat
         /\ error[m] # None => cur_state[m] >= StartCleanup[m]
<1>1. cur_state[m] \in Nat
  BY DEF Inv, TypeOK
<1>2. cur_state[m] < NrStates[m]
  BY DEF Inv, Waits
<1>3. error[m] # None => cur_state[m] >= StartCleanup[m]
  BY DEF Inv, Waits
<1> QED  BY <1>1, <1>2, <1>3, Shapes

(* fpi_ssm_mark_completed from state s enters a cleanup state or completes.   *)
LEMMA CompleteFromEffect ==
  ASSUME TypeOK, NEW m \in Machine, NEW s \in 0..NrStates[m], CompleteFrom(m, s)
  PROVE  /\ \E c \in SUBSET Nat : cleaned' = [cleaned EXCEPT ![m] = c]
         /\ \E t \in 0..NrStates[m] : cur_state' = [cur_state EXCEPT ![m] = t]
         /\ \/ /\ stack' = <<"handler", m>> /\ completed' = completed
               /\ cur_state'[m] < NrStates[m] /\ cur_state'[m] >= StartCleanup[m]
            \/ stack' = <<"callback", m>> /\ completed' = [completed EXCEPT ![m] = TRUE]
<1> DEFINE next == IF s < StartCleanup[m] THEN StartCleanup[m] ELSE s + 1
<1>1. next \in Nat /\ next >= StartCleanup[m]
  BY Shapes
<1>2. CASE next < NrStates[m]
  <2>1. CallHandler(m, next)
    BY <1>2 DEF CompleteFrom
  <2>2. cur_state' = [cur_state EXCEPT ![m] = next] /\ cur_state'[m] = next
    BY <2>1 DEF CallHandler, TypeOK
  <2>3. cleaned' = [cleaned EXCEPT ![m] = cleaned[m] \cup {next}] /\ cleaned[m] \cup {next} \in SUBSET Nat
    BY <2>1, <1>1 DEF CallHandler, TypeOK
  <2>4. next \in 0..NrStates[m]
    BY <1>1, <1>2, Shapes
  <2> QED  BY <2>1, <2>2, <2>3, <2>4, <1>1, <1>2 DEF CallHandler
<1>3. CASE ~(next < NrStates[m])
  <2>1. CallCompleted(m, s)
    BY <1>3 DEF CompleteFrom
  <2>2. cleaned' = [cleaned EXCEPT ![m] = cleaned[m]] /\ cleaned[m] \in SUBSET Nat
    BY <2>1 DEF CallCompleted, TypeOK
  <2> QED  BY <2>1, <2>2 DEF CallCompleted, TypeOK
<1> QED  BY <1>2, <1>3

LEMMA EnterEffect ==
  ASSUME TypeOK, error = first, NEW m \in Machine, NEW s \in 0..NrStates[m], Enter(m, s),
         error[m] # None => s >= StartCleanup[m],
         cur_state[m] >= StartCleanup[m] => s >= StartCleanup[m]
  PROVE  Moved(m)
<1>1. timeout' = [timeout EXCEPT ![m] = "no"] /\ first' = error' /\ error' = [error EXCEPT ![m] = error[m]]
  BY DEF Enter, ClearDelayed, TypeOK
<1>2. error[m] \in Errors \cup {None} /\ error'[m] = error[m]
  BY <1>1 DEF TypeOK
<1>3. CASE s = NrStates[m]
  BY <1>1, <1>2, <1>3, CompleteFromEffect DEF Enter, Moved
<1>4. CASE s # NrStates[m]
  <2>1. CallHandler(m, s)
    BY <1>4 DEF Enter
  <2>2. cur_state' = [cur_state EXCEPT ![m] = s] /\ cur_state'[m] = s /\ s < NrStates[m]
    BY <2>1, <1>4, Shapes DEF CallHandler, TypeOK
  <2> DEFINE c == IF s >= StartCleanup[m] THEN cleaned[m] \cup {s} ELSE {}
  <2>3. cleaned' = [cleaned EXCEPT ![m] = c] /\ c \in SUBSET Nat
    BY <2>1 DEF CallHandler, TypeOK
  <2> HIDE DEF c
  <2> QED  BY <1>1, <1>2, <2>1, <2>2, <2>3 DEF CallHandler, Moved
<1> QED  BY <1>3, <1>4

LEMMA MarkCompletedEffect ==
  ASSUME Inv, NEW m \in Machine, Running(m), MarkCompleted(m)
  PROVE  Moved(m)
<1>1. timeout' = [timeout EXCEPT ![m] = "no"] /\ first' = error' /\ error' = [error EXCEPT ![m] = error[m]]
  BY DEF Inv, MarkCompleted, ClearDelayed, TypeOK
<1>2. error[m] \in Errors \cup {None} /\ cur_state[m] \in 0..NrStates[m]
  BY Shapes DEF Inv, TypeOK
<1> QED  BY <1>1, <1>2, CompleteFromEffect DEF Inv, MarkCompleted, Moved

LEMMA MarkFailedEffect ==
  ASSUME Inv, NEW m \in Machine, Running(m), NEW e \in Errors, MarkFailed(m, e)
  PROVE  Moved(m) /\ error'[m] # None
<1>1. ~(error[m] # None /\ cur_state[m] < StartCleanup[m])
  BY RunningFacts
<1>2. /\ error' = [error EXCEPT ![m] = IF @ = None THEN e ELSE @]
      /\ first' = [first EXCEPT ![m] = IF @ = None THEN e ELSE @]
      /\ CompleteFrom(m, cur_state[m]) /\ ClearDelayed(m)
  BY <1>1 DEF MarkFailed
<1>3. timeout' = [timeout EXCEPT ![m] = "no"] /\ first' = error'
  BY <1>2 DEF Inv, ClearDelayed
<1>4. cur_state[m] \in 0..NrStates[m]
  BY Shapes DEF Inv, TypeOK
<1>5. \E x \in Errors \cup {None} : error' = [error EXCEPT ![m] = x]
  BY <1>2 DEF Inv, TypeOK
<1>6. error'[m] # None /\ (error[m] = None \/ error'[m] = error[m])
  BY <1>2, SsmAssumption DEF Inv, TypeOK
<1> QED  BY <1>2, <1>3, <1>4, <1>5, <1>6, CompleteFromEffect DEF Inv, Moved

LEMMA NextStateEffect ==
  ASSUME Inv, NEW m \in Machine, Running(m), NextState(m)
  PROVE  Moved(m)
<1>1. cur_state[m] \in Nat /\ cur_state[m] + 1 \in 0..NrStates[m]
  BY RunningFacts
<1>2. /\ error[m] # None => cur_state[m] + 1 >= StartCleanup[m]
      /\ cur_state[m] >= StartCleanup[m] => cur_state[m] + 1 >= StartCleanup[m]
  BY RunningFacts
<1> QED  BY <1>1, <1>2, EnterEffect DEF NextState, Inv

LEMMA JumpEffect ==
  ASSUME Inv, NEW m \in Machine, Running(m), NEW t, <<cur_state[m], t>> \in Jumps[m], Enter(m, t)
  PROVE  Moved(m)
<1>1. t \in Nat /\ t <= NrStates[m]
  BY SsmAssumption
<1>2. cur_state[m] >= StartCleanup[m] => t >= StartCleanup[m]
  BY CleanupAssumption
<1>3. error[m] # None => t >= StartCleanup[m]
  BY <1>2 DEF Inv, Waits
<1> QED  BY <1>1, <1>2, <1>3, EnterEffect, Shapes DEF Inv

----------------------------------------------------------------------------
(* A move keeps the invariant, whoever makes it: the machine itself, or the   *)
(* completion of its child, which is freed.                                   *)
LEMMA MovedKeeps ==
  ASSUME Inv, NEW m \in Machine, Running(m), Moved(m), target' = target,
         transfer' = [transfer EXCEPT ![m] = FALSE],
         \/ /\ ~Child(m) /\ allocated' = allocated
            /\ stack = <<"loop", 0>> \/ stack = <<"handler", m>>
         \/ /\ m < Depth /\ stack = <<"callback", m + 1>>
            /\ allocated' = [allocated EXCEPT ![m + 1] = FALSE]
  PROVE  Inv'
<1>a. m \in Nat /\ Depth \in Nat /\ Machine = 1..Depth
  BY SsmAssumption DEF Machine
<1>1. TypeOK'
  <2>1. allocated' \in [Machine -> BOOLEAN] /\ transfer' \in [Machine -> BOOLEAN]
    BY DEF Inv, TypeOK
  <2>2. completed' \in [Machine -> BOOLEAN]
    BY DEF Inv, TypeOK, Moved
  <2>3. cur_state' \in [Machine -> Nat] /\ \A k \in Machine : cur_state'[k] <= NrStates[k]
    BY Shapes DEF Inv, TypeOK, Moved
  <2>4. error' \in [Machine -> Errors \cup {None}] /\ first' \in [Machine -> Errors \cup {None}]
    BY DEF Inv, TypeOK, Moved
  <2>5. timeout' \in [Machine -> Delayed \cup {"no"}] /\ target' \in [Machine -> Nat]
    BY DEF Inv, TypeOK, Moved
  <2>6. stack' \in {"handler", "callback"} \X Machine /\ cleaned' \in [Machine -> SUBSET Nat]
    BY DEF Inv, TypeOK, Moved
  <2> QED  BY <2>1, <2>2, <2>3, <2>4, <2>5, <2>6 DEF TypeOK
<1>2. (error = first)'
  BY DEF Moved
<1>3. stack'[2] = m /\ stack' # <<"loop", 0>>
  BY SsmAssumption DEF Moved, Machine
<1>4. ~Child(m)' /\ allocated'[m] /\ ~transfer'[m] /\ timeout'[m] = "no"
  <2>1. ~transfer'[m] /\ timeout'[m] = "no"
    BY DEF Moved, Inv, TypeOK
  <2>2. allocated'[m]
    <3>1. allocated' = allocated \/ allocated' = [allocated EXCEPT ![m + 1] = FALSE]
      OBVIOUS
    <3>2. allocated[m] /\ m + 1 # m
      BY <1>a DEF Running
    <3> QED  BY <3>1, <3>2 DEF Inv, TypeOK
  <2>3. ~Child(m)'
    BY <1>a DEF Child, Inv, TypeOK
  <2> QED  BY <2>1, <2>2, <2>3
<1>5. ASSUME NEW k \in Machine, k # m
      PROVE  /\ transfer'[k] = transfer[k] /\ timeout'[k] = timeout[k] /\ completed'[k] = completed[k]
             /\ cur_state'[k] = cur_state[k] /\ error'[k] = error[k] /\ stack'[2] # k
  BY <1>3, <1>5 DEF Moved, Inv, TypeOK
<1>6. Waits'
  <2> SUFFICES ASSUME NEW k \in Machine
               PROVE  /\ ~Running(k)' => ~transfer'[k] /\ timeout'[k] = "no"
                      /\ ~allocated'[k] => ~Child(k)' /\ stack'[2] # k
                      /\ stack'[2] = k => ~transfer'[k] /\ timeout'[k] = "no" /\ ~Child(k)'
                      /\ stack' = <<"handler", k>> => Running(k)'
                      /\ stack' = <<"callback", k>> => allocated'[k] /\ completed'[k]
                      /\ allocated'[k] /\ completed'[k] => stack' = <<"callback", k>>
                      /\ Child(k)' => Running(k)' /\ ~transfer'[k] /\ timeout'[k] = "no"
                      /\ transfer'[k] => timeout'[k] = "no"
                      /\ timeout'[k] = "jump" => <<cur_state'[k], target'[k]>> \in Jumps[k]
                      /\ Running(k)' => cur_state'[k] < NrStates[k]
                      /\ Running(k)' /\ error'[k] # None => cur_state'[k] >= StartCleanup[k]
    BY DEF Waits, Running, Child
  <2>1. CASE k = m
    <3>1. allocated'[k] /\ ~Child(k)' /\ ~transfer'[k] /\ timeout'[k] = "no" /\ stack'[2] = k
      BY <1>3, <1>4, <2>1
    <3>2. CASE stack' = <<"handler", m>> /\ completed' = completed /\ cur_state'[m] < NrStates[m]
               /\ (error'[m] # None => cur_state'[m] >= StartCleanup[m])
      BY <3>1, <3>2, <2>1 DEF Running
    <3>3. CASE stack' = <<"callback", m>> /\ completed' = [completed EXCEPT ![m] = TRUE]
      BY <3>1, <3>3, <2>1 DEF Running, Inv, TypeOK
    <3> QED  BY <3>2, <3>3 DEF Moved
  <2>2. CASE k # m
    <3>1. CASE allocated' = allocated /\ (stack = <<"loop", 0>> \/ stack = <<"handler", m>>)
      <4>1. stack # <<"callback", k>> /\ stack # <<"handler", k>>
        BY <3>1, <2>2
      <4>2. Child(k)' = Child(k)
        BY <3>1 DEF Child
      <4> QED  BY <1>5, <2>2, <3>1, <4>1, <4>2 DEF Inv, Waits, Running
    <3>2. CASE m < Depth /\ stack = <<"callback", m + 1>> /\ allocated' = [allocated EXCEPT ![m + 1] = FALSE]
      <4>1. m + 1 \in Machine /\ m \in Nat /\ Depth \in Nat /\ k \in Nat
        BY <3>2, SsmAssumption DEF Machine
      <4>2. ~Child(m + 1) /\ ~transfer[m + 1] /\ timeout[m + 1] = "no"
        BY <3>2, <4>1 DEF Inv, Waits
      <4>3. CASE k = m + 1
        <5>1. ~allocated'[k] /\ ~Child(k)'
          BY <3>2, <4>1, <4>2, <4>3 DEF Child, Inv, TypeOK, Machine
        <5> QED  BY <1>3, <1>5, <2>2, <4>2, <4>3, <5>1 DEF Running, Inv, TypeOK
      <4>4. CASE k # m + 1
        <5>1. allocated'[k] = allocated[k] /\ stack # <<"callback", k>>
          BY <3>2, <4>1, <4>4 DEF Inv, TypeOK
        <5>2. Child(k)' = Child(k)
          BY <3>2, <4>1, <2>2 DEF Child, Inv, TypeOK, Machine
        <5> QED  BY <1>5, <2>2, <4>4, <5>1, <5>2 DEF Inv, Waits, Running
      <4> QED  BY <4>3, <4>4
    <3> QED  BY <3>1, <3>2
  <2> QED  BY <2>1, <2>2
<1>7. NeverStalls'
  <2> SUFFICES ASSUME NEW k \in Machine, Running(k)'
               PROVE  stack' = <<"handler", k>> \/ transfer'[k] \/ timeout'[k] # "no" \/ Child(k)'
    BY DEF NeverStalls, Running, Child
  <2>1. CASE k = m
    BY <2>1 DEF Moved, Running, Inv, TypeOK
  <2>2. CASE k # m
    <3>1. Running(k)
      BY <1>5, <2>2 DEF Running, Inv, TypeOK
    <3>2. Child(k)' = Child(k)
      <4>1. allocated' = allocated \/ allocated' = [allocated EXCEPT ![m + 1] = FALSE]
        OBVIOUS
      <4>2. k \in Nat /\ k + 1 # m + 1
        BY <1>a, <2>2
      <4>3. k < Depth => k + 1 \in Machine
        BY <1>a, <4>2
      <4>4. k < Depth => allocated'[k + 1] = allocated[k + 1]
        BY <4>1, <4>2, <4>3 DEF Inv, TypeOK
      <4> QED  BY <4>4 DEF Child
    <3>3. stack # <<"handler", k>>
      BY <2>2
    <3> QED  BY <1>5, <2>2, <3>1, <3>2, <3>3 DEF Inv, NeverStalls
  <2> QED  BY <2>1, <2>2
<1> QED  BY <1>1, <1>2, <1>6, <1>7 DEF Inv

(* Starting machine m, from the main loop or from the handler, the transfer   *)
(* or the timer of its parent.                                                *)
LEMMA StartKeeps ==
  ASSUME Inv, NEW m \in Machine, Start(m), ~allocated[m], target' = target,
         \/ m = 1 /\ stack = <<"loop", 0>> /\ timeout' = timeout /\ transfer' = transfer
         \/ /\ m > 1 /\ Running(m - 1)
            /\ stack = <<"loop", 0>> \/ stack = <<"handler", m - 1>>
            /\ timeout' = [k \in Machine |-> IF k \in {m - 1, m} THEN "no" ELSE timeout[k]]
            /\ transfer' = [transfer EXCEPT ![m - 1] = FALSE]
  PROVE  Inv'
<1>a. m \in Nat /\ m >= 1 /\ Depth \in Nat /\ Machine = 1..Depth /\ m <= Depth
  BY SsmAssumption DEF Machine
<1>1. /\ allocated' = [allocated EXCEPT ![m] = TRUE] /\ completed' = [completed EXCEPT ![m] = FALSE]
      /\ cur_state' = [cur_state EXCEPT ![m] = 0]
      /\ error' = [error EXCEPT ![m] = None] /\ first' = [first EXCEPT ![m] = None]
      /\ stack' = <<"handler", m>> /\ cleaned' = [cleaned EXCEPT ![m] = {}]
  BY DEF Start
<1>2. ~Child(m) /\ ~transfer[m] /\ timeout[m] = "no"
  BY DEF Inv, Waits, Running
<1>3. TypeOK'
  <2>1. timeout' \in [Machine -> Delayed \cup {"no"}] /\ transfer' \in [Machine -> BOOLEAN]
    BY DEF Inv, TypeOK
  <2>2. cur_state' \in [Machine -> Nat] /\ \A k \in Machine : cur_state'[k] <= NrStates[k]
    BY <1>1, Shapes DEF Inv, TypeOK
  <2>3. stack' \in {"handler", "callback"} \X Machine
    BY <1>1
  <2> QED  BY <1>1, <2>1, <2>2, <2>3 DEF Inv, TypeOK
<1>4. (error = first)'
  BY <1>1 DEF Inv
<1>5. /\ allocated'[m] /\ ~completed'[m] /\ cur_state'[m] = 0 /\ error'[m] = None
      /\ ~transfer'[m] /\ timeout'[m] = "no" /\ ~Child(m)'
  <2>1. allocated'[m] /\ ~completed'[m] /\ cur_state'[m] = 0 /\ error'[m] = None
    BY <1>1 DEF Inv, TypeOK
  <2>2. ~transfer'[m] /\ timeout'[m] = "no"
    BY <1>2, <1>a DEF Inv, TypeOK
  <2>3. ~Child(m)'
    BY <1>1, <1>2, <1>a DEF Child, Inv, TypeOK
  <2> QED  BY <2>1, <2>2, <2>3
<1>6. ASSUME NEW k \in Machine, k # m
      PROVE  /\ allocated'[k] = allocated[k] /\ completed'[k] = completed[k]
             /\ cur_state'[k] = cur_state[k] /\ error'[k] = error[k] /\ stack'[2] # k
             /\ k # m - 1 => Child(k)' = Child(k) /\ transfer'[k] = transfer[k] /\ timeout'[k] = timeout[k]
             /\ k = m - 1 => Running(k) /\ ~transfer'[k] /\ timeout'[k] = "no" /\ Child(k)'
  <2>1. /\ allocated'[k] = allocated[k] /\ completed'[k] = completed[k]
        /\ cur_state'[k] = cur_state[k] /\ error'[k] = error[k] /\ stack'[2] # k
    BY <1>1, <1>6 DEF Inv, TypeOK
  <2>2. ASSUME k # m - 1 PROVE Child(k)' = Child(k) /\ transfer'[k] = transfer[k] /\ timeout'[k] = timeout[k]
    <3>1. k \in Nat /\ k + 1 # m /\ (k < Depth => k + 1 \in Machine)
      BY <1>a, <2>2
    <3>2. Child(k)' = Child(k)
      BY <1>1, <3>1 DEF Child, Inv, TypeOK
    <3>3. transfer'[k] = transfer[k]
      BY <2>2 DEF Inv, TypeOK
    <3>4. timeout'[k] = timeout[k]
      BY <1>6, <2>2
    <3> QED  BY <3>2, <3>3, <3>4
  <2>3. ASSUME k = m - 1 PROVE Running(k) /\ ~transfer'[k] /\ timeout'[k] = "no" /\ Child(k)'
    <3>1. m > 1 /\ k + 1 = m /\ k < Depth
      BY <1>a, <2>3
    <3>2. Running(k) /\ ~transfer'[k] /\ timeout'[k] = "no"
      BY <2>3, <3>1 DEF Inv, TypeOK
    <3> QED  BY <1>5, <3>1, <3>2 DEF Child
  <2> QED  BY <2>1, <2>2, <2>3
<1>7. ASSUME NEW k \in Machine, k # m PROVE stack # <<"callback", k>> /\ (stack = <<"handler", k>> => k = m - 1)
  OBVIOUS
<1>8. Waits'
  <2> SUFFICES ASSUME NEW k \in Machine
               PROVE  /\ ~Running(k)' => ~transfer'[k] /\ timeout'[k] = "no"
                      /\ ~allocated'[k] => ~Child(k)' /\ stack'[2] # k
                      /\ stack'[2] = k => ~transfer'[k] /\ timeout'[k] = "no" /\ ~Child(k)'
                      /\ stack' = <<"handler", k>> => Running(k)'
                      /\ stack' = <<"callback", k>> => allocated'[k] /\ completed'[k]
                      /\ allocated'[k] /\ completed'[k] => stack' = <<"callback", k>>
                      /\ Child(k)' => Running(k)' /\ ~transfer'[k] /\ timeout'[k] = "no"
                      /\ transfer'[k] => timeout'[k] = "no"
                      /\ timeout'[k] = "jump" => <<cur_state'[k], target'[k]>> \in Jumps[k]
                      /\ Running(k)' => cur_state'[k] < NrStates[k]
                      /\ Running(k)' /\ error'[k] # None => cur_state'[k] >= StartCleanup[k]
    BY DEF Waits, Running, Child
  <2>1. CASE k = m
    BY <1>1, <1>5, <2>1, Shapes DEF Running
  <2>2. CASE k # m /\ k # m - 1
    BY <1>1, <1>6, <1>7, <2>2 DEF Inv, Waits, Running
  <2>3. CASE k # m /\ k = m - 1
    BY <1>1, <1>6, <1>7, <2>3 DEF Inv, Waits, Running
  <2> QED  BY <2>1, <2>2, <2>3
<1>9. NeverStalls'
  <2> SUFFICES ASSUME NEW k \in Machine, Running(k)'
               PROVE  stack' = <<"handler", k>> \/ transfer'[k] \/ timeout'[k] # "no" \/ Child(k)'
    BY DEF NeverStalls, Running, Child
  <2>1. CASE k = m
    BY <1>1, <2>1
  <2>2. CASE k # m
    BY <1>6, <1>7, <2>2 DEF Inv, NeverStalls, Running
  <2> QED  BY <2>1, <2>2
<1> QED  BY <1>3, <1>4, <1>8, <1>9 DEF Inv

(* The machine is left waiting in the main loop for its timer or a transfer.  *)
LEMMA WaitKeeps ==
  ASSUME Inv, NEW m \in Machine, Running(m), ~Child(m),
         stack = <<"loop", 0>> \/ stack = <<"handler", m>>, stack' = <<"loop", 0>>,
         UNCHANGED <<allocated, cur_state, completed, error, first, cleaned>>,
         \/ /\ \E d \in Delayed : timeout' = [timeout EXCEPT ![m] = d]
            /\ transfer' = [transfer EXCEPT ![m] = FALSE]
            /\ timeout'[m] # "jump" /\ target' = target
         \/ /\ timeout' = [timeout EXCEPT ![m] = "jump"]
            /\ transfer' = [transfer EXCEPT ![m] = FALSE]
            /\ \E t : <<cur_state[m], t>> \in Jumps[m] /\ target' = [target EXCEPT ![m] = t]
         \/ /\ timeout' = [timeout EXCEPT ![m] = "no"]
            /\ transfer' = [transfer EXCEPT ![m] = TRUE] /\ target' = target
  PROVE  Inv'
<1>1. TypeOK'
  <2>1. target' \in [Machine -> Nat]
    <3>1. ASSUME NEW t, <<cur_state[m], t>> \in Jumps[m] PROVE t \in Nat
      BY <3>1, SsmAssumption
    <3>2. target' = target \/ \E t \in Nat : target' = [target EXCEPT ![m] = t]
      BY <3>1
    <3> QED  BY <3>2 DEF Inv, TypeOK
  <2> QED  BY <2>1 DEF Inv, TypeOK, Delayed
<1>2. /\ transfer'[m] => timeout'[m] = "no"
      /\ transfer'[m] \/ timeout'[m] # "no"
      /\ timeout'[m] = "jump" => <<cur_state'[m], target'[m]>> \in Jumps[m]
  BY DEF Inv, TypeOK, Delayed
<1>3. ASSUME NEW k \in Machine, k # m
      PROVE  transfer'[k] = transfer[k] /\ timeout'[k] = timeout[k] /\ target'[k] = target[k]
  BY <1>3 DEF Inv, TypeOK
<1>4. \A k \in Machine : (Running(k) <=> Running(k)') /\ (Child(k) <=> Child(k)')
  BY DEF Running, Child
<1>5. \A k \in Machine : k # 0 /\ stack'[2] # k
  BY SsmAssumption DEF Machine
<1>6. Waits'
  <2> SUFFICES ASSUME NEW k \in Machine
               PROVE  /\ ~Running(k)' => ~transfer'[k] /\ timeout'[k] = "no"
                      /\ ~allocated'[k] => ~Child(k)' /\ stack'[2] # k
                      /\ stack'[2] = k => ~transfer'[k] /\ timeout'[k] = "no" /\ ~Child(k)'
                      /\ stack' = <<"handler", k>> => Running(k)'
                      /\ stack' = <<"callback", k>> => allocated'[k] /\ completed'[k]
                      /\ allocated'[k] /\ completed'[k] => stack' = <<"callback", k>>
                      /\ Child(k)' => Running(k)' /\ ~transfer'[k] /\ timeout'[k] = "no"
                      /\ transfer'[k] => timeout'[k] = "no"
                      /\ timeout'[k] = "jump" => <<cur_state'[k], target'[k]>> \in Jumps[k]
                      /\ Running(k)' => cur_state'[k] < NrStates[k]
                      /\ Running(k)' /\ error'[k] # None => cur_state'[k] >= StartCleanup[k]
    BY DEF Waits, Running, Child
  <2>1. CASE k = m
    BY <1>2, <1>4, <1>5, <2>1 DEF Inv, Waits, Running
  <2>2. CASE k # m
    BY <1>3, <1>4, <1>5, <2>2 DEF Inv, Waits, Running
  <2> QED  BY <2>1, <2>2
<1>7. NeverStalls'
  <2> SUFFICES ASSUME NEW k \in Machine, Running(k)'
               PROVE  transfer'[k] \/ timeout'[k] # "no" \/ Child(k)'
    BY DEF NeverStalls, Running, Child
  <2>1. CASE k = m
    BY <1>2, <2>1
  <2>2. CASE k # m
    BY <1>3, <1>4, <2>2 DEF Inv, NeverStalls
  <2> QED  BY <2>1, <2>2
<1> QED  BY <1>1, <1>6, <1>7 DEF Inv

(* The root is freed after its callback.                                      *)
LEMMA RootFreed ==
  ASSUME Inv, Callback(1)
  PROVE  Inv'
<1>1. /\ stack = <<"callback", 1>> /\ stack' = <<"loop", 0>>
      /\ allocated' = [allocated EXCEPT ![1] = FALSE]
      /\ UNCHANGED <<cur_state, completed, error, timeout, target, transfer, first, cleaned>>
  BY DEF Callback
<1>2. 1 \in Machine /\ (\A k \in Machine : k \in Nat /\ k # 0 /\ stack'[2] # k)
  BY <1>1, SsmAssumption DEF Machine
<1>3. ~Child(1) /\ ~transfer[1] /\ timeout[1] = "no" /\ allocated[1] /\ completed[1]
  BY <1>1, <1>2 DEF Inv, Waits
<1>4. TypeOK'
  BY <1>1 DEF Inv, TypeOK
<1>5. ~allocated'[1] /\ ~Child(1)'
  BY <1>1, <1>2, <1>3 DEF Child, Inv, TypeOK, Machine
<1>6. ASSUME NEW k \in Machine, k # 1 PROVE allocated'[k] = allocated[k] /\ Child(k)' = Child(k)
  BY <1>1, <1>2, <1>6 DEF Child, Inv, TypeOK, Machine
<1>7. Waits'
  <2> SUFFICES ASSUME NEW k \in Machine
               PROVE  /\ ~Running(k)' => ~transfer'[k] /\ timeout'[k] = "no"
                      /\ ~allocated'[k] => ~Child(k)' /\ stack'[2] # k
                      /\ stack'[2] = k => ~transfer'[k] /\ timeout'[k] = "no" /\ ~Child(k)'
                      /\ stack' = <<"handler", k>> => Running(k)'
                      /\ stack' = <<"callback", k>> => allocated'[k] /\ completed'[k]
                      /\ allocated'[k] /\ completed'[k] => stack' = <<"callback", k>>
                      /\ Child(k)' => Running(k)' /\ ~transfer'[k] /\ timeout'[k] = "no"
                      /\ transfer'[k] => timeout'[k] = "no"
                      /\ timeout'[k] = "jump" => <<cur_state'[k], target'[k]>> \in Jumps[k]
                      /\ Running(k)' => cur_state'[k] < NrStates[k]
                      /\ Running(k)' /\ error'[k] # None => cur_state'[k] >= StartCleanup[k]
    BY DEF Waits, Running, Child
  <2>1. CASE k = 1
    BY <1>1, <1>2, <1>3, <1>5, <2>1 DEF Running
  <2>2. CASE k # 1
    BY <1>1, <1>2, <1>6, <2>2 DEF Inv, Waits, Running
  <2> QED  BY <2>1, <2>2
<1>8. NeverStalls'
  <2> SUFFICES ASSUME NEW k \in Machine, Running(k)'
               PROVE  transfer'[k] \/ timeout'[k] # "no" \/ Child(k)'
    BY DEF NeverStalls, Running, Child
  <2>1. k # 1 /\ Running(k)
    BY <1>1, <1>5, <1>6 DEF Running
  <2> QED  BY <1>1, <1>6, <2>1 DEF Inv, NeverStalls
<1> QED  BY <1>1, <1>4, <1>7, <1>8 DEF Inv

----------------------------------------------------------------------------
(* The steps.                                                                 *)

(* Whatever the driver calls on a machine it may move.                        *)
LEMMA MovesKeeps ==
  ASSUME Inv, NEW m \in Machine, Running(m), ~Child(m), Moves(m),
         stack = <<"loop", 0>> \/ stack = <<"handler", m>>,
         transfer' = [transfer EXCEPT ![m] = FALSE]
  PROVE  Inv'
<1>1. CASE StartSubsm(m) /\ UNCHANGED target
  <2>1. /\ m < Depth /\ ~allocated[m + 1] /\ Start(m + 1)
        /\ timeout' = [k \in Machine |-> IF k \in {m, m + 1} THEN "no" ELSE timeout[k]]
    BY <1>1 DEF StartSubsm
  <2>2. m + 1 \in Machine /\ m + 1 > 1 /\ (m + 1) - 1 = m
    BY <2>1, SsmAssumption DEF Machine
  <2> DEFINE n == m + 1
  <2>3. n \in Machine /\ n > 1 /\ n - 1 = m
    BY <2>2
  <2>4. timeout' = [k \in Machine |-> IF k \in {n - 1, n} THEN "no" ELSE timeout[k]]
    BY <2>1, <2>3
  <2>5. Start(n) /\ ~allocated[n]
    BY <2>1
  <2> HIDE DEF n
  <2> QED  BY <1>1, <2>3, <2>4, <2>5, StartKeeps
<1>2. CASE /\ NextState(m) \/ JumpToState(m) \/ MarkCompleted(m) \/ \E e \in Errors : MarkFailed(m, e)
           /\ UNCHANGED <<allocated, target>>
  <2>1. CASE JumpToState(m)
    <3>1. PICK j \in Jumps[m] : j[1] = cur_state[m] /\ Enter(m, j[2])
      BY <2>1 DEF JumpToState
    <3>2. j = <<cur_state[m], j[2]>>
      BY <3>1, SsmAssumption
    <3> QED  BY <3>1, <3>2, JumpEffect, <1>2, MovedKeeps
  <2>2. CASE NextState(m) \/ MarkCompleted(m) \/ \E e \in Errors : MarkFailed(m, e)
    <3>1. Moved(m)
      BY <2>2, NextStateEffect, MarkCompletedEffect, MarkFailedEffect
    <3> QED  BY <3>1, <1>2, MovedKeeps
  <2> QED  BY <1>2, <2>1, <2>2
<1> QED  BY <1>1, <1>2 DEF Moves

LEMMA DelayKeeps ==
  ASSUME Inv, NEW m \in Machine, Running(m), ~Child(m), Delay(m),
         stack = <<"loop", 0>> \/ stack = <<"handler", m>>,
         transfer' = [transfer EXCEPT ![m] = FALSE]
  PROVE  Inv'
<1>1. stack' = <<"loop", 0>> /\ UNCHANGED <<allocated, cur_state, completed, error, first, cleaned>>
  BY DEF Delay
<1>2. CASE timeout' \in {[timeout EXCEPT ![m] = d] : d \in {"next", "complete"}} /\ UNCHANGED target
  <2>1. PICK d \in {"next", "complete"} : timeout' = [timeout EXCEPT ![m] = d]
    BY <1>2
  <2>2. d \in Delayed /\ timeout'[m] # "jump"
    BY <2>1 DEF Delayed, Inv, TypeOK
  <2> QED  BY <1>1, <1>2, <2>1, <2>2, WaitKeeps
<1>3. CASE \E j \in Jumps[m] :
             /\ j[1] = cur_state[m]
             /\ timeout' = [timeout EXCEPT ![m] = "jump"]
             /\ target' = [target EXCEPT ![m] = j[2]]
  <2>1. PICK j \in Jumps[m] : /\ j[1] = cur_state[m] /\ timeout' = [timeout EXCEPT ![m] = "jump"]
                              /\ target' = [target EXCEPT ![m] = j[2]]
    BY <1>3
  <2>2. <<cur_state[m], j[2]>> \in Jumps[m]
    BY <2>1, SsmAssumption
  <2> QED  BY <1>1, <2>1, <2>2, WaitKeeps
<1> QED  BY <1>2, <1>3 DEF Delay

LEMMA CallbackKeeps ==
  ASSUME Inv, NEW m \in Machine, Callback(m)
  PROVE  Inv' /\ (m > 1 /\ error[m] # None => error'[m - 1] # None)
<1>a. m \in Nat /\ Depth \in Nat /\ Machine = 1..Depth
  BY SsmAssumption DEF Machine
<1>1. CASE m = 1
  BY <1>1, RootFreed
<1>2. CASE m > 1
  <2> DEFINE p == m - 1
  <2>1. p \in Machine /\ p < Depth /\ m = p + 1
    BY <1>a, <1>2
  <2>2. /\ stack = <<"callback", m>> /\ allocated' = [allocated EXCEPT ![m] = FALSE]
        /\ SubsmComplete(m) /\ UNCHANGED <<target, transfer>>
    BY <1>2 DEF Callback
  <2>3. allocated[m]
    BY <2>2 DEF Inv, Waits
  <2>4. Child(p)
    BY <2>1, <2>3 DEF Child
  <2>5. Running(p) /\ ~transfer[p]
    BY <2>1, <2>4 DEF Inv, Waits
  <2>6. transfer' = [transfer EXCEPT ![p] = FALSE]
    BY <2>1, <2>2, <2>5 DEF Inv, TypeOK
  <2>7. Moved(p) /\ (error[m] # None => error'[p] # None)
    <3>1. CASE error[m] # None
      <4>1. error[m] \in Errors /\ MarkFailed(p, error[m])
        BY <2>2, <3>1 DEF SubsmComplete, Inv, TypeOK
      <4> QED  BY <2>1, <2>5, <4>1, MarkFailedEffect
    <3>2. CASE error[m] = None
      BY <2>1, <2>2, <2>5, <3>2, NextStateEffect DEF SubsmComplete
    <3> QED  BY <3>1, <3>2
  <2> HIDE DEF p
  <2>8. Inv'
    BY <2>1, <2>2, <2>5, <2>6, <2>7, MovedKeeps
  <2>9. m - 1 = p
    BY <2>1, <1>a DEF p
  <2> QED  BY <2>7, <2>8, <2>9
<1> QED  BY <1>a, <1>1, <1>2

LEMMA InvInit == Init => Inv
<1> SUFFICES ASSUME Init PROVE Inv
  OBVIOUS
<1>1. \A k \in Machine : k # 0
  BY SsmAssumption DEF Machine
<1>2. TypeOK
  BY Shapes DEF Init, TypeOK
<1>3. \A k \in Machine : ~Running(k) /\ ~Child(k) /\ stack[2] # k
  BY <1>1, SsmAssumption DEF Init, Running, Child, Machine
<1>4. Waits
  BY <1>3 DEF Waits, Init
<1> QED  BY <1>2, <1>3, <1>4 DEF Init, Inv, NeverStalls

LEMMA InvStep == Inv /\ [Next]_vars => Inv'
<1> SUFFICES ASSUME Inv, [Next]_vars PROVE Inv'
  OBVIOUS
<1>1. ASSUME StartRoot PROVE Inv'
  <2>1. 1 \in Machine
    BY SsmAssumption DEF Machine
  <2> QED  BY <1>1, <2>1, StartKeeps DEF StartRoot
<1>2. ASSUME NEW m \in Machine, Handler(m) PROVE Inv'
  <2>1. stack = <<"handler", m>> /\ Running(m) /\ ~Child(m) /\ ~transfer[m] /\ timeout[m] = "no"
    BY <1>2 DEF Handler, Inv, Waits
  <2>2. CASE (Moves(m) \/ Delay(m)) /\ UNCHANGED transfer
    <3>1. transfer' = [transfer EXCEPT ![m] = FALSE]
      BY <2>1, <2>2 DEF Inv, TypeOK
    <3> QED  BY <2>1, <2>2, <3>1, MovesKeeps, DelayKeeps
  <2>3. CASE /\ transfer' = [transfer EXCEPT ![m] = TRUE] /\ stack' = <<"loop", 0>>
             /\ UNCHANGED <<allocated, cur_state, completed, error, timeout, target, first, cleaned>>
    <3>1. timeout' = [timeout EXCEPT ![m] = "no"]
      BY <2>1, <2>3 DEF Inv, TypeOK
    <3> QED  BY <2>1, <2>3, <3>1, WaitKeeps
  <2> QED  BY <1>2, <2>2, <2>3 DEF Handler
<1>3. ASSUME NEW m \in Machine, TransferDone(m) PROVE Inv'
  <2>1. stack = <<"loop", 0>> /\ Running(m) /\ ~Child(m) /\ transfer' = [transfer EXCEPT ![m] = FALSE]
    BY <1>3 DEF TransferDone, Inv, Waits
  <2> QED  BY <1>3, <2>1, MovesKeeps, DelayKeeps DEF TransferDone
<1>4. ASSUME NEW m \in Machine, TimeoutFires(m) PROVE Inv'
  <2>1. stack = <<"loop", 0>> /\ Running(m) /\ ~Child(m) /\ ~transfer[m] /\ UNCHANGED <<allocated, target, transfer>>
    BY <1>4 DEF TimeoutFires, Inv, Waits
  <2>2. transfer' = [transfer EXCEPT ![m] = FALSE]
    BY <2>1 DEF Inv, TypeOK
  <2>3. timeout[m] = "jump" => <<cur_state[m], target[m]>> \in Jumps[m]
    BY DEF Inv, Waits
  <2>4. Moved(m)
    BY <1>4, <2>1, <2>3, NextStateEffect, MarkCompletedEffect, JumpEffect DEF TimeoutFires
  <2> QED  BY <2>1, <2>2, <2>4, MovedKeeps
<1>5. ASSUME NEW m \in Machine, Overtake(m) PROVE Inv'
  <2>1. stack = <<"loop", 0>> /\ Running(m) /\ ~Child(m) /\ ~transfer[m]
    BY <1>5 DEF Overtake, Inv, Waits
  <2>2. CASE Moves(m) /\ UNCHANGED transfer
    <3>1. transfer' = [transfer EXCEPT ![m] = FALSE]
      BY <2>1, <2>2 DEF Inv, TypeOK
    <3> QED  BY <2>1, <2>2, <3>1, MovesKeeps
  <2>3. CASE /\ ClearDelayed(m) /\ transfer' = [transfer EXCEPT ![m] = TRUE]
             /\ UNCHANGED <<allocated, cur_state, completed, error, target, stack, first, cleaned>>
    BY <2>1, <2>3, WaitKeeps DEF ClearDelayed
  <2> QED  BY <1>5, <2>2, <2>3 DEF Overtake
<1>6. ASSUME NEW m \in Machine, Callback(m) PROVE Inv'
  BY <1>6, CallbackKeeps
<1>7. ASSUME UNCHANGED vars PROVE Inv'
  BY <1>7 DEF vars, Inv, TypeOK, Waits, NeverStalls, Running, Child
<1> QED  BY <1>1, <1>2, <1>3, <1>4, <1>5, <1>6, <1>7 DEF Next, Step

(* The inductive invariant holds in every state.                              *)
LEMMA Invariance == Spec => []Inv
  BY InvInit, InvStep, PTL DEF Spec

----------------------------------------------------------------------------
(* The cleanup.  A driver may jump over states of its work, and from any of   *)
(* them to its cleanup; the one thing asked of it here is that its jumps do   *)
(* not pass over a cleanup state that was not entered.                        *)
CleanupInOrder ==
  \A m \in Machine : \A j \in Jumps[m] : j[2] <= StartCleanup[m] \/ j[2] <= j[1] + 1

CleanupStates(m) == StartCleanup[m]..(NrStates[m] - 1)

(* The cleanup states up to s were entered, none of them from before s.       *)
Visited(m, s) ==
  /\ cleaned[m] \subseteq CleanupStates(m)
  /\ \A c \in CleanupStates(m) : c <= s => c \in cleaned[m]
  /\ s < StartCleanup[m] => cleaned[m] = {}

Tidy(m) ==
  /\ Running(m) => Visited(m, cur_state[m])
  /\ allocated[m] /\ completed[m] => cleaned[m] = CleanupStates(m)

AllTidy == \A m \in Machine : Tidy(m)

(* What a move adds when the jumps are in order: the cleanup states passed    *)
(* were all entered, and the work is left for the cleanup if there is one.    *)
MovedInOrder(m) ==
  /\ stack' = <<"handler", m>> => Visited(m, cur_state[m])'
  /\ stack' = <<"callback", m>> =>
       /\ cleaned'[m] = CleanupStates(m)
       /\ cur_state[m] >= StartCleanup[m] \/ StartCleanup[m] = NrStates[m]

LEMMA CompleteInOrder ==
  ASSUME TypeOK, NEW m \in Machine, NEW s \in 0..NrStates[m], CompleteFrom(m, s), Visited(m, s)
  PROVE  /\ stack' = <<"handler", m>> => Visited(m, cur_state[m])'
         /\ stack' = <<"callback", m>> =>
              cleaned'[m] = CleanupStates(m) /\ (s >= StartCleanup[m] \/ StartCleanup[m] = NrStates[m])
<1> DEFINE next == IF s < StartCleanup[m] THEN StartCleanup[m] ELSE s + 1
<1>1. next \in Nat /\ next >= StartCleanup[m] /\ next > s /\ (next = s + 1 \/ next = StartCleanup[m])
  BY Shapes
<1>2. CASE next < NrStates[m]
  <2>1. CallHandler(m, next)
    BY <1>2 DEF CompleteFrom
  <2>2. cur_state'[m] = next /\ cleaned'[m] = cleaned[m] \cup {next} /\ stack' = <<"handler", m>>
    BY <2>1, <1>1 DEF CallHandler, TypeOK
  <2>3. next \in CleanupStates(m)
    BY <1>1, <1>2, Shapes DEF CleanupStates
  <2>4. ASSUME NEW c \in CleanupStates(m), c <= next PROVE c \in cleaned[m] \cup {next}
    <3>1. c \in Nat /\ (c <= s \/ c = next)
      BY <1>1, <2>4, Shapes DEF CleanupStates
    <3> QED  BY <3>1 DEF Visited
  <2> QED  BY <1>1, <2>2, <2>3, <2>4, Shapes DEF Visited, CleanupStates
<1>3. CASE ~(next < NrStates[m])
  <2>1. CallCompleted(m, s)
    BY <1>3 DEF CompleteFrom
  <2>2. cleaned'[m] = cleaned[m] /\ stack' = <<"callback", m>>
    BY <2>1 DEF CallCompleted, TypeOK
  <2>3. \A c \in CleanupStates(m) : c <= s
    BY <1>1, <1>3, Shapes DEF CleanupStates
  <2>4. s >= StartCleanup[m] \/ StartCleanup[m] = NrStates[m]
    BY <1>1, <1>3, Shapes
  <2> QED  BY <2>2, <2>3, <2>4 DEF Visited
<1> QED  BY <1>2, <1>3

LEMMA EnterInOrder ==
  ASSUME TypeOK, NEW m \in Machine, NEW s \in 0..NrStates[m], Enter(m, s), Visited(m, cur_state[m]),
         cur_state[m] < NrStates[m], cur_state[m] >= StartCleanup[m] => s >= StartCleanup[m],
         s <= StartCleanup[m] \/ s <= cur_state[m] + 1
  PROVE  MovedInOrder(m)
<1>1. cur_state[m] \in Nat /\ s \in Nat
  BY DEF TypeOK
<1>2. CASE s = NrStates[m]
  <2>1. CompleteFrom(m, s) /\ (StartCleanup[m] = NrStates[m] \/ cur_state[m] + 1 = NrStates[m])
    BY <1>1, <1>2, Shapes DEF Enter
  <2>2. \A c \in CleanupStates(m) : c <= cur_state[m]
    BY <1>1, <2>1, Shapes DEF CleanupStates
  <2>3. Visited(m, s)
    <3>1. ~(s < StartCleanup[m])
      BY <1>2, Shapes
    <3> QED  BY <2>2, <3>1 DEF Visited
  <2>4. cur_state[m] >= StartCleanup[m] \/ StartCleanup[m] = NrStates[m]
    BY <1>1, <2>1, Shapes
  <2> QED  BY <2>1, <2>3, <2>4, CompleteInOrder DEF MovedInOrder
<1>3. CASE s # NrStates[m]
  <2>1. CallHandler(m, s) /\ s < NrStates[m]
    BY <1>1, <1>3, Shapes DEF Enter
  <2>2. /\ cur_state'[m] = s /\ stack' = <<"handler", m>>
        /\ cleaned'[m] = IF s >= StartCleanup[m] THEN cleaned[m] \cup {s} ELSE {}
    BY <2>1 DEF CallHandler, TypeOK
  <2>3. CASE s < StartCleanup[m]
    <3>1. cleaned'[m] = {} /\ \A c \in CleanupStates(m) : ~(c <= s)
      BY <1>1, <2>2, <2>3, Shapes DEF CleanupStates
    <3> QED  BY <2>2, <2>3, <3>1 DEF MovedInOrder, Visited, CleanupStates
  <2>4. CASE s >= StartCleanup[m]
    <3>1. cleaned'[m] = cleaned[m] \cup {s} /\ s \in CleanupStates(m)
      BY <1>1, <2>1, <2>2, <2>4, Shapes DEF CleanupStates
    <3>2. ASSUME NEW c \in CleanupStates(m), c <= s PROVE c \in cleaned[m] \cup {s}
      <4>1. c \in Nat /\ (c = s \/ c <= cur_state[m])
        BY <1>1, <3>2, Shapes DEF CleanupStates
      <4> QED  BY <4>1 DEF Visited
    <3>3. ~(s < StartCleanup[m])
      BY <1>1, <2>4, Shapes
    <3> QED  BY <2>2, <3>1, <3>2, <3>3 DEF MovedInOrder, Visited, CleanupStates
  <2> QED  BY <1>1, <2>3, <2>4, Shapes
<1> QED  BY <1>2, <1>3

(* Each way to move on a running machine, with the effects proved above.      *)
Advances(m) ==
  \/ NextState(m) \/ MarkCompleted(m) \/ \E e \in Errors : MarkFailed(m, e)
  \/ \E t : <<cur_state[m], t>> \in Jumps[m] /\ Enter(m, t)

LEMMA AdvancesMoves ==
  ASSUME Inv, NEW m \in Machine, Running(m), Advances(m)
  PROVE  Moved(m)
  BY NextStateEffect, MarkCompletedEffect, MarkFailedEffect, JumpEffect DEF Advances

LEMMA AdvancesInOrder ==
  ASSUME Inv, NEW m \in Machine, Running(m), Advances(m), CleanupInOrder, Tidy(m)
  PROVE  MovedInOrder(m)
<1>1. Visited(m, cur_state[m]) /\ TypeOK
  BY DEF Tidy, Inv
<1>2. cur_state[m] \in 0..NrStates[m] /\ cur_state[m] < NrStates[m] /\ cur_state[m] + 1 \in 0..NrStates[m]
  BY RunningFacts
<1>3. CASE NextState(m)
  <2>1. cur_state[m] >= StartCleanup[m] => cur_state[m] + 1 >= StartCleanup[m]
    BY <1>2, Shapes
  <2> QED  BY <1>1, <1>2, <1>3, <2>1, EnterInOrder DEF NextState
<1>4. CASE MarkCompleted(m)
  BY <1>1, <1>2, <1>4, CompleteInOrder DEF MarkCompleted, MovedInOrder
<1>5. ASSUME NEW e \in Errors, MarkFailed(m, e) PROVE MovedInOrder(m)
  <2>1. ~(error[m] # None /\ cur_state[m] < StartCleanup[m])
    BY RunningFacts
  <2>2. CompleteFrom(m, cur_state[m])
    BY <1>5, <2>1 DEF MarkFailed
  <2> QED  BY <1>1, <1>2, <2>2, CompleteInOrder DEF MovedInOrder
<1>6. ASSUME NEW t, <<cur_state[m], t>> \in Jumps[m], Enter(m, t) PROVE MovedInOrder(m)
  <2>1. t \in 0..NrStates[m]
    BY <1>6, SsmAssumption, Shapes
  <2>2. cur_state[m] >= StartCleanup[m] => t >= StartCleanup[m]
    BY <1>6, CleanupAssumption
  <2>3. t <= StartCleanup[m] \/ t <= cur_state[m] + 1
    BY <1>6 DEF CleanupInOrder
  <2> QED  BY <1>1, <1>2, <1>6, <2>1, <2>2, <2>3, EnterInOrder
<1> QED  BY <1>3, <1>4, <1>5, <1>6 DEF Advances

(* Every step advances one running machine, starts one, or touches neither    *)
(* the states nor the cleanup of any; only a machine in its callback is freed.*)
StartsNone ==
  \A k \in Machine :
    /\ allocated'[k] => allocated[k]
    /\ allocated[k] /\ ~allocated'[k] => stack = <<"callback", k>>

StepKind ==
  \/ \E m \in Machine : /\ Running(m) /\ Advances(m) /\ Moved(m)
                          /\ StartsNone /\ allocated'[m] /\ stack # <<"callback", 1>>
  \/ \E m \in Machine : Start(m) /\ ~allocated[m]
  \/ StartsNone /\ UNCHANGED <<cur_state, completed, error, cleaned>>

LEMMA MovesKind ==
  ASSUME Inv, NEW m \in Machine, Running(m), Moves(m), stack # <<"callback", 1>>
  PROVE  StepKind
<1>1. CASE StartSubsm(m)
  <2>1. m + 1 \in Machine
    BY <1>1, SsmAssumption DEF Machine, StartSubsm
  <2> QED  BY <1>1, <2>1 DEF StartSubsm, StepKind
<1>2. CASE /\ NextState(m) \/ JumpToState(m) \/ MarkCompleted(m) \/ \E e \in Errors : MarkFailed(m, e)
           /\ UNCHANGED <<allocated, target>>
  <2>1. Advances(m)
    <3>1. ASSUME NEW j \in Jumps[m], j[1] = cur_state[m], Enter(m, j[2]) PROVE Advances(m)
      <4>1. j = <<cur_state[m], j[2]>>
        BY <3>1, SsmAssumption
      <4> QED  BY <3>1, <4>1 DEF Advances
    <3> QED  BY <1>2, <3>1 DEF Advances, JumpToState
  <2>2. StartsNone /\ allocated'[m]
    BY <1>2 DEF StartsNone, Running
  <2> QED  BY <2>1, <2>2, AdvancesMoves DEF StepKind
<1> QED  BY <1>1, <1>2 DEF Moves

LEMMA NextKind ==
  ASSUME Inv, [Next]_vars
  PROVE  StepKind
<1>0. ASSUME NEW m \in Machine, Delay(m) PROVE StepKind
  BY <1>0 DEF Delay, StepKind, StartsNone
<1>1. ASSUME StartRoot PROVE StepKind
  <2>1. 1 \in Machine
    BY SsmAssumption DEF Machine
  <2> QED  BY <1>1, <2>1 DEF StartRoot, StepKind
<1>2. ASSUME NEW m \in Machine, Handler(m) PROVE StepKind
  <2>1. Running(m) /\ stack # <<"callback", 1>>
    BY <1>2 DEF Handler, Inv, Waits
  <2> QED  BY <1>0, <1>2, <2>1, MovesKind DEF Handler, StepKind, StartsNone
<1>3. ASSUME NEW m \in Machine, TransferDone(m) PROVE StepKind
  <2>1. Running(m) /\ stack # <<"callback", 1>>
    BY <1>3 DEF TransferDone, Inv, Waits
  <2> QED  BY <1>0, <1>3, <2>1, MovesKind DEF TransferDone
<1>4. ASSUME NEW m \in Machine, TimeoutFires(m) PROVE StepKind
  <2>1. Running(m) /\ (timeout[m] = "jump" => <<cur_state[m], target[m]>> \in Jumps[m])
    BY <1>4 DEF TimeoutFires, Inv, Waits
  <2>2. Advances(m) /\ UNCHANGED allocated
    BY <1>4, <2>1 DEF TimeoutFires, Advances
  <2>3. StartsNone /\ allocated'[m] /\ stack # <<"callback", 1>>
    BY <1>4, <2>1, <2>2 DEF StartsNone, Running, TimeoutFires
  <2> QED  BY <2>1, <2>2, <2>3, AdvancesMoves DEF StepKind
<1>5. ASSUME NEW m \in Machine, Overtake(m) PROVE StepKind
  <2>1. Running(m) /\ stack # <<"callback", 1>>
    BY <1>5 DEF Overtake, Inv, Waits
  <2> QED  BY <1>5, <2>1, MovesKind DEF Overtake, StepKind, StartsNone
<1>6. ASSUME NEW m \in Machine, Callback(m) PROVE StepKind
  <2>a. m \in Nat /\ Depth \in Nat /\ Machine = 1..Depth
    BY SsmAssumption DEF Machine
  <2>1. stack = <<"callback", m>> /\ allocated[m] /\ allocated' = [allocated EXCEPT ![m] = FALSE]
    BY <1>6 DEF Callback, Inv, Waits
  <2>2. StartsNone
    <3>1. \A k \in Machine : k # m => allocated'[k] = allocated[k]
      BY <2>1 DEF Inv, TypeOK
    <3> QED  BY <2>1, <3>1 DEF StartsNone
  <2>3. CASE m = 1
    BY <1>6, <2>2, <2>3 DEF Callback, StepKind, StartsNone
  <2>4. CASE m > 1
    <3> DEFINE p == m - 1
    <3>1. p \in Machine /\ p < Depth /\ p + 1 = m /\ p # m
      BY <2>a, <2>4
    <3>2. Running(p)
      BY <2>1, <3>1 DEF Inv, Waits, Child
    <3>3. Advances(p)
      <4>1. CASE error[m] # None
        <5>1. error[m] \in Errors /\ MarkFailed(p, error[m])
          BY <1>6, <2>4, <4>1 DEF Callback, SubsmComplete, Inv, TypeOK
        <5> QED  BY <5>1 DEF Advances
      <4>2. CASE error[m] = None
        BY <1>6, <2>4, <4>2 DEF Callback, SubsmComplete, Advances
      <4> QED  BY <4>1, <4>2
    <3>4. allocated'[p]
      BY <2>1, <3>1, <3>2 DEF Running, Inv, TypeOK
    <3>5. Moved(p)
      BY <3>1, <3>2, <3>3, AdvancesMoves
    <3>6. stack # <<"callback", 1>>
      BY <2>1, <2>4, <2>a
    <3> QED  BY <2>2, <3>1, <3>2, <3>3, <3>4, <3>5, <3>6 DEF StepKind
  <2> QED  BY <2>a, <2>3, <2>4
<1>7. ASSUME UNCHANGED vars PROVE StepKind
  BY <1>7 DEF vars, StepKind, StartsNone
<1> QED  BY <1>1, <1>2, <1>3, <1>4, <1>5, <1>6, <1>7 DEF Next, Step

LEMMA TidyStep ==
  ASSUME Inv, AllTidy, CleanupInOrder, [Next]_vars
  PROVE  AllTidy'
<1>1. ASSUME NEW k \in Machine, allocated'[k] => allocated[k], cleaned'[k] = cleaned[k],
             cur_state'[k] = cur_state[k], completed'[k] = completed[k]
      PROVE  Tidy(k)'
  BY <1>1 DEF AllTidy, Tidy, Visited, Running, CleanupStates
<1>2. ASSUME NEW m \in Machine, Running(m), Advances(m), Moved(m), StartsNone PROVE AllTidy'
  <2>1. MovedInOrder(m)
    BY <1>2, AdvancesInOrder DEF AllTidy
  <2>2. Tidy(m)'
    <3>1. CASE stack' = <<"handler", m>> /\ completed' = completed
      BY <1>2, <2>1, <3>1 DEF MovedInOrder, Tidy, Running
    <3>2. CASE stack' = <<"callback", m>> /\ completed' = [completed EXCEPT ![m] = TRUE]
      <4>1. completed'[m]
        BY <3>2 DEF Inv, TypeOK
      <4> QED  BY <2>1, <3>2, <4>1 DEF MovedInOrder, Tidy, Running, CleanupStates
    <3> QED  BY <1>2, <3>1, <3>2 DEF Moved
  <2>3. ASSUME NEW k \in Machine, k # m PROVE Tidy(k)'
    <3>1. cleaned'[k] = cleaned[k] /\ cur_state'[k] = cur_state[k] /\ completed'[k] = completed[k]
      BY <1>2, <2>3 DEF Moved, Inv, TypeOK
    <3> QED  BY <1>1, <1>2, <3>1 DEF StartsNone
  <2> QED  BY <2>2, <2>3 DEF AllTidy
<1>3. ASSUME NEW m \in Machine, Start(m) PROVE AllTidy'
  <2>1. ~completed'[m] /\ cur_state'[m] = 0 /\ cleaned'[m] = {}
    BY <1>3 DEF Start, Inv, TypeOK
  <2>2. \A c \in CleanupStates(m) : ~(c <= 0)
    BY Shapes DEF CleanupStates
  <2>3. Tidy(m)'
    BY <2>1, <2>2 DEF Tidy, Visited, CleanupStates
  <2>4. ASSUME NEW k \in Machine, k # m PROVE Tidy(k)'
    BY <1>1, <1>3, <2>4 DEF Start, Inv, TypeOK
  <2> QED  BY <2>3, <2>4 DEF AllTidy
<1>4. ASSUME StartsNone, UNCHANGED <<cur_state, completed, cleaned>> PROVE AllTidy'
  BY <1>1, <1>4 DEF StartsNone, AllTidy
<1> QED  BY <1>2, <1>3, <1>4, NextKind DEF StepKind

LEMMA TidyInvariance == CleanupInOrder /\ Spec => []AllTidy
<1>1. Init => AllTidy
  BY DEF Init, AllTidy, Tidy, Running
<1>2. Inv /\ AllTidy /\ CleanupInOrder /\ [Next]_vars => AllTidy'
  BY TidyStep
<1>3. CASE CleanupInOrder
  BY <1>1, <1>2, <1>3, Invariance, PTL DEF Spec
<1> QED  BY <1>3

----------------------------------------------------------------------------
(* The theorems.                                                              *)

(* Every variable of every machine keeps its type, no state is beyond the end *)
(* of its machine.                                                            *)
THEOREM TypeCorrect == Spec => []TypeOK
<1>1. Inv => TypeOK
  BY DEF Inv
<1> QED  BY <1>1, Invariance, PTL

(* A started machine never stalls, whatever its driver calls in its handlers, *)
(* transfers and timers: it is running, or exactly one thing will move it.    *)
THEOREM NoStall == Spec => []NeverStalls
<1>1. Inv => NeverStalls
  BY DEF Inv
<1> QED  BY <1>1, Invariance, PTL

(* A timer belongs to a running machine that waits for nothing else.          *)
THEOREM TimersOwned == Spec => []TimersAreOwned
<1>1. Inv => TimersAreOwned
  BY DEF Inv, Waits, TimersAreOwned
<1> QED  BY <1>1, Invariance, PTL

(* A child runs under a parent that has not completed.                        *)
THEOREM ChildUnderParent == Spec => []ChildHasParent
<1>1. ASSUME Inv PROVE ChildHasParent
  <2> SUFFICES ASSUME NEW m \in Machine \ {1}, allocated[m] PROVE Running(m - 1) /\ ~transfer[m - 1]
    BY DEF ChildHasParent
  <2>1. m - 1 \in Machine /\ m - 1 < Depth /\ (m - 1) + 1 = m
    BY SsmAssumption DEF Machine
  <2>2. Child(m - 1)
    BY <2>1 DEF Child
  <2> QED  BY <1>1, <2>1, <2>2 DEF Inv, Waits
<1> QED  BY <1>1, Invariance, PTL

(* The report of the end is of the first failure.                             *)
THEOREM FirstErrorWins == Spec => []FirstErrorReported
<1>1. Inv => FirstErrorReported
  BY DEF Inv, FirstErrorReported
<1> QED  BY <1>1, Invariance, PTL

(* The failure of a child fails its parent.                                   *)
THEOREM ChildErrorFailsParent == Spec => ChildErrorReachesParent
<1>1. ASSUME Inv, [Next]_vars
      PROVE  [\A m \in Machine \ {1} :
                stack = <<"callback", m>> /\ error[m] # None => error'[m - 1] # None]_vars
  <2> SUFFICES ASSUME NEW m \in Machine \ {1}, stack = <<"callback", m>>, error[m] # None, Next
               PROVE  error'[m - 1] # None
    BY <1>1
  <2>1. m > 1
    BY SsmAssumption DEF Machine
  <2>2. Callback(m)
    BY DEF Next, StartRoot, Step, Handler, TransferDone, TimeoutFires, Overtake, Callback
  <2> QED  BY <1>1, <2>1, <2>2, CallbackKeeps
<1> QED  BY <1>1, Invariance, PTL DEF Spec, ChildErrorReachesParent

(* Every cleanup state is entered before a machine reports its end, however   *)
(* it ended, as long as no jump of its driver passes over one.                *)
THEOREM WholeCleanup == CleanupInOrder /\ Spec => []CleanupIsWhole
<1>1. Inv /\ AllTidy => CleanupIsWhole
  BY DEF Inv, Waits, AllTidy, Tidy, CleanupStates, CleanupIsWhole
<1> QED  BY <1>1, Invariance, TidyInvariance, PTL

(* Every step of the chain is, for the starter of the root, a step of what it *)
(* was promised or none at all.                                               *)
LEMMA RootAdvances ==
  ASSUME Inv, AllTidy, CleanupInOrder, Running(1), Advances(1), Moved(1), allocated'[1]
  PROVE  Root!Next \/ UNCHANGED <<RootPhase, error[1]>>
<1>a. 1 \in Machine /\ MovedInOrder(1)
  BY SsmAssumption, AdvancesInOrder DEF Machine, AllTidy
<1>b. StartCleanup[1] \in Nat \ {0} /\ NrStates[1] \in Nat /\ StartCleanup[1] <= NrStates[1]
  BY <1>a, Shapes
<1>c. cur_state[1] \in Nat /\ completed[1] \in BOOLEAN
  BY <1>a DEF Inv, TypeOK
<1>1. RootPhase = IF cur_state[1] < StartCleanup[1] THEN "work" ELSE "cleanup"
  BY DEF Running, RootPhase
<1>2. error'[1] \in Errors \cup {None} /\ (error[1] = None \/ error'[1] = error[1])
  BY <1>a DEF Moved, Inv, TypeOK
<1>3. error[1] # None => cur_state[1] >= StartCleanup[1]
  BY <1>a, RunningFacts
<1>4. CASE stack' = <<"callback", 1>> /\ completed' = [completed EXCEPT ![1] = TRUE]
  <2>1. RootPhase' = "ended"
    BY <1>a, <1>4 DEF Inv, TypeOK, RootPhase
  <2>2. cur_state[1] >= StartCleanup[1] \/ ~(StartCleanup[1] < NrStates[1])
    BY <1>a, <1>b, <1>4 DEF MovedInOrder
  <2>3. CASE cur_state[1] >= StartCleanup[1]
    <3>1. RootPhase = "cleanup"
      BY <1>b, <1>c, <1>1, <2>3
    <3> QED  BY <1>2, <2>1, <3>1 DEF Root!Next, Root!Fail, Root!End, RootPhase
  <2>4. CASE cur_state[1] < StartCleanup[1]
    <3>1. RootPhase = "work" /\ Root!AfterWork = "ended" /\ error[1] = None
      BY <1>b, <1>c, <1>1, <1>3, <2>2, <2>4 DEF Root!AfterWork
    <3> QED  BY <1>2, <2>1, <3>1 DEF Root!Next, Root!Fail, Root!Leave, RootPhase
  <2> QED  BY <1>b, <1>c, <2>3, <2>4
<1>5. CASE /\ stack' = <<"handler", 1>> /\ completed' = completed
           /\ cur_state'[1] < NrStates[1]
           /\ cur_state[1] >= StartCleanup[1] => cur_state'[1] >= StartCleanup[1]
           /\ error'[1] # None => cur_state'[1] >= StartCleanup[1]
  <2>1. cur_state'[1] \in Nat
    BY <1>a DEF Moved, Inv, TypeOK
  <2>2. RootPhase' = IF cur_state'[1] < StartCleanup[1] THEN "work" ELSE "cleanup"
    BY <1>5 DEF Running, RootPhase
  <2>3. CASE cur_state'[1] < StartCleanup[1]
    BY <1>b, <1>c, <1>1, <1>3, <1>5, <2>1, <2>2, <2>3
  <2>4. CASE cur_state'[1] >= StartCleanup[1]
    <3>1. RootPhase' = "cleanup" /\ Root!AfterWork = "cleanup"
      BY <1>b, <1>5, <2>1, <2>2, <2>4 DEF Root!AfterWork
    <3>2. RootPhase = "work" \/ RootPhase = "cleanup"
      BY <1>1
    <3>3. CASE error'[1] = error[1]
      BY <3>1, <3>2, <3>3 DEF Root!Next, Root!Leave, RootPhase
    <3>4. CASE error'[1] # error[1]
      BY <1>2, <3>1, <3>2, <3>4 DEF Root!Next, Root!Fail, RootPhase
    <3> QED  BY <3>3, <3>4
  <2> QED  BY <1>b, <2>1, <2>3, <2>4
<1> QED  BY <1>4, <1>5 DEF Moved

LEMMA RootStep ==
  ASSUME Inv, AllTidy, CleanupInOrder, [Next]_vars
  PROVE  Root!Next \/ UNCHANGED <<RootPhase, error[1]>>
<1>a. 1 \in Machine
  BY SsmAssumption DEF Machine
<1>b. allocated[1] \in BOOLEAN /\ allocated'[1] \in BOOLEAN
  BY <1>a, InvStep DEF Inv, TypeOK
<1>1. ASSUME UNCHANGED <<allocated[1], completed[1], cur_state[1], error[1]>>
      PROVE  UNCHANGED <<RootPhase, error[1]>>
  BY <1>1 DEF RootPhase
<1>2. ASSUME NEW m \in Machine, Running(m), Advances(m), Moved(m), StartsNone, allocated'[m],
             stack # <<"callback", 1>>
      PROVE  Root!Next \/ UNCHANGED <<RootPhase, error[1]>>
  <2>1. CASE m = 1
    BY <1>2, <2>1, RootAdvances
  <2>2. CASE m # 1
    <3>1. UNCHANGED <<completed[1], cur_state[1], error[1]>>
      BY <1>2, <1>a, <2>2 DEF Moved, Inv, TypeOK
    <3>2. allocated'[1] = allocated[1]
      BY <1>2, <1>a, <1>b DEF StartsNone
    <3> QED  BY <1>1, <3>1, <3>2
  <2> QED  BY <2>1, <2>2
<1>3. ASSUME NEW m \in Machine, Start(m), ~allocated[m]
      PROVE  Root!Next \/ UNCHANGED <<RootPhase, error[1]>>
  <2>1. CASE m = 1
    <3>1. RootPhase = "idle"
      BY <1>3, <2>1 DEF RootPhase
    <3>2. allocated'[1] /\ ~completed'[1] /\ cur_state'[1] = 0 /\ error'[1] = None
      BY <1>3, <1>a, <2>1 DEF Start, Inv, TypeOK
    <3>3. RootPhase' = "work"
      BY <1>a, <3>2, Shapes DEF RootPhase
    <3> QED  BY <3>1, <3>2, <3>3 DEF Root!Next, Root!Start, RootPhase
  <2>2. CASE m # 1
    BY <1>1, <1>3, <1>a, <2>2 DEF Start, Inv, TypeOK
  <2> QED  BY <2>1, <2>2
<1>4. ASSUME StartsNone, UNCHANGED <<cur_state, completed, error>>
      PROVE  Root!Next \/ UNCHANGED <<RootPhase, error[1]>>
  <2>1. CASE allocated'[1] = allocated[1]
    BY <1>1, <1>4, <2>1
  <2>2. CASE allocated'[1] # allocated[1]
    <3>1. allocated[1] /\ ~allocated'[1] /\ completed[1]
      BY <1>4, <1>a, <1>b, <2>2 DEF StartsNone, Inv, Waits
    <3>2. RootPhase = "ended" /\ RootPhase' = "idle"
      BY <3>1 DEF RootPhase
    <3> QED  BY <1>4, <3>2 DEF Root!Next, Root!Report, RootPhase
  <2> QED  BY <2>1, <2>2
<1> QED  BY <1>2, <1>3, <1>4, NextKind DEF StepKind

(* The starter of the root sees a machine that works, enters its cleanup when *)
(* it has one, fails once, ends and reports once, whatever the sub-machines,  *)
(* timers and transfers below it do: the safety part of RootKeepsPromise.     *)
THEOREM RootKeepsSafety == CleanupInOrder /\ Spec => Root!Safety
<1>1. Init => Root!Init
  BY SsmAssumption DEF Init, Root!Init, RootPhase, Machine
<1>2. Inv /\ AllTidy /\ CleanupInOrder /\ [Next]_vars => [Root!Next]_Root!vars
  BY RootStep DEF RootPhase, Root!vars
<1>3. CASE CleanupInOrder
  BY <1>1, <1>2, <1>3, Invariance, TidyInvariance, PTL DEF Spec, Root!Safety
<1> QED  BY <1>3
=============================================================================
