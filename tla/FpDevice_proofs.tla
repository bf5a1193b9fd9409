--------------------------- MODULE FpDevice_proofs ---------------------------
(* Proofs about FpDevice, for any set of calls, any driver classes and any    *)
(* nesting of critical sections, and about the synaptics driver under it, for *)
(* galleries of any size.  The invariant of the layer has a part for the task *)
(* and its cancellation, one for suspend and resume, one for removal; that of *)
(* the driver ties its command and its critical sections to the layer's task. *)
EXTENDS Synaptics, SequenceTheorems, TLAPS

(* The task: what is pending belongs to the current action.                   *)
TaskInv ==
  /\ result # "none" => action # "none"
  /\ idle_cancel => Running /\ cancelled
  /\ action = "none" => critical = 0 /\ ~flush /\ queued = {} /\ handlers = <<>>
  /\ ~returning => leaving = <<>>
  /\ flush => critical = 0
  /\ queued # {} => critical > 0 \/ flush
  /\ "cancel" \in queued => cancelled
  /\ reason # "none" => cancelled /\ action # "none"

(* The USB device under the open flag.                                        *)
UsbInv ==
  /\ action = "open" => ~is_open /\ usb_open
  /\ action \notin {"none", "open"} => is_open
  /\ is_open => usb_open \/ (action = "close" /\ result # "none")

(* A handler is connected to one task, and once.                              *)
Once(hs, h) == \A i, j \in 1..Len(hs) : hs[i] = h /\ hs[j] = h => i = j

Single(h) ==
  /\ Once(handlers, h) /\ Once(leaving, h)
  /\ ~(Has(handlers, h) /\ Has(leaving, h))

Connected(h) == Has(handlers, h) \/ Has(leaving, h)

(* Suspend and resume: who is going to answer the request.                    *)
PowerInv ==
  /\ RequestHasAnswerer
  /\ asked # "none" => /\ request = asked /\ queued \subseteq {"cancel"}
                       /\ ~Connected("suspended") /\ ~Connected("short")
  /\ asked = "suspend" => ~is_suspended
  /\ "suspend" \in queued => /\ request = "suspend" /\ ~is_suspended
                             /\ ~Connected("suspended") /\ ~Connected("short")
  /\ "resume" \in queued => request = "resume"
  /\ request = "resume" => is_suspended
  /\ Single("suspended") /\ Single("short")
  /\ Connected("short") => request = "suspend" /\ ~is_suspended
  /\ Connected("suspended") => request = "suspend" /\ is_suspended /\ suspend_error
  /\ Has(handlers, "suspended") => cancelled /\ reason # "none"
  /\ Has(leaving, "suspended") => action \notin Long
  /\ reason = "busy" => Has(handlers, "suspended")
  /\ SuspendedActionAgreed

(* Removal: one handler, for one task.                                        *)
RemovalInv ==
  /\ RemovedOnce
  /\ Connected("removed") => is_removed
  /\ Single("removed")

Inv == TypeOK /\ TaskInv /\ UsbInv /\ PowerInv /\ RemovalInv

----------------------------------------------------------------------------
(* Sequences of handlers.                                                     *)

LEMMA HasEmpty == ASSUME NEW h PROVE ~Has(<<>>, h)
  BY DEF Has

LEMMA HasAppend ==
  ASSUME NEW S, NEW s \in Seq(S), NEW e \in S, NEW h
  PROVE  Has(Append(s, e), h) <=> Has(s, h) \/ e = h
<1>1. ASSUME Has(s, h) PROVE Has(Append(s, e), h)
  BY <1>1 DEF Has
<1>2. ASSUME e = h PROVE Has(Append(s, e), h)
  <2>1. Append(s, e)[Len(s) + 1] = h /\ Len(Append(s, e)) = Len(s) + 1 /\ Len(s) \in Nat
    BY <1>2
  <2> QED  BY <2>1 DEF Has
<1>3. ASSUME Has(Append(s, e), h), e # h PROVE Has(s, h)
  <2>1. PICK k \in 1..Len(Append(s, e)) : Append(s, e)[k] = h
    BY <1>3 DEF Has
  <2>2. k # Len(s) + 1 /\ Len(Append(s, e)) = Len(s) + 1 /\ Len(s) \in Nat
    BY <2>1, <1>3
  <2>3. k \in 1..Len(s) /\ s[k] = h
    BY <2>1, <2>2
  <2> QED  BY <2>3 DEF Has
<1> QED  BY <1>1, <1>2, <1>3

LEMMA HasTail ==
  ASSUME NEW S, NEW s \in Seq(S), s # <<>>, NEW h
  PROVE  Has(s, h) <=> Head(s) = h \/ Has(Tail(s), h)
<1>1. Len(s) \in Nat \ {0} /\ Len(Tail(s)) = Len(s) - 1 /\ Head(s) = s[1]
  OBVIOUS
<1>2. \A k \in 1..Len(Tail(s)) : Tail(s)[k] = s[k + 1]
  OBVIOUS
<1>3. ASSUME Has(s, h), Head(s) # h PROVE Has(Tail(s), h)
  <2>1. PICK k \in 1..Len(s) : s[k] = h
    BY <1>3 DEF Has
  <2>2. k # 1
    BY <2>1, <1>1, <1>3
  <2>3. k - 1 \in 1..Len(Tail(s)) /\ Tail(s)[k - 1] = s[k]
    BY <2>1, <2>2, <1>1, <1>2
  <2> QED  BY <2>1, <2>3 DEF Has
<1>4. ASSUME Has(Tail(s), h) PROVE Has(s, h)
  <2>1. PICK k \in 1..Len(Tail(s)) : Tail(s)[k] = h
    BY <1>4 DEF Has
  <2>2. k + 1 \in 1..Len(s) /\ s[k + 1] = h
    BY <2>1, <1>1, <1>2
  <2> QED  BY <2>2 DEF Has
<1>5. ASSUME Head(s) = h PROVE Has(s, h)
  BY <1>1, <1>5 DEF Has
<1> QED  BY <1>3, <1>4, <1>5

LEMMA OnceAppend ==
  ASSUME NEW S, NEW s \in Seq(S), NEW e \in S, NEW h,
         Once(s, h), e = h => ~Has(s, h)
  PROVE  Once(Append(s, e), h)
<1>1. Len(Append(s, e)) = Len(s) + 1 /\ Len(s) \in Nat
  OBVIOUS
<1>2. \A k \in 1..Len(s) : Append(s, e)[k] = s[k]
  OBVIOUS
<1>3. Append(s, e)[Len(s) + 1] = e
  OBVIOUS
<1> QED  BY <1>1, <1>2, <1>3 DEF Once, Has

LEMMA OnceTail ==
  ASSUME NEW S, NEW s \in Seq(S), s # <<>>, NEW h, Once(s, h)
  PROVE  /\ Once(Tail(s), h)
         /\ Head(s) = h => ~Has(Tail(s), h)
<1>1. Len(s) \in Nat \ {0} /\ Len(Tail(s)) = Len(s) - 1 /\ Head(s) = s[1]
  OBVIOUS
<1>2. \A k \in 1..Len(Tail(s)) : Tail(s)[k] = s[k + 1] /\ k + 1 \in 1..Len(s)
  BY <1>1
<1>3. Once(Tail(s), h)
  <2> SUFFICES ASSUME NEW i \in 1..Len(Tail(s)), NEW j \in 1..Len(Tail(s)),
                      Tail(s)[i] = h, Tail(s)[j] = h
               PROVE  i = j
    BY DEF Once
  <2>1. i + 1 = j + 1
    BY <1>2 DEF Once
  <2> QED  BY <2>1
<1>4. ASSUME Head(s) = h, Has(Tail(s), h) PROVE FALSE
  <2>1. PICK k \in 1..Len(Tail(s)) : Tail(s)[k] = h
    BY <1>4 DEF Has
  <2>2. s[1] = h /\ s[k + 1] = h /\ 1 \in 1..Len(s) /\ k + 1 \in 1..Len(s)
    BY <2>1, <1>1, <1>2, <1>4
  <2>3. k + 1 = 1
    BY <2>2 DEF Once
  <2> QED  BY <2>3, <2>1
<1> QED  BY <1>3, <1>4

(* Another handler keeps the list a list of handlers.                          *)
LEMMA HandlerAppend ==
  ASSUME NEW s \in Seq(Handler), NEW h \in Handler
  PROVE  Append(s, h) \in Seq(Handler)
PROOF OBVIOUS

----------------------------------------------------------------------------
(* The invariant holds at first and is kept by every step.                    *)

LEMMA InvInit == Init => Inv
<1> SUFFICES ASSUME Init PROVE Inv
  OBVIOUS
<1>1. FlagsOK
  BY DEF Init, FlagsOK
<1>2. DataOK
  BY DeviceAssumption DEF Init, DataOK
<1>3. TaskInv /\ UsbInv
  BY DEF Init, TaskInv, UsbInv, Running, Long
<1>4. PowerInv
  BY HasEmpty DEF Init, PowerInv, RequestHasAnswerer, SuspendedActionAgreed, Connected, Single,
      Once, Long
<1>5. RemovalInv
  BY HasEmpty DEF Init, RemovalInv, RemovedOnce, Connected, Single, Once
<1> QED  BY <1>1, <1>2, <1>3, <1>4, <1>5 DEF Inv, TypeOK

(* Every flag keeps its type.                                                 *)
LEMMA FlagsStep ==
  ASSUME FlagsOK, [Next]_vars
  PROVE  FlagsOK'
<1>1. ASSUME Open PROVE FlagsOK'
  BY <1>1 DEF Open, Accept, FlagsOK, Running, vars, taskVars, cancelVars, criticalVars,
      powerVars, removalVars, returnVars
<1>2. ASSUME \E op \in Calls \ {"open"} : OpenedCall(op) PROVE FlagsOK'
  BY <1>2 DEF OpenedCall, Accept, FlagsOK, Running, vars, taskVars, cancelVars, criticalVars,
      powerVars, removalVars, returnVars
<1>3. ASSUME ClearStorage PROVE FlagsOK'
  BY <1>3 DEF ClearStorage, Accept, FlagsOK, Running, vars, taskVars, cancelVars, criticalVars,
      powerVars, removalVars, returnVars
<1>4. ASSUME Cancel PROVE FlagsOK'
  BY <1>4 DEF Cancel, CancelInternal, FlagsOK, Running, vars, taskVars, cancelVars, criticalVars,
      powerVars, removalVars, returnVars
<1>5. ASSUME Suspend PROVE FlagsOK'
  BY <1>5 DEF Suspend, FpiSuspend, SuspendComplete, CancelFor, CancelInternal, FlagsOK, Running,
      vars, taskVars, cancelVars, criticalVars, powerVars, removalVars, returnVars
<1>6. ASSUME Resume PROVE FlagsOK'
  BY <1>6 DEF Resume, FpiResume, ResumeComplete, FlagsOK, Running, vars, taskVars, cancelVars,
      criticalVars, powerVars, removalVars, returnVars
<1>7. ASSUME DriverEnters PROVE FlagsOK'
  BY <1>7 DEF DriverEnters, CriticalEnter, FlagsOK, Running, vars, taskVars, cancelVars,
      criticalVars, powerVars, removalVars, returnVars
<1>8. ASSUME DriverLeaves PROVE FlagsOK'
  BY <1>8 DEF DriverLeaves, CriticalLeave, FlagsOK, Running, vars, taskVars, cancelVars,
      criticalVars, powerVars, removalVars, returnVars
<1>9. ASSUME DriverCompletes PROVE FlagsOK'
  BY <1>9 DEF DriverCompletes, Complete, FlagsOK, Running, vars, taskVars, cancelVars,
      criticalVars, powerVars, removalVars, returnVars
<1>10. ASSUME DriverSuspends PROVE FlagsOK'
  <2> PICK ok \in BOOLEAN : SuspendComplete(ok)
    BY <1>10 DEF DriverSuspends
  <2>1. CASE ok \/ action = "none"
    BY <1>10, <2>1 DEF DriverSuspends, SuspendComplete, CancelFor, CancelInternal, FlagsOK,
        Running, vars, taskVars, cancelVars, criticalVars, powerVars, removalVars, returnVars
  <2>2. CASE ~(ok \/ action = "none")
    BY <1>10, <2>2 DEF DriverSuspends, SuspendComplete, CancelFor, CancelInternal, FlagsOK,
        Running, vars, taskVars, cancelVars, criticalVars, powerVars, removalVars, returnVars
  <2> QED  BY <2>1, <2>2
<1>11. ASSUME DriverResumes PROVE FlagsOK'
  BY <1>11 DEF DriverResumes, ResumeComplete, FlagsOK, Running, vars, taskVars, cancelVars,
      criticalVars, powerVars, removalVars, returnVars
<1>12. ASSUME IdleCancel PROVE FlagsOK'
  BY <1>12 DEF IdleCancel, Idle, MainLoop, FlagsOK, Running, vars, taskVars, cancelVars,
      criticalVars, powerVars, removalVars, returnVars
<1>13. ASSUME Flush /\ FlushCancel PROVE FlagsOK'
  BY <1>13 DEF Flush, FlushCancel, MainLoop, FlagsOK, Running, vars, taskVars, cancelVars,
      criticalVars, powerVars, removalVars, returnVars
<1>14. ASSUME Flush /\ FlushSuspend PROVE FlagsOK'
  BY <1>14 DEF Flush, FlushSuspend, MainLoop, FpiSuspend, SuspendComplete, CancelFor,
      CancelInternal, FlagsOK, Running, vars, taskVars, cancelVars, criticalVars, powerVars,
      removalVars, returnVars
<1>15. ASSUME Flush /\ FlushResume PROVE FlagsOK'
  BY <1>15 DEF Flush, FlushResume, MainLoop, FpiResume, ResumeComplete, FlagsOK, Running, vars,
      taskVars, cancelVars, criticalVars, powerVars, removalVars, returnVars
<1>16. ASSUME Flush /\ FlushEnd PROVE FlagsOK'
  BY <1>16 DEF Flush, FlushEnd, MainLoop, FlagsOK, Running, vars, taskVars, cancelVars,
      criticalVars, powerVars, removalVars, returnVars
<1>17. ASSUME TaskReturn PROVE FlagsOK'
  BY <1>17 DEF TaskReturn, ReturnTask, Idle, MainLoop, ReturnedAnswer, FlagsOK, Running, vars, taskVars,
      cancelVars, criticalVars, powerVars, removalVars, returnVars
<1>18. ASSUME Notify PROVE FlagsOK'
  BY <1>18 DEF Notify, FlagsOK, Running, vars, taskVars, cancelVars, criticalVars, powerVars,
      removalVars, returnVars
<1>19. ASSUME Remove PROVE FlagsOK'
  BY <1>19 DEF Remove, MainLoop, FlagsOK, Running, vars, taskVars, cancelVars, criticalVars,
      powerVars, removalVars, returnVars
<1>20. ASSUME Overheat PROVE FlagsOK'
  BY <1>20 DEF Overheat, MainLoop, CancelFor, CancelInternal, FlagsOK, Running, vars, taskVars,
      cancelVars, criticalVars, powerVars, removalVars, returnVars
<1>21. ASSUME UNCHANGED vars PROVE FlagsOK'
  BY <1>21 DEF vars, taskVars, cancelVars, criticalVars, powerVars, removalVars, returnVars,
      FlagsOK, Running, vars, taskVars, cancelVars, criticalVars, powerVars, removalVars, returnVars
<1> QED
  BY <1>1, <1>2, <1>3, <1>4, <1>5, <1>6, <1>7, <1>8, <1>9, <1>10, <1>11, <1>12, <1>13, <1>14,
      <1>15, <1>16, <1>17, <1>18, <1>19, <1>20, <1>21
  DEF Next, Client, Driver, Loop, Flush, Close, Enroll, Verify, Identify, Capture,
      DeletePrint, ListPrints, OpenedCall, Accept

(* Every other variable keeps its type.                                       *)
LEMMA DataStep ==
  ASSUME DataOK, [Next]_vars
  PROVE  DataOK'
<1>1. ASSUME Open PROVE DataOK'
  BY <1>1, DeviceAssumption DEF Open, Accept, DataOK, Vfunc, Handler, Answer, Running, vars,
      taskVars, cancelVars, criticalVars, powerVars, removalVars, returnVars, Long
<1>2. ASSUME \E op \in Calls \ {"open"} : OpenedCall(op) PROVE DataOK'
  BY <1>2, DeviceAssumption DEF OpenedCall, Accept, DataOK, Vfunc, Handler, Answer, Running,
      vars, taskVars, cancelVars, criticalVars, powerVars, removalVars, returnVars, Long
<1>3. ASSUME ClearStorage PROVE DataOK'
  BY <1>3, DeviceAssumption DEF ClearStorage, Accept, DataOK, Vfunc, Handler, Answer, Running,
      vars, taskVars, cancelVars, criticalVars, powerVars, removalVars, returnVars, Long
<1>4. ASSUME Cancel PROVE DataOK'
  BY <1>4, DeviceAssumption DEF Cancel, CancelInternal, DataOK, Vfunc, Handler, Answer, Running,
      vars, taskVars, cancelVars, criticalVars, powerVars, removalVars, returnVars, Long
<1>5. ASSUME Suspend PROVE DataOK'
  <2>1. cls' \in Classes /\ action' \in {"none"} \cup Calls /\ result' \in {"none", "ok", "failed"}
    BY <1>5 DEF Suspend, FpiSuspend, SuspendComplete, CancelFor, CancelInternal, vars, taskVars,
        cancelVars, criticalVars, powerVars, removalVars, returnVars, DataOK
  <2>2. critical' \in 0..MaxCritical /\ leaving' \in Seq(Handler) /\ answer' \in {"none"} \cup Answer
    BY <1>5 DEF Suspend, FpiSuspend, SuspendComplete, CancelFor, CancelInternal, vars, taskVars,
        cancelVars, criticalVars, powerVars, removalVars, returnVars, DataOK
  <2>3. queued' \subseteq Vfunc
    BY <1>5 DEF Suspend, FpiSuspend, SuspendComplete, CancelFor, CancelInternal, vars, taskVars,
        cancelVars, criticalVars, powerVars, removalVars, returnVars, DataOK, Vfunc
  <2>4. request' \in {"none", "suspend", "resume"}
    BY <1>5 DEF Suspend, FpiSuspend, SuspendComplete, CancelFor, CancelInternal, vars, taskVars,
        cancelVars, criticalVars, powerVars, removalVars, returnVars, DataOK
  <2>5. asked' \in {"none", "suspend", "resume"}
    BY <1>5 DEF Suspend, FpiSuspend, SuspendComplete, CancelFor, CancelInternal, vars, taskVars,
        cancelVars, criticalVars, powerVars, removalVars, returnVars, DataOK
  <2>6. reason' \in {"none", "busy", "hot"}
    BY <1>5 DEF Suspend, FpiSuspend, SuspendComplete, CancelFor, CancelInternal, vars, taskVars,
        cancelVars, criticalVars, powerVars, removalVars, returnVars, DataOK
  <2>7. handlers' = handlers \/ handlers' = Append(handlers, "suspended") \/ handlers' = Append(handlers, "short")
    BY <1>5 DEF Suspend, FpiSuspend, SuspendComplete, CancelFor, CancelInternal, vars, taskVars,
        cancelVars, criticalVars, powerVars, removalVars, returnVars, DataOK
  <2>8. handlers' \in Seq(Handler)
    <3>1. handlers \in Seq(Handler) /\ "suspended" \in Handler /\ "short" \in Handler
      BY DEF DataOK, Handler
    <3> QED BY <2>7, <3>1, HandlerAppend
  <2> QED  BY <2>1, <2>2, <2>3, <2>4, <2>5, <2>6, <2>8 DEF DataOK
<1>6. ASSUME Resume PROVE DataOK'
  BY <1>6, DeviceAssumption DEF Resume, FpiResume, ResumeComplete, DataOK, Vfunc, Handler,
      Answer, Running, vars, taskVars, cancelVars, criticalVars, powerVars, removalVars,
      returnVars, Long
<1>7. ASSUME DriverEnters PROVE DataOK'
  BY <1>7, DeviceAssumption DEF DriverEnters, CriticalEnter, DataOK, Vfunc, Handler, Answer,
      Running, vars, taskVars, cancelVars, criticalVars, powerVars, removalVars, returnVars, Long
<1>8. ASSUME DriverLeaves PROVE DataOK'
  BY <1>8, DeviceAssumption DEF DriverLeaves, CriticalLeave, DataOK, Vfunc, Handler, Answer,
      Running, vars, taskVars, cancelVars, criticalVars, powerVars, removalVars, returnVars, Long
<1>9. ASSUME DriverCompletes PROVE DataOK'
  BY <1>9, DeviceAssumption DEF DriverCompletes, Complete, DataOK, Vfunc, Handler, Answer,
      Running, vars, taskVars, cancelVars, criticalVars, powerVars, removalVars, returnVars, Long
<1>10. ASSUME DriverSuspends PROVE DataOK'
  BY <1>10, DeviceAssumption DEF DriverSuspends, SuspendComplete, CancelFor, CancelInternal,
      DataOK, Vfunc, Handler, Answer, Running, vars, taskVars, cancelVars, criticalVars,
      powerVars, removalVars, returnVars, Long
<1>11. ASSUME DriverResumes PROVE DataOK'
  BY <1>11, DeviceAssumption DEF DriverResumes, ResumeComplete, DataOK, Vfunc, Handler, Answer,
      Running, vars, taskVars, cancelVars, criticalVars, powerVars, removalVars, returnVars, Long
<1>12. ASSUME IdleCancel PROVE DataOK'
  BY <1>12, DeviceAssumption DEF IdleCancel, Idle, MainLoop, DataOK, Vfunc, Handler, Answer,
      Running, vars, taskVars, cancelVars, criticalVars, powerVars, removalVars, returnVars, Long
<1>13. ASSUME Flush /\ FlushCancel PROVE DataOK'
  BY <1>13, DeviceAssumption DEF Flush, FlushCancel, MainLoop, DataOK, Vfunc, Handler, Answer,
      Running, vars, taskVars, cancelVars, criticalVars, powerVars, removalVars, returnVars, Long
<1>14. ASSUME Flush /\ FlushSuspend PROVE DataOK'
  <2>1. cls' \in Classes /\ action' \in {"none"} \cup Calls /\ result' \in {"none", "ok", "failed"}
    BY <1>14 DEF Flush, FlushSuspend, MainLoop, FpiSuspend, SuspendComplete, CancelFor,
        CancelInternal, vars, taskVars, cancelVars, criticalVars, powerVars, removalVars,
        returnVars, DataOK
  <2>2. critical' \in 0..MaxCritical /\ leaving' \in Seq(Handler) /\ answer' \in {"none"} \cup Answer
    BY <1>14 DEF Flush, FlushSuspend, MainLoop, FpiSuspend, SuspendComplete, CancelFor,
        CancelInternal, vars, taskVars, cancelVars, criticalVars, powerVars, removalVars,
        returnVars, DataOK
  <2>3. queued' \subseteq Vfunc
    BY <1>14 DEF Flush, FlushSuspend, MainLoop, FpiSuspend, SuspendComplete, CancelFor,
        CancelInternal, vars, taskVars, cancelVars, criticalVars, powerVars, removalVars,
        returnVars, DataOK, Vfunc
  <2>4. request' \in {"none", "suspend", "resume"}
    BY <1>14 DEF Flush, FlushSuspend, MainLoop, FpiSuspend, SuspendComplete, CancelFor,
        CancelInternal, vars, taskVars, cancelVars, criticalVars, powerVars, removalVars,
        returnVars, DataOK
  <2>5. asked' \in {"none", "suspend", "resume"}
    BY <1>14 DEF Flush, FlushSuspend, MainLoop, FpiSuspend, SuspendComplete, CancelFor,
        CancelInternal, vars, taskVars, cancelVars, criticalVars, powerVars, removalVars,
        returnVars, DataOK
  <2>6. reason' \in {"none", "busy", "hot"}
    BY <1>14 DEF Flush, FlushSuspend, MainLoop, FpiSuspend, SuspendComplete, CancelFor,
        CancelInternal, vars, taskVars, cancelVars, criticalVars, powerVars, removalVars,
        returnVars, DataOK
  <2>7. handlers' = handlers \/ handlers' = Append(handlers, "suspended") \/ handlers' = Append(handlers, "short")
    BY <1>14 DEF Flush, FlushSuspend, MainLoop, FpiSuspend, SuspendComplete, CancelFor,
        CancelInternal, vars, taskVars, cancelVars, criticalVars, powerVars, removalVars,
        returnVars, DataOK
  <2>8. handlers' \in Seq(Handler)
    <3>1. handlers \in Seq(Handler) /\ "suspended" \in Handler /\ "short" \in Handler
      BY DEF DataOK, Handler
    <3> QED BY <2>7, <3>1, HandlerAppend
  <2> QED  BY <2>1, <2>2, <2>3, <2>4, <2>5, <2>6, <2>8 DEF DataOK
<1>15. ASSUME Flush /\ FlushResume PROVE DataOK'
  BY <1>15, DeviceAssumption DEF Flush, FlushResume, MainLoop, FpiResume, ResumeComplete, DataOK,
      Vfunc, Handler, Answer, Running, vars, taskVars, cancelVars, criticalVars, powerVars,
      removalVars, returnVars, Long
<1>16. ASSUME Flush /\ FlushEnd PROVE DataOK'
  BY <1>16, DeviceAssumption DEF Flush, FlushEnd, MainLoop, DataOK, Vfunc, Handler, Answer,
      Running, vars, taskVars, cancelVars, criticalVars, powerVars, removalVars, returnVars, Long
<1>17. ASSUME TaskReturn PROVE DataOK'
  BY <1>17, DeviceAssumption DEF TaskReturn, ReturnTask, Idle, MainLoop, ReturnedAnswer, DataOK, Vfunc,
      Handler, Answer, Running, vars, taskVars, cancelVars, criticalVars, powerVars, removalVars,
      returnVars, Long
<1>18. ASSUME Notify PROVE DataOK'
  BY <1>18, DeviceAssumption DEF Notify, DataOK, Vfunc, Handler, Answer, Running, vars, taskVars,
      cancelVars, criticalVars, powerVars, removalVars, returnVars, Long
<1>19. ASSUME Remove PROVE DataOK'
  BY <1>19, DeviceAssumption DEF Remove, MainLoop, DataOK, Vfunc, Handler, Answer, Running, vars,
      taskVars, cancelVars, criticalVars, powerVars, removalVars, returnVars, Long
<1>20. ASSUME Overheat PROVE DataOK'
  BY <1>20, DeviceAssumption DEF Overheat, MainLoop, CancelFor, CancelInternal, DataOK, Vfunc,
      Handler, Answer, Running, vars, taskVars, cancelVars, criticalVars, powerVars, removalVars,
      returnVars, Long
<1>21. ASSUME UNCHANGED vars PROVE DataOK'
  BY <1>21 DEF vars, taskVars, cancelVars, criticalVars, powerVars, removalVars, returnVars,
      DataOK, Vfunc, Handler, Answer, Running, vars, taskVars, cancelVars, criticalVars,
      powerVars, removalVars, returnVars, Long
<1> QED
  BY <1>1, <1>2, <1>3, <1>4, <1>5, <1>6, <1>7, <1>8, <1>9, <1>10, <1>11, <1>12, <1>13, <1>14,
      <1>15, <1>16, <1>17, <1>18, <1>19, <1>20, <1>21
  DEF Next, Client, Driver, Loop, Flush, Close, Enroll, Verify, Identify, Capture,
      DeletePrint, ListPrints, OpenedCall, Accept

(* What is pending belongs to the current action.                             *)
LEMMA TaskStep ==
  ASSUME FlagsOK, critical \in Nat, TaskInv, [Next]_vars
  PROVE  TaskInv'
<1>1. ASSUME Open PROVE TaskInv'
  BY <1>1 DEF Open, Accept, FlagsOK, TaskInv, Running, Long, vars, taskVars, cancelVars,
      criticalVars, powerVars, removalVars, returnVars
<1>2. ASSUME \E op \in Calls \ {"open"} : OpenedCall(op) PROVE TaskInv'
  BY <1>2 DEF OpenedCall, Accept, FlagsOK, TaskInv, Running, Long, vars, taskVars, cancelVars,
      criticalVars, powerVars, removalVars, returnVars
<1>3. ASSUME ClearStorage PROVE TaskInv'
  BY <1>3 DEF ClearStorage, Accept, FlagsOK, TaskInv, Running, Long, vars, taskVars, cancelVars,
      criticalVars, powerVars, removalVars, returnVars
<1>4. ASSUME Cancel PROVE TaskInv'
  BY <1>4 DEF Cancel, CancelInternal, FlagsOK, TaskInv, Running, Long, vars, taskVars,
      cancelVars, criticalVars, powerVars, removalVars, returnVars
<1>5. ASSUME Suspend PROVE TaskInv'
  <2>1. CASE action = "none"
    <3>1. UNCHANGED <<action, result, idle_cancel, cancelled, critical, flush, returning, leaving, reason, handlers>>
      BY <1>5, <2>1 DEF Suspend, FpiSuspend, SuspendComplete, CancelFor, CancelInternal, vars,
          taskVars, cancelVars, criticalVars, powerVars, removalVars, returnVars, Long, Short
    <3>2. queued = {} /\ queued' = {}
      BY <1>5, <2>1 DEF Suspend, FpiSuspend, SuspendComplete, CancelFor, CancelInternal, TaskInv,
          Long, Short
    <3> QED  BY <2>1, <3>1, <3>2 DEF TaskInv, Running
  <2>2. CASE action \in Long /\ "suspend" \notin cls
    BY <1>5, <2>2 DEF Suspend, FpiSuspend, SuspendComplete, CancelFor, CancelInternal, FlagsOK,
        TaskInv, Running, Long, vars, taskVars, cancelVars, criticalVars, powerVars, removalVars,
        returnVars
  <2>3. CASE action \in Long /\ "suspend" \in cls /\ critical > 0
    BY <1>5, <2>3 DEF Suspend, FpiSuspend, SuspendComplete, CancelFor, CancelInternal, FlagsOK,
        TaskInv, Running, Long, vars, taskVars, cancelVars, criticalVars, powerVars, removalVars,
        returnVars
  <2>4. CASE action \in Long /\ "suspend" \in cls /\ ~(critical > 0)
    BY <1>5, <2>4 DEF Suspend, FpiSuspend, SuspendComplete, CancelFor, CancelInternal, FlagsOK,
        TaskInv, Running, Long, vars, taskVars, cancelVars, criticalVars, powerVars, removalVars,
        returnVars
  <2>5. CASE action \in Short
    BY <1>5, <2>5 DEF Suspend, FpiSuspend, SuspendComplete, CancelFor, CancelInternal, FlagsOK,
        TaskInv, Running, Long, vars, taskVars, cancelVars, criticalVars, powerVars, removalVars,
        returnVars, Short
  <2> QED  BY <1>5, <2>1, <2>2, <2>3, <2>4, <2>5 DEF Suspend, FpiSuspend
<1>6. ASSUME Resume PROVE TaskInv'
  <2>1. CASE action = "none" \/ (action \in Long /\ "resume" \notin cls)
    BY <1>6, <2>1 DEF Resume, FpiResume, ResumeComplete, FlagsOK, TaskInv, Running, Long, vars,
        taskVars, cancelVars, criticalVars, powerVars, removalVars, returnVars
  <2>2. CASE action \in Long /\ "resume" \in cls /\ critical > 0
    <3>1. UNCHANGED <<action, result, idle_cancel, cancelled, critical, flush, returning, leaving, reason, handlers>>
      BY <1>6, <2>2 DEF Resume, FpiResume, ResumeComplete, vars, taskVars, cancelVars,
          criticalVars, powerVars, removalVars, returnVars
    <3>2. queued' = queued \cup {"resume"} /\ action # "none"
      BY <1>6, <2>2 DEF Resume, FpiResume, Long
    <3> QED  BY <2>2, <3>1, <3>2 DEF TaskInv, Running
  <2>3. CASE action \in Long /\ "resume" \in cls /\ ~(critical > 0)
    BY <1>6, <2>3 DEF Resume, FpiResume, ResumeComplete, FlagsOK, TaskInv, Running, Long, vars,
        taskVars, cancelVars, criticalVars, powerVars, removalVars, returnVars
  <2> QED  BY <1>6, <2>1, <2>2, <2>3 DEF Resume, FpiResume
<1>7. ASSUME DriverEnters PROVE TaskInv'
  BY <1>7 DEF DriverEnters, CriticalEnter, FlagsOK, TaskInv, Running, Long, vars, taskVars,
      cancelVars, criticalVars, powerVars, removalVars, returnVars
<1>8. ASSUME DriverLeaves PROVE TaskInv'
  <2>1. UNCHANGED <<action, result, idle_cancel, cancelled, queued, returning, leaving, reason, handlers>>
    BY <1>8 DEF DriverLeaves, vars, taskVars, cancelVars, criticalVars, powerVars, removalVars,
        returnVars
  <2>2. CASE critical = 1
    <3>1. flush'
      BY <1>8, <2>2, Zenon DEF DriverLeaves, CriticalLeave
    <3>2. critical' = 0 /\ action # "none"
      BY <1>8, <2>2 DEF DriverLeaves, CriticalLeave
    <3> QED  BY <2>1, <3>1, <3>2 DEF TaskInv, Running
  <2>3. CASE critical # 1
    <3>1. ~flush'
      BY <1>8, <2>3, Zenon DEF DriverLeaves, CriticalLeave
    <3>2. critical' > 0 /\ action # "none"
      BY <1>8, <2>3 DEF DriverLeaves, CriticalLeave
    <3> QED  BY <2>1, <3>1, <3>2 DEF TaskInv, Running
  <2> QED  BY <2>2, <2>3
<1>9. ASSUME DriverCompletes PROVE TaskInv'
  BY <1>9 DEF DriverCompletes, Complete, FlagsOK, TaskInv, Running, Long, vars, taskVars,
      cancelVars, criticalVars, powerVars, removalVars, returnVars
<1>10. ASSUME DriverSuspends PROVE TaskInv'
  BY <1>10 DEF DriverSuspends, SuspendComplete, CancelFor, CancelInternal, FlagsOK, TaskInv,
      Running, Long, vars, taskVars, cancelVars, criticalVars, powerVars, removalVars, returnVars
<1>11. ASSUME DriverResumes PROVE TaskInv'
  BY <1>11 DEF DriverResumes, ResumeComplete, FlagsOK, TaskInv, Running, Long, vars, taskVars,
      cancelVars, criticalVars, powerVars, removalVars, returnVars
<1>12. ASSUME IdleCancel PROVE TaskInv'
  BY <1>12 DEF IdleCancel, Idle, MainLoop, FlagsOK, TaskInv, Running, Long, vars, taskVars,
      cancelVars, criticalVars, powerVars, removalVars, returnVars
<1>13. ASSUME Flush /\ FlushCancel PROVE TaskInv'
  BY <1>13 DEF Flush, FlushCancel, MainLoop, FlagsOK, TaskInv, Running, Long, vars, taskVars,
      cancelVars, criticalVars, powerVars, removalVars, returnVars
<1>14. ASSUME Flush /\ FlushSuspend PROVE TaskInv'
  <2>1. CASE action = "none"
    <3>1. UNCHANGED <<action, result, idle_cancel, cancelled, critical, flush, returning, leaving, reason, handlers>>
      BY <1>14, <2>1 DEF Flush, FlushSuspend, MainLoop, FpiSuspend, SuspendComplete, CancelFor,
          CancelInternal, vars, taskVars, cancelVars, criticalVars, powerVars, removalVars,
          returnVars, Long, Short
    <3>2. queued = {} /\ queued' = {}
      BY <1>14, <2>1 DEF Flush, FlushSuspend, MainLoop, FpiSuspend, SuspendComplete, CancelFor,
          CancelInternal, TaskInv, Long, Short
    <3> QED  BY <2>1, <3>1, <3>2 DEF TaskInv, Running
  <2>2. CASE action \in Long /\ "suspend" \notin cls
    BY <1>14, <2>2 DEF Flush, FlushSuspend, MainLoop, FpiSuspend, SuspendComplete, CancelFor,
        CancelInternal, FlagsOK, TaskInv, Running, Long, vars, taskVars, cancelVars,
        criticalVars, powerVars, removalVars, returnVars
  <2>3. CASE action \in Long /\ "suspend" \in cls /\ critical > 0
    BY <1>14, <2>3 DEF Flush, FlushSuspend, MainLoop, FpiSuspend, SuspendComplete, CancelFor,
        CancelInternal, FlagsOK, TaskInv, Running, Long, vars, taskVars, cancelVars,
        criticalVars, powerVars, removalVars, returnVars
  <2>4. CASE action \in Long /\ "suspend" \in cls /\ ~(critical > 0)
    BY <1>14, <2>4 DEF Flush, FlushSuspend, MainLoop, FpiSuspend, SuspendComplete, CancelFor,
        CancelInternal, FlagsOK, TaskInv, Running, Long, vars, taskVars, cancelVars,
        criticalVars, powerVars, removalVars, returnVars
  <2>5. CASE action \in Short
    BY <1>14, <2>5 DEF Flush, FlushSuspend, MainLoop, FpiSuspend, SuspendComplete, CancelFor,
        CancelInternal, FlagsOK, TaskInv, Running, Long, vars, taskVars, cancelVars,
        criticalVars, powerVars, removalVars, returnVars, Short
  <2> QED  BY <1>14, <2>1, <2>2, <2>3, <2>4, <2>5 DEF Flush, FlushSuspend, MainLoop, FpiSuspend
<1>15. ASSUME Flush /\ FlushResume PROVE TaskInv'
  BY <1>15 DEF Flush, FlushResume, MainLoop, FpiResume, ResumeComplete, FlagsOK, TaskInv,
      Running, Long, vars, taskVars, cancelVars, criticalVars, powerVars, removalVars, returnVars
<1>16. ASSUME Flush /\ FlushEnd PROVE TaskInv'
  BY <1>16 DEF Flush, FlushEnd, MainLoop, FlagsOK, TaskInv, Running, Long, vars, taskVars,
      cancelVars, criticalVars, powerVars, removalVars, returnVars
<1>17. ASSUME TaskReturn PROVE TaskInv'
  BY <1>17 DEF TaskReturn, ReturnTask, Idle, MainLoop, ReturnedAnswer, FlagsOK, TaskInv, Running, Long, vars,
      taskVars, cancelVars, criticalVars, powerVars, removalVars, returnVars
<1>18. ASSUME Notify PROVE TaskInv'
  BY <1>18 DEF Notify, FlagsOK, TaskInv, Running, Long, vars, taskVars, cancelVars, criticalVars,
      powerVars, removalVars, returnVars
<1>19. ASSUME Remove PROVE TaskInv'
  BY <1>19 DEF Remove, MainLoop, FlagsOK, TaskInv, Running, Long, vars, taskVars, cancelVars,
      criticalVars, powerVars, removalVars, returnVars
<1>20. ASSUME Overheat PROVE TaskInv'
  BY <1>20 DEF Overheat, MainLoop, CancelFor, CancelInternal, FlagsOK, TaskInv, Running, Long,
      vars, taskVars, cancelVars, criticalVars, powerVars, removalVars, returnVars
<1>21. ASSUME UNCHANGED vars PROVE TaskInv'
  BY <1>21 DEF vars, taskVars, cancelVars, criticalVars, powerVars, removalVars, returnVars,
      FlagsOK, TaskInv, Running, Long, vars, taskVars, cancelVars, criticalVars, powerVars,
      removalVars, returnVars
<1> QED
  BY <1>1, <1>2, <1>3, <1>4, <1>5, <1>6, <1>7, <1>8, <1>9, <1>10, <1>11, <1>12, <1>13, <1>14,
      <1>15, <1>16, <1>17, <1>18, <1>19, <1>20, <1>21
  DEF Next, Client, Driver, Loop, Flush, Close, Enroll, Verify, Identify, Capture,
      DeletePrint, ListPrints, OpenedCall, Accept

(* The USB device stays open under an open device.                            *)
LEMMA UsbStep ==
  ASSUME FlagsOK, TaskInv, UsbInv, [Next]_vars
  PROVE  UsbInv'
<1>1. ASSUME Open PROVE UsbInv'
  BY <1>1 DEF Open, Accept, FlagsOK, TaskInv, UsbInv, Running, Long, vars, taskVars, cancelVars,
      criticalVars, powerVars, removalVars, returnVars
<1>2. ASSUME \E op \in Calls \ {"open"} : OpenedCall(op) PROVE UsbInv'
  BY <1>2 DEF OpenedCall, Accept, FlagsOK, TaskInv, UsbInv, Running, Long, vars, taskVars,
      cancelVars, criticalVars, powerVars, removalVars, returnVars
<1>3. ASSUME ClearStorage PROVE UsbInv'
  BY <1>3 DEF ClearStorage, Accept, FlagsOK, TaskInv, UsbInv, Running, Long, vars, taskVars,
      cancelVars, criticalVars, powerVars, removalVars, returnVars
<1>4. ASSUME Cancel PROVE UsbInv'
  BY <1>4 DEF Cancel, CancelInternal, FlagsOK, TaskInv, UsbInv, Running, Long, vars, taskVars,
      cancelVars, criticalVars, powerVars, removalVars, returnVars
<1>5. ASSUME Suspend PROVE UsbInv'
  BY <1>5 DEF Suspend, FpiSuspend, SuspendComplete, CancelFor, CancelInternal, FlagsOK, TaskInv,
      UsbInv, Running, Long, vars, taskVars, cancelVars, criticalVars, powerVars, removalVars,
      returnVars
<1>6. ASSUME Resume PROVE UsbInv'
  BY <1>6 DEF Resume, FpiResume, ResumeComplete, FlagsOK, TaskInv, UsbInv, Running, Long, vars,
      taskVars, cancelVars, criticalVars, powerVars, removalVars, returnVars
<1>7. ASSUME DriverEnters PROVE UsbInv'
  BY <1>7 DEF DriverEnters, CriticalEnter, FlagsOK, TaskInv, UsbInv, Running, Long, vars,
      taskVars, cancelVars, criticalVars, powerVars, removalVars, returnVars
<1>8. ASSUME DriverLeaves PROVE UsbInv'
  BY <1>8 DEF DriverLeaves, CriticalLeave, FlagsOK, TaskInv, UsbInv, Running, Long, vars,
      taskVars, cancelVars, criticalVars, powerVars, removalVars, returnVars
<1>9. ASSUME DriverCompletes PROVE UsbInv'
  BY <1>9 DEF DriverCompletes, Complete, FlagsOK, TaskInv, UsbInv, Running, Long, vars, taskVars,
      cancelVars, criticalVars, powerVars, removalVars, returnVars
<1>10. ASSUME DriverSuspends PROVE UsbInv'
  BY <1>10 DEF DriverSuspends, SuspendComplete, CancelFor, CancelInternal, FlagsOK, TaskInv,
      UsbInv, Running, Long, vars, taskVars, cancelVars, criticalVars, powerVars, removalVars,
      returnVars
<1>11. ASSUME DriverResumes PROVE UsbInv'
  BY <1>11 DEF DriverResumes, ResumeComplete, FlagsOK, TaskInv, UsbInv, Running, Long, vars,
      taskVars, cancelVars, criticalVars, powerVars, removalVars, returnVars
<1>12. ASSUME IdleCancel PROVE UsbInv'
  BY <1>12 DEF IdleCancel, Idle, MainLoop, FlagsOK, TaskInv, UsbInv, Running, Long, vars,
      taskVars, cancelVars, criticalVars, powerVars, removalVars, returnVars
<1>13. ASSUME Flush /\ FlushCancel PROVE UsbInv'
  BY <1>13 DEF Flush, FlushCancel, MainLoop, FlagsOK, TaskInv, UsbInv, Running, Long, vars,
      taskVars, cancelVars, criticalVars, powerVars, removalVars, returnVars
<1>14. ASSUME Flush /\ FlushSuspend PROVE UsbInv'
  BY <1>14 DEF Flush, FlushSuspend, MainLoop, FpiSuspend, SuspendComplete, CancelFor,
      CancelInternal, FlagsOK, TaskInv, UsbInv, Running, Long, vars, taskVars, cancelVars,
      criticalVars, powerVars, removalVars, returnVars
<1>15. ASSUME Flush /\ FlushResume PROVE UsbInv'
  BY <1>15 DEF Flush, FlushResume, MainLoop, FpiResume, ResumeComplete, FlagsOK, TaskInv, UsbInv,
      Running, Long, vars, taskVars, cancelVars, criticalVars, powerVars, removalVars, returnVars
<1>16. ASSUME Flush /\ FlushEnd PROVE UsbInv'
  BY <1>16 DEF Flush, FlushEnd, MainLoop, FlagsOK, TaskInv, UsbInv, Running, Long, vars,
      taskVars, cancelVars, criticalVars, powerVars, removalVars, returnVars
<1>17. ASSUME TaskReturn PROVE UsbInv'
  BY <1>17 DEF TaskReturn, ReturnTask, Idle, MainLoop, ReturnedAnswer, FlagsOK, TaskInv, UsbInv, Running,
      Long, vars, taskVars, cancelVars, criticalVars, powerVars, removalVars, returnVars
<1>18. ASSUME Notify PROVE UsbInv'
  BY <1>18 DEF Notify, FlagsOK, TaskInv, UsbInv, Running, Long, vars, taskVars, cancelVars,
      criticalVars, powerVars, removalVars, returnVars
<1>19. ASSUME Remove PROVE UsbInv'
  BY <1>19 DEF Remove, MainLoop, FlagsOK, TaskInv, UsbInv, Running, Long, vars, taskVars,
      cancelVars, criticalVars, powerVars, removalVars, returnVars
<1>20. ASSUME Overheat PROVE UsbInv'
  BY <1>20 DEF Overheat, MainLoop, CancelFor, CancelInternal, FlagsOK, TaskInv, UsbInv, Running,
      Long, vars, taskVars, cancelVars, criticalVars, powerVars, removalVars, returnVars
<1>21. ASSUME UNCHANGED vars PROVE UsbInv'
  BY <1>21 DEF vars, taskVars, cancelVars, criticalVars, powerVars, removalVars, returnVars,
      FlagsOK, TaskInv, UsbInv, Running, Long, vars, taskVars, cancelVars, criticalVars,
      powerVars, removalVars, returnVars
<1> QED
  BY <1>1, <1>2, <1>3, <1>4, <1>5, <1>6, <1>7, <1>8, <1>9, <1>10, <1>11, <1>12, <1>13, <1>14,
      <1>15, <1>16, <1>17, <1>18, <1>19, <1>20, <1>21
  DEF Next, Client, Driver, Loop, Flush, Close, Enroll, Verify, Identify, Capture,
      DeletePrint, ListPrints, OpenedCall, Accept

(* A handler that is not the one of the removal changes nothing for it.       *)
LEMMA RemovalKept ==
  ASSUME handlers \in Seq(Handler), RemovalInv,
         UNCHANGED <<is_removed, announced, returning, leaving, action>>,
         handlers' = handlers \/ \E e \in {"suspended", "short"} : handlers' = Append(handlers, e)
  PROVE  RemovalInv'
<1>1. CASE handlers' = handlers
  BY <1>1 DEF RemovalInv, RemovedOnce, Connected, Single, Connected, Single, Has, Once
<1>2. ASSUME NEW e \in {"suspended", "short"}, handlers' = Append(handlers, e)
      PROVE  RemovalInv'
  <2>1. Has(handlers', "removed") <=> Has(handlers, "removed")
    BY <1>2, HasAppend DEF Handler
  <2>2. Once(handlers', "removed")
    BY <1>2, OnceAppend DEF Handler, RemovalInv, Single
  <2> QED  BY <2>1, <2>2 DEF RemovalInv, RemovedOnce, Connected, Single
<1> QED  BY <1>1, <1>2

(* The removed signal and its handler.                                        *)
LEMMA RemovalStep ==
  ASSUME TypeOK, TaskInv, RemovalInv, [Next]_vars
  PROVE  RemovalInv'
<1>1. ASSUME Open PROVE RemovalInv'
  BY <1>1 DEF Open, Accept, TypeOK, FlagsOK, TaskInv, RemovalInv, RemovedOnce, Connected, Single,
      Running, Long, vars, taskVars, cancelVars, criticalVars, powerVars, removalVars, returnVars
<1>2. ASSUME \E op \in Calls \ {"open"} : OpenedCall(op) PROVE RemovalInv'
  BY <1>2 DEF OpenedCall, Accept, TypeOK, FlagsOK, TaskInv, RemovalInv, RemovedOnce, Connected,
      Single, Running, Long, vars, taskVars, cancelVars, criticalVars, powerVars, removalVars,
      returnVars
<1>3. ASSUME ClearStorage PROVE RemovalInv'
  BY <1>3 DEF ClearStorage, Accept, TypeOK, FlagsOK, TaskInv, RemovalInv, RemovedOnce, Connected,
      Single, Running, Long, vars, taskVars, cancelVars, criticalVars, powerVars, removalVars,
      returnVars
<1>4. ASSUME Cancel PROVE RemovalInv'
  BY <1>4 DEF Cancel, CancelInternal, TypeOK, FlagsOK, TaskInv, RemovalInv, RemovedOnce,
      Connected, Single, Running, Long, vars, taskVars, cancelVars, criticalVars, powerVars,
      removalVars, returnVars
<1>5. ASSUME Suspend PROVE RemovalInv'
  <2>1. UNCHANGED <<is_removed, announced, returning, leaving, action>>
    BY <1>5 DEF Suspend, vars, taskVars, cancelVars, criticalVars, powerVars, removalVars,
        returnVars
  <2>2. handlers' = handlers \/ \E e \in {"suspended", "short"} : handlers' = Append(handlers, e)
    BY <1>5 DEF Suspend, FpiSuspend, SuspendComplete, CancelFor, CancelInternal
  <2> QED  BY <2>1, <2>2, RemovalKept DEF TypeOK, DataOK
<1>6. ASSUME Resume PROVE RemovalInv'
  BY <1>6 DEF Resume, FpiResume, ResumeComplete, TypeOK, FlagsOK, TaskInv, RemovalInv,
      RemovedOnce, Connected, Single, Running, Long, vars, taskVars, cancelVars, criticalVars,
      powerVars, removalVars, returnVars
<1>7. ASSUME DriverEnters PROVE RemovalInv'
  BY <1>7 DEF DriverEnters, CriticalEnter, TypeOK, FlagsOK, TaskInv, RemovalInv, RemovedOnce,
      Connected, Single, Running, Long, vars, taskVars, cancelVars, criticalVars, powerVars,
      removalVars, returnVars
<1>8. ASSUME DriverLeaves PROVE RemovalInv'
  BY <1>8 DEF DriverLeaves, CriticalLeave, TypeOK, FlagsOK, TaskInv, RemovalInv, RemovedOnce,
      Connected, Single, Running, Long, vars, taskVars, cancelVars, criticalVars, powerVars,
      removalVars, returnVars
<1>9. ASSUME DriverCompletes PROVE RemovalInv'
  BY <1>9 DEF DriverCompletes, Complete, TypeOK, FlagsOK, TaskInv, RemovalInv, RemovedOnce,
      Connected, Single, Running, Long, vars, taskVars, cancelVars, criticalVars, powerVars,
      removalVars, returnVars
<1>10. ASSUME DriverSuspends PROVE RemovalInv'
  <2>1. UNCHANGED <<is_removed, announced, returning, leaving, action>>
    BY <1>10 DEF DriverSuspends, vars, taskVars, cancelVars, criticalVars, powerVars,
        removalVars, returnVars
  <2>2. handlers' = handlers \/ \E e \in {"suspended", "short"} : handlers' = Append(handlers, e)
    BY <1>10 DEF DriverSuspends, FpiSuspend, SuspendComplete, CancelFor, CancelInternal
  <2> QED  BY <2>1, <2>2, RemovalKept DEF TypeOK, DataOK
<1>11. ASSUME DriverResumes PROVE RemovalInv'
  BY <1>11 DEF DriverResumes, ResumeComplete, TypeOK, FlagsOK, TaskInv, RemovalInv, RemovedOnce,
      Connected, Single, Running, Long, vars, taskVars, cancelVars, criticalVars, powerVars,
      removalVars, returnVars
<1>12. ASSUME IdleCancel PROVE RemovalInv'
  BY <1>12 DEF IdleCancel, Idle, MainLoop, TypeOK, FlagsOK, TaskInv, RemovalInv, RemovedOnce,
      Connected, Single, Running, Long, vars, taskVars, cancelVars, criticalVars, powerVars,
      removalVars, returnVars
<1>13. ASSUME Flush /\ FlushCancel PROVE RemovalInv'
  BY <1>13 DEF Flush, FlushCancel, MainLoop, TypeOK, FlagsOK, TaskInv, RemovalInv, RemovedOnce,
      Connected, Single, Running, Long, vars, taskVars, cancelVars, criticalVars, powerVars,
      removalVars, returnVars
<1>14. ASSUME Flush /\ FlushSuspend PROVE RemovalInv'
  <2>1. UNCHANGED <<is_removed, announced, returning, leaving, action>>
    BY <1>14 DEF Flush, FlushSuspend, MainLoop, vars, taskVars, cancelVars, criticalVars,
        powerVars, removalVars, returnVars
  <2>2. handlers' = handlers \/ \E e \in {"suspended", "short"} : handlers' = Append(handlers, e)
    BY <1>14 DEF Flush, FlushSuspend, MainLoop, FpiSuspend, SuspendComplete, CancelFor,
        CancelInternal
  <2> QED  BY <2>1, <2>2, RemovalKept DEF TypeOK, DataOK
<1>15. ASSUME Flush /\ FlushResume PROVE RemovalInv'
  BY <1>15 DEF Flush, FlushResume, MainLoop, FpiResume, ResumeComplete, TypeOK, FlagsOK, TaskInv,
      RemovalInv, RemovedOnce, Connected, Single, Running, Long, vars, taskVars, cancelVars,
      criticalVars, powerVars, removalVars, returnVars
<1>16. ASSUME Flush /\ FlushEnd PROVE RemovalInv'
  BY <1>16 DEF Flush, FlushEnd, MainLoop, TypeOK, FlagsOK, TaskInv, RemovalInv, RemovedOnce,
      Connected, Single, Running, Long, vars, taskVars, cancelVars, criticalVars, powerVars,
      removalVars, returnVars
<1>17. ASSUME TaskReturn PROVE RemovalInv'
  <2>1. leaving = <<>> /\ leaving' = handlers /\ handlers' = <<>> /\ returning' = TRUE
    BY <1>17 DEF TaskReturn, ReturnTask, Idle, MainLoop, TaskInv
  <2>2. UNCHANGED <<is_removed, announced>>
    BY <1>17 DEF TaskReturn, ReturnTask, removalVars
  <2>3. ~Has(handlers', "removed") /\ ~Has(leaving, "removed") /\ Once(handlers', "removed")
    BY <2>1, HasEmpty DEF Once
  <2> QED  BY <2>1, <2>2, <2>3 DEF RemovalInv, RemovedOnce, Connected, Single
<1>18. ASSUME Notify PROVE RemovalInv'
  <2>1. UNCHANGED <<is_removed, handlers, action>>
    BY <1>18 DEF Notify, taskVars
  <2>2. CASE leaving = <<>>
    <3>1. leaving' = <<>> /\ announced' = announced
      BY <1>18, <2>2 DEF Notify, TypeOK, FlagsOK
    <3>2. ~Has(leaving, "removed") /\ ~Has(leaving', "removed") /\ Once(leaving', "removed")
      BY <2>2, <3>1, HasEmpty DEF Once
    <3> QED  BY <2>1, <3>1, <3>2 DEF RemovalInv, RemovedOnce, Connected, Single
  <2>3. CASE leaving # <<>>
    <3>1. leaving' = Tail(leaving) /\ returning' /\ announced' = (announced \/ Head(leaving) = "removed")
      BY <1>18, <2>3 DEF Notify
    <3>2. leaving \in Seq(Handler)
      BY DEF TypeOK, DataOK
    <3>3. Once(leaving', "removed") /\ (Head(leaving) = "removed" => ~Has(leaving', "removed"))
      BY <2>3, <3>1, <3>2, OnceTail DEF RemovalInv, Single
    <3>4. Has(leaving, "removed") <=> Head(leaving) = "removed" \/ Has(leaving', "removed")
      BY <2>3, <3>1, <3>2, HasTail
    <3>5. CASE Head(leaving) = "removed"
      <4>1. announced' = TRUE
        BY <3>1, <3>5
      <4> QED  BY <2>1, <3>1, <3>3, <3>4, <3>5, <4>1 DEF RemovalInv, RemovedOnce, Connected, Single
    <3>6. CASE Head(leaving) # "removed"
      <4>1. announced' = announced
        BY <3>1, <3>6 DEF TypeOK, FlagsOK
      <4> QED  BY <1>18, <2>1, <3>1, <3>3, <3>4, <3>6, <4>1 DEF Notify, RemovalInv, RemovedOnce,
          Connected, Single
    <3> QED  BY <3>5, <3>6
  <2> QED  BY <2>2, <2>3
<1>19. ASSUME Remove PROVE RemovalInv'
  <2>1. UNCHANGED <<action, returning, leaving>> /\ is_removed' = TRUE /\ ~is_removed /\ leaving = <<>>
    BY <1>19 DEF Remove, MainLoop, TaskInv, taskVars, returnVars
  <2>2. ~Has(leaving, "removed") /\ ~Has(handlers, "removed") /\ ~announced
    BY <2>1, HasEmpty DEF RemovalInv, RemovedOnce, Connected, Single
  <2>3. CASE action # "none"
    <3>1. handlers' = Append(handlers, "removed") /\ announced' = announced
      BY <1>19, <2>3 DEF Remove
    <3>2. Has(handlers', "removed") /\ Once(handlers', "removed")
      BY <2>2, <3>1, HasAppend, OnceAppend DEF TypeOK, DataOK, Handler, RemovalInv, Single
    <3> QED  BY <2>1, <2>2, <2>3, <3>1, <3>2 DEF RemovalInv, RemovedOnce, Connected, Single
  <2>4. CASE action = "none"
    BY <1>19, <2>1, <2>2, <2>4 DEF Remove, RemovalInv, RemovedOnce, Connected, Single
  <2> QED  BY <2>3, <2>4
<1>20. ASSUME Overheat PROVE RemovalInv'
  BY <1>20 DEF Overheat, MainLoop, CancelFor, CancelInternal, TypeOK, FlagsOK, TaskInv,
      RemovalInv, RemovedOnce, Connected, Single, Running, Long, vars, taskVars, cancelVars,
      criticalVars, powerVars, removalVars, returnVars
<1>21. ASSUME UNCHANGED vars PROVE RemovalInv'
  BY <1>21 DEF vars, taskVars, cancelVars, criticalVars, powerVars, removalVars, returnVars,
      TypeOK, FlagsOK, TaskInv, RemovalInv, RemovedOnce, Connected, Single, Running, Long, vars,
      taskVars, cancelVars, criticalVars, powerVars, removalVars, returnVars
<1> QED
  BY <1>1, <1>2, <1>3, <1>4, <1>5, <1>6, <1>7, <1>8, <1>9, <1>10, <1>11, <1>12, <1>13, <1>14,
      <1>15, <1>16, <1>17, <1>18, <1>19, <1>20, <1>21
  DEF Next, Client, Driver, Loop, Flush, Close, Enroll, Verify, Identify, Capture,
      DeletePrint, ListPrints, OpenedCall, Accept

(* A handler appended that was not connected yet.                             *)
LEMMA ConnectOne ==
  ASSUME handlers \in Seq(Handler), NEW e \in Handler, ~Connected(e),
         handlers' = Append(handlers, e), leaving' = leaving, NEW h \in Handler, Single(h)
  PROVE  /\ Has(handlers', h) <=> Has(handlers, h) \/ h = e
         /\ Single(h)'
<1>1. Has(handlers', h) <=> Has(handlers, h) \/ h = e
  BY HasAppend
<1>2. Once(handlers', h)
  BY OnceAppend DEF Single, Connected
<1> QED  BY <1>1, <1>2 DEF Single, Connected

(* Handlers and leaving as they were.                                         *)
LEMMA ConnectNone ==
  ASSUME handlers' = handlers, leaving' = leaving, NEW h
  PROVE  Has(handlers', h) = Has(handlers, h) /\ Has(leaving', h) = Has(leaving, h) /\ Single(h)' = Single(h)
  BY DEF Single

(* The driver answers a suspend or a resume, in or out of critical sections.  *)
SuspendAnswered ==
  /\ asked = "suspend" /\ asked' = "none"
  /\ \E ok \in BOOLEAN : SuspendComplete(ok)
  /\ UNCHANGED <<cls, taskVars, queued, removalVars, returnVars>>

ResumeAnswered ==
  /\ asked = "resume" /\ asked' = "none"
  /\ ResumeComplete
  /\ UNCHANGED <<cls, taskVars, cancelVars, queued, suspend_error, removalVars, handlers,
                 returnVars>>

LEMMA SuspendAnsweredKeepsPower ==
  ASSUME TypeOK, TaskInv, PowerInv, SuspendAnswered
  PROVE  PowerInv'
<1>1. asked = "suspend" /\ request = "suspend" /\ ~is_suspended /\ reason # "busy"
       /\ queued \subseteq {"cancel"} /\ ~Connected("suspended") /\ ~Connected("short")
  BY DEF SuspendAnswered, PowerInv, RequestHasAnswerer, SuspendedActionAgreed, Connected
<1>2. UNCHANGED <<action, leaving, queued>> /\ asked' = "none"
  BY DEF SuspendAnswered, taskVars, returnVars
<1>3. /\ handlers \in Seq(Handler) /\ Single("suspended") /\ Single("short")
      /\ "suspended" \in Handler /\ "short" \in Handler
  BY DEF TypeOK, DataOK, PowerInv, Handler
<1> PICK ok \in BOOLEAN : SuspendComplete(ok)
  BY DEF SuspendAnswered
<1>4. CASE ok \/ action = "none"
  <2>1. handlers' = handlers
    BY <1>4 DEF SuspendComplete
  <2>2. /\ Has(handlers', "suspended") = Has(handlers, "suspended") /\ Has(leaving', "suspended") = Has(leaving, "suspended")
       /\ Has(handlers', "short") = Has(handlers, "short") /\ Has(leaving', "short") = Has(leaving, "short")
       /\ Single("suspended")' = Single("suspended") /\ Single("short")' = Single("short")
    BY <1>2, <2>1, ConnectNone
  <2> QED  BY <1>1, <1>2, <1>3, <1>4, <2>2 DEF SuspendComplete, CancelFor, CancelInternal,
      TypeOK, FlagsOK, TaskInv, PowerInv, RequestHasAnswerer, SuspendedActionAgreed, Connected,
      Long, cancelVars
<1>5. CASE ~(ok \/ action = "none")
  <2>1. handlers' = Append(handlers, "suspended")
    BY <1>5 DEF SuspendComplete
  <2>2. \A h \in {"suspended", "short"} :
         (Has(handlers', h) <=> h = "suspended") /\ ~Has(leaving', h) /\ Single(h)'
    BY <1>1, <1>2, <1>3, <2>1, ConnectOne DEF Connected
  <2>3. request' = "suspend" /\ is_suspended' /\ suspend_error' /\ cancelled' = TRUE /\ reason' # "none"
    BY <1>5 DEF SuspendComplete, CancelFor, CancelInternal
  <2> QED  BY <1>1, <1>2, <1>5, <2>2, <2>3 DEF PowerInv, RequestHasAnswerer,
      SuspendedActionAgreed, Connected
<1> QED  BY <1>4, <1>5

LEMMA ResumeAnsweredKeepsPower ==
  ASSUME TypeOK, TaskInv, PowerInv, ResumeAnswered
  PROVE  PowerInv'
<1>1. asked = "resume" /\ request = "resume" /\ queued \subseteq {"cancel"} /\ ~Connected("suspended") /\ ~Connected("short")
  BY DEF ResumeAnswered, PowerInv, RequestHasAnswerer, SuspendedActionAgreed, Connected
<1>2. asked' = "none" /\ request' = "none" /\ ~is_suspended' /\ UNCHANGED <<queued, reason, handlers, leaving>>
  BY DEF ResumeAnswered, ResumeComplete, cancelVars, returnVars
<1> QED  BY <1>1, <1>2, ConnectNone DEF PowerInv, RequestHasAnswerer, SuspendedActionAgreed,
    Connected

(* Every suspend and resume request keeps what answers it.                   *)
LEMMA PowerStep ==
  ASSUME TypeOK, TaskInv, PowerInv, [Next]_vars
  PROVE  PowerInv'
<1>1. ASSUME Open PROVE PowerInv'
  BY <1>1 DEF Open, Accept, TypeOK, FlagsOK, DataOK, Handler, TaskInv, PowerInv,
      RequestHasAnswerer, SuspendedActionAgreed, Connected, Single, Running, Long, Short, vars,
      taskVars, cancelVars, criticalVars, powerVars, removalVars, returnVars
<1>2. ASSUME \E op \in Calls \ {"open"} : OpenedCall(op) PROVE PowerInv'
  BY <1>2 DEF OpenedCall, Accept, TypeOK, FlagsOK, DataOK, Handler, TaskInv, PowerInv,
      RequestHasAnswerer, SuspendedActionAgreed, Connected, Single, Running, Long, Short, vars,
      taskVars, cancelVars, criticalVars, powerVars, removalVars, returnVars
<1>3. ASSUME ClearStorage PROVE PowerInv'
  BY <1>3 DEF ClearStorage, Accept, TypeOK, FlagsOK, DataOK, Handler, TaskInv, PowerInv,
      RequestHasAnswerer, SuspendedActionAgreed, Connected, Single, Running, Long, Short, vars,
      taskVars, cancelVars, criticalVars, powerVars, removalVars, returnVars
<1>4. ASSUME Cancel PROVE PowerInv'
  BY <1>4 DEF Cancel, CancelInternal, TypeOK, FlagsOK, DataOK, Handler, TaskInv, PowerInv,
      RequestHasAnswerer, SuspendedActionAgreed, Connected, Single, Running, Long, Short, vars,
      taskVars, cancelVars, criticalVars, powerVars, removalVars, returnVars
<1>5. ASSUME Suspend PROVE PowerInv'
  <2>1. request = "none" /\ ~is_suspended /\ asked = "none" /\ "resume" \notin queued /\ "suspend" \notin queued
    BY <1>5 DEF Suspend, PowerInv, RequestHasAnswerer, SuspendedActionAgreed, Connected, TypeOK,
        DataOK, TaskInv
  <2>2. ~Connected("suspended") /\ ~Connected("short") /\ reason # "busy"
    BY <1>5, <2>1 DEF Suspend, PowerInv, RequestHasAnswerer, SuspendedActionAgreed, Connected
  <2>3. UNCHANGED <<action, leaving>>
    BY <1>5 DEF Suspend, vars, taskVars, cancelVars, criticalVars, powerVars, removalVars,
        returnVars
  <2>4. handlers \in Seq(Handler) /\ Single("suspended") /\ Single("short") /\ "suspended" \in Handler /\ "short" \in Handler
    BY DEF TypeOK, DataOK, PowerInv, Handler
  <2>5. CASE action = "none"
    <3>1. handlers' = handlers
      BY <1>5, <2>5 DEF Suspend, FpiSuspend, SuspendComplete, CancelFor, CancelInternal, vars,
          taskVars, cancelVars, criticalVars, powerVars, removalVars, returnVars, Long, Short
    <3>2. \A h \in {"suspended", "short"} : ~Has(handlers', h) /\ ~Has(leaving', h) /\ Single(h)'
      BY <2>2, <2>3, <2>4, <3>1 DEF Connected, Single
    <3>3. request' = "none" /\ asked' = "none" /\ queued' = queued
      BY <1>5, <2>1, <2>5 DEF Suspend, FpiSuspend, SuspendComplete, CancelFor, CancelInternal,
          vars, taskVars, cancelVars, criticalVars, powerVars, removalVars, returnVars, Long,
          Short, TypeOK, FlagsOK
    <3>4. is_suspended' = TRUE /\ reason' = reason
      BY <1>5, <2>1, <2>5 DEF Suspend, FpiSuspend, SuspendComplete, CancelFor, CancelInternal,
          vars, taskVars, cancelVars, criticalVars, powerVars, removalVars, returnVars, Long,
          Short, TypeOK, FlagsOK
    <3> QED  BY <2>1, <2>2, <2>3, <2>5, <3>2, <3>3, <3>4 DEF PowerInv, RequestHasAnswerer,
        SuspendedActionAgreed, Connected, Long, Short, TypeOK, DataOK, FlagsOK, Vfunc
  <2>6. CASE action \in Long /\ "suspend" \notin cls
    <3>1. handlers' = Append(handlers, "suspended")
      BY <1>5, <2>6 DEF Suspend, FpiSuspend, SuspendComplete, CancelFor, CancelInternal, vars,
          taskVars, cancelVars, criticalVars, powerVars, removalVars, returnVars, Long, Short
    <3>2. \A h \in {"suspended", "short"} :
           (Has(handlers', h) <=> h = "suspended") /\ ~Has(leaving', h) /\ Single(h)'
      BY <2>2, <2>3, <2>4, <3>1, ConnectOne DEF Connected
    <3>3. request' = "suspend" /\ asked' = "none" /\ queued' = queued
      BY <1>5, <2>1, <2>6 DEF Suspend, FpiSuspend, SuspendComplete, CancelFor, CancelInternal,
          vars, taskVars, cancelVars, criticalVars, powerVars, removalVars, returnVars, Long,
          Short, TypeOK, FlagsOK
    <3>4. is_suspended' /\ suspend_error' /\ cancelled' = TRUE
      BY <1>5, <2>1, <2>6 DEF Suspend, FpiSuspend, SuspendComplete, CancelFor, CancelInternal,
          vars, taskVars, cancelVars, criticalVars, powerVars, removalVars, returnVars, Long,
          Short, TypeOK, FlagsOK
    <3>5. reason' # "none"
      BY <1>5, <2>1, <2>6 DEF Suspend, FpiSuspend, SuspendComplete, CancelFor, CancelInternal,
          vars, taskVars, cancelVars, criticalVars, powerVars, removalVars, returnVars, Long,
          Short, TypeOK, FlagsOK
    <3> QED  BY <2>1, <2>2, <2>3, <2>6, <3>2, <3>3, <3>4, <3>5 DEF PowerInv, RequestHasAnswerer,
        SuspendedActionAgreed, Connected, Long, Short, TypeOK, DataOK, FlagsOK, Vfunc
  <2>7. CASE action \in Long /\ "suspend" \in cls
    <3>1. handlers' = handlers
      BY <1>5, <2>7 DEF Suspend, FpiSuspend, SuspendComplete, CancelFor, CancelInternal, vars,
          taskVars, cancelVars, criticalVars, powerVars, removalVars, returnVars, Long, Short
    <3>2. \A h \in {"suspended", "short"} : ~Has(handlers', h) /\ ~Has(leaving', h) /\ Single(h)'
      BY <2>2, <2>3, <2>4, <3>1 DEF Connected, Single
    <3>3. request' = "suspend" /\ ((asked' = "none" /\ queued' = queued \cup {"suspend"}) \/ (asked' = "suspend" /\ queued' = queued))
      BY <1>5, <2>1, <2>7 DEF Suspend, FpiSuspend, SuspendComplete, CancelFor, CancelInternal,
          vars, taskVars, cancelVars, criticalVars, powerVars, removalVars, returnVars, Long,
          Short, TypeOK, FlagsOK
    <3>4. is_suspended' = is_suspended /\ reason' = reason
      BY <1>5, <2>1, <2>7 DEF Suspend, FpiSuspend, SuspendComplete, CancelFor, CancelInternal,
          vars, taskVars, cancelVars, criticalVars, powerVars, removalVars, returnVars, Long,
          Short, TypeOK, FlagsOK
    <3> QED  BY <2>1, <2>2, <2>3, <2>7, <3>2, <3>3, <3>4 DEF PowerInv, RequestHasAnswerer,
        SuspendedActionAgreed, Connected, Long, Short, TypeOK, DataOK, FlagsOK, Vfunc
  <2>8. CASE action \in Short
    <3>1. handlers' = Append(handlers, "short")
      BY <1>5, <2>8 DEF Suspend, FpiSuspend, SuspendComplete, CancelFor, CancelInternal, vars,
          taskVars, cancelVars, criticalVars, powerVars, removalVars, returnVars, Long, Short
    <3>2. \A h \in {"suspended", "short"} :
           (Has(handlers', h) <=> h = "short") /\ ~Has(leaving', h) /\ Single(h)'
      BY <2>2, <2>3, <2>4, <3>1, ConnectOne DEF Connected
    <3>3. request' = "suspend" /\ asked' = "none" /\ queued' = queued
      BY <1>5, <2>1, <2>8 DEF Suspend, FpiSuspend, SuspendComplete, CancelFor, CancelInternal,
          vars, taskVars, cancelVars, criticalVars, powerVars, removalVars, returnVars, Long,
          Short, TypeOK, FlagsOK
    <3>4. is_suspended' = is_suspended /\ reason' = reason
      BY <1>5, <2>1, <2>8 DEF Suspend, FpiSuspend, SuspendComplete, CancelFor, CancelInternal,
          vars, taskVars, cancelVars, criticalVars, powerVars, removalVars, returnVars, Long,
          Short, TypeOK, FlagsOK
    <3> QED  BY <2>1, <2>2, <2>3, <2>8, <3>2, <3>3, <3>4 DEF PowerInv, RequestHasAnswerer,
        SuspendedActionAgreed, Connected, Long, Short, TypeOK, DataOK, FlagsOK, Vfunc
  <2> QED  BY <1>5, <2>5, <2>6, <2>7, <2>8 DEF Suspend, FpiSuspend
<1>6. ASSUME Resume PROVE PowerInv'
  <2>1. request = "none" /\ is_suspended /\ asked = "none" /\ queued \subseteq {"cancel"}
    BY <1>6 DEF PowerInv, RequestHasAnswerer, SuspendedActionAgreed, Connected, Resume, TypeOK,
        DataOK, Vfunc
  <2>2. ~Connected("suspended") /\ ~Connected("short") /\ reason # "busy"
    BY <2>1 DEF PowerInv, RequestHasAnswerer, SuspendedActionAgreed, Connected
  <2>3. UNCHANGED <<handlers, leaving, reason, action, cancelled, suspend_error>>
    BY <1>6 DEF Resume, vars, taskVars, cancelVars, criticalVars, powerVars, removalVars, returnVars
  <2>4. ~Connected("suspended")' /\ ~Connected("short")' /\ Single("suspended")' /\ Single("short")'
    BY <2>2, <2>3 DEF Connected, Single, PowerInv
  <2>5. CASE action \in Long /\ "resume" \in cls
    <3>1. request' = "resume" /\ is_suspended'
      BY <1>6, <2>1, <2>5 DEF Resume, FpiResume, Long
    <3>2. (asked' = "resume" /\ queued' = queued) \/ (asked' = asked /\ queued' = queued \cup {"resume"})
      BY <1>6, <2>5 DEF Resume, FpiResume, Long
    <3> QED  BY <2>1, <2>2, <2>3, <2>4, <3>1, <3>2 DEF PowerInv, RequestHasAnswerer,
        SuspendedActionAgreed, Connected
  <2>6. CASE ~(action \in Long /\ "resume" \in cls)
    <3>1. request' = "none" /\ asked' = "none" /\ queued' = queued /\ is_suspended' = FALSE
      BY <1>6, <2>1, <2>6 DEF Resume, FpiResume, ResumeComplete
    <3> QED  BY <2>1, <2>2, <2>3, <2>4, <3>1 DEF PowerInv, RequestHasAnswerer,
        SuspendedActionAgreed, Connected
  <2> QED  BY <2>5, <2>6
<1>7. ASSUME DriverEnters PROVE PowerInv'
  BY <1>7 DEF DriverEnters, CriticalEnter, TypeOK, FlagsOK, DataOK, Handler, TaskInv, PowerInv,
      RequestHasAnswerer, SuspendedActionAgreed, Connected, Single, Running, Long, Short, vars,
      taskVars, cancelVars, criticalVars, powerVars, removalVars, returnVars
<1>8. ASSUME DriverLeaves PROVE PowerInv'
  BY <1>8 DEF DriverLeaves, CriticalLeave, TypeOK, FlagsOK, DataOK, Handler, TaskInv, PowerInv,
      RequestHasAnswerer, SuspendedActionAgreed, Connected, Single, Running, Long, Short, vars,
      taskVars, cancelVars, criticalVars, powerVars, removalVars, returnVars
<1>9. ASSUME DriverCompletes PROVE PowerInv'
  BY <1>9 DEF DriverCompletes, Complete, TypeOK, FlagsOK, DataOK, Handler, TaskInv, PowerInv,
      RequestHasAnswerer, SuspendedActionAgreed, Connected, Single, Running, Long, Short, vars,
      taskVars, cancelVars, criticalVars, powerVars, removalVars, returnVars
<1>10. ASSUME DriverSuspends PROVE PowerInv'
  BY <1>10, SuspendAnsweredKeepsPower DEF DriverSuspends, SuspendAnswered
<1>11. ASSUME DriverResumes PROVE PowerInv'
  BY <1>11, ResumeAnsweredKeepsPower DEF DriverResumes, ResumeAnswered
<1>12. ASSUME IdleCancel PROVE PowerInv'
  BY <1>12 DEF IdleCancel, Idle, MainLoop, TypeOK, FlagsOK, DataOK, Handler, TaskInv, PowerInv,
      RequestHasAnswerer, SuspendedActionAgreed, Connected, Single, Running, Long, Short, vars,
      taskVars, cancelVars, criticalVars, powerVars, removalVars, returnVars
<1>13. ASSUME Flush /\ FlushCancel PROVE PowerInv'
  BY <1>13 DEF Flush, FlushCancel, MainLoop, TypeOK, FlagsOK, DataOK, Handler, TaskInv, PowerInv,
      RequestHasAnswerer, SuspendedActionAgreed, Connected, Single, Running, Long, Short, vars,
      taskVars, cancelVars, criticalVars, powerVars, removalVars, returnVars
<1>14. ASSUME Flush /\ FlushSuspend PROVE PowerInv'
  <2>1. request = "suspend" /\ ~is_suspended /\ asked = "none" /\ "resume" \notin queued /\ "suspend" \notin (queued \ {"suspend"})
    BY <1>14 DEF Flush, FlushSuspend, MainLoop, PowerInv, RequestHasAnswerer,
        SuspendedActionAgreed, Connected, TypeOK, DataOK, TaskInv
  <2>2. ~Connected("suspended") /\ ~Connected("short") /\ reason # "busy"
    BY <1>14, <2>1 DEF Flush, FlushSuspend, MainLoop, PowerInv, RequestHasAnswerer,
        SuspendedActionAgreed, Connected
  <2>3. UNCHANGED <<action, leaving>>
    BY <1>14 DEF Flush, FlushSuspend, MainLoop, vars, taskVars, cancelVars, criticalVars,
        powerVars, removalVars, returnVars
  <2>4. handlers \in Seq(Handler) /\ Single("suspended") /\ Single("short") /\ "suspended" \in Handler /\ "short" \in Handler
    BY DEF TypeOK, DataOK, PowerInv, Handler
  <2>5. CASE action = "none"
    <3>1. handlers' = handlers
      BY <1>14, <2>5 DEF Flush, FlushSuspend, MainLoop, FpiSuspend, SuspendComplete, CancelFor,
          CancelInternal, vars, taskVars, cancelVars, criticalVars, powerVars, removalVars,
          returnVars, Long, Short
    <3>2. \A h \in {"suspended", "short"} : ~Has(handlers', h) /\ ~Has(leaving', h) /\ Single(h)'
      BY <2>2, <2>3, <2>4, <3>1 DEF Connected, Single
    <3>3. request' = "none" /\ asked' = "none" /\ queued' = (queued \ {"suspend"})
      BY <1>14, <2>1, <2>5 DEF Flush, FlushSuspend, MainLoop, FpiSuspend, SuspendComplete,
          CancelFor, CancelInternal, vars, taskVars, cancelVars, criticalVars, powerVars,
          removalVars, returnVars, Long, Short, TypeOK, FlagsOK
    <3>4. is_suspended' = TRUE /\ reason' = reason
      BY <1>14, <2>1, <2>5 DEF Flush, FlushSuspend, MainLoop, FpiSuspend, SuspendComplete,
          CancelFor, CancelInternal, vars, taskVars, cancelVars, criticalVars, powerVars,
          removalVars, returnVars, Long, Short, TypeOK, FlagsOK
    <3> QED  BY <2>1, <2>2, <2>3, <2>5, <3>2, <3>3, <3>4 DEF PowerInv, RequestHasAnswerer,
        SuspendedActionAgreed, Connected, Long, Short, TypeOK, DataOK, FlagsOK, Vfunc
  <2>6. CASE action \in Long /\ "suspend" \notin cls
    <3>1. handlers' = Append(handlers, "suspended")
      BY <1>14, <2>6 DEF Flush, FlushSuspend, MainLoop, FpiSuspend, SuspendComplete, CancelFor,
          CancelInternal, vars, taskVars, cancelVars, criticalVars, powerVars, removalVars,
          returnVars, Long, Short
    <3>2. \A h \in {"suspended", "short"} :
           (Has(handlers', h) <=> h = "suspended") /\ ~Has(leaving', h) /\ Single(h)'
      BY <2>2, <2>3, <2>4, <3>1, ConnectOne DEF Connected
    <3>3. request' = "suspend" /\ asked' = "none" /\ queued' = (queued \ {"suspend"})
      BY <1>14, <2>1, <2>6 DEF Flush, FlushSuspend, MainLoop, FpiSuspend, SuspendComplete,
          CancelFor, CancelInternal, vars, taskVars, cancelVars, criticalVars, powerVars,
          removalVars, returnVars, Long, Short, TypeOK, FlagsOK
    <3>4. is_suspended' /\ suspend_error' /\ cancelled' = TRUE
      BY <1>14, <2>1, <2>6 DEF Flush, FlushSuspend, MainLoop, FpiSuspend, SuspendComplete,
          CancelFor, CancelInternal, vars, taskVars, cancelVars, criticalVars, powerVars,
          removalVars, returnVars, Long, Short, TypeOK, FlagsOK
    <3>5. reason' # "none"
      BY <1>14, <2>1, <2>6 DEF Flush, FlushSuspend, MainLoop, FpiSuspend, SuspendComplete,
          CancelFor, CancelInternal, vars, taskVars, cancelVars, criticalVars, powerVars,
          removalVars, returnVars, Long, Short, TypeOK, FlagsOK
    <3> QED  BY <2>1, <2>2, <2>3, <2>6, <3>2, <3>3, <3>4, <3>5 DEF PowerInv, RequestHasAnswerer,
        SuspendedActionAgreed, Connected, Long, Short, TypeOK, DataOK, FlagsOK, Vfunc
  <2>7. CASE action \in Long /\ "suspend" \in cls
    <3>1. handlers' = handlers
      BY <1>14, <2>7 DEF Flush, FlushSuspend, MainLoop, FpiSuspend, SuspendComplete, CancelFor,
          CancelInternal, vars, taskVars, cancelVars, criticalVars, powerVars, removalVars,
          returnVars, Long, Short
    <3>2. \A h \in {"suspended", "short"} : ~Has(handlers', h) /\ ~Has(leaving', h) /\ Single(h)'
      BY <2>2, <2>3, <2>4, <3>1 DEF Connected, Single
    <3>3. request' = "suspend" /\ ((asked' = "none" /\ queued' = (queued \ {"suspend"}) \cup {"suspend"}) \/ (asked' = "suspend" /\ queued' = (queued \ {"suspend"})))
      BY <1>14, <2>1, <2>7 DEF Flush, FlushSuspend, MainLoop, FpiSuspend, SuspendComplete,
          CancelFor, CancelInternal, vars, taskVars, cancelVars, criticalVars, powerVars,
          removalVars, returnVars, Long, Short, TypeOK, FlagsOK
    <3>4. is_suspended' = is_suspended /\ reason' = reason
      BY <1>14, <2>1, <2>7 DEF Flush, FlushSuspend, MainLoop, FpiSuspend, SuspendComplete,
          CancelFor, CancelInternal, vars, taskVars, cancelVars, criticalVars, powerVars,
          removalVars, returnVars, Long, Short, TypeOK, FlagsOK
    <3> QED  BY <2>1, <2>2, <2>3, <2>7, <3>2, <3>3, <3>4 DEF PowerInv, RequestHasAnswerer,
        SuspendedActionAgreed, Connected, Long, Short, TypeOK, DataOK, FlagsOK, Vfunc
  <2>8. CASE action \in Short
    <3>1. handlers' = Append(handlers, "short")
      BY <1>14, <2>8 DEF Flush, FlushSuspend, MainLoop, FpiSuspend, SuspendComplete, CancelFor,
          CancelInternal, vars, taskVars, cancelVars, criticalVars, powerVars, removalVars,
          returnVars, Long, Short
    <3>2. \A h \in {"suspended", "short"} :
           (Has(handlers', h) <=> h = "short") /\ ~Has(leaving', h) /\ Single(h)'
      BY <2>2, <2>3, <2>4, <3>1, ConnectOne DEF Connected
    <3>3. request' = "suspend" /\ asked' = "none" /\ queued' = (queued \ {"suspend"})
      BY <1>14, <2>1, <2>8 DEF Flush, FlushSuspend, MainLoop, FpiSuspend, SuspendComplete,
          CancelFor, CancelInternal, vars, taskVars, cancelVars, criticalVars, powerVars,
          removalVars, returnVars, Long, Short, TypeOK, FlagsOK
    <3>4. is_suspended' = is_suspended /\ reason' = reason
      BY <1>14, <2>1, <2>8 DEF Flush, FlushSuspend, MainLoop, FpiSuspend, SuspendComplete,
          CancelFor, CancelInternal, vars, taskVars, cancelVars, criticalVars, powerVars,
          removalVars, returnVars, Long, Short, TypeOK, FlagsOK
    <3> QED  BY <2>1, <2>2, <2>3, <2>8, <3>2, <3>3, <3>4 DEF PowerInv, RequestHasAnswerer,
        SuspendedActionAgreed, Connected, Long, Short, TypeOK, DataOK, FlagsOK, Vfunc
  <2> QED  BY <1>14, <2>5, <2>6, <2>7, <2>8 DEF Flush, FlushSuspend, MainLoop, FpiSuspend
<1>15. ASSUME Flush /\ FlushResume PROVE PowerInv'
  <2>1. request = "resume" /\ is_suspended /\ asked = "none" /\ queued = {"resume"} /\ action # "none"
    BY <1>15 DEF PowerInv, RequestHasAnswerer, SuspendedActionAgreed, Connected, Flush,
        FlushResume, TypeOK, DataOK, TaskInv
  <2>2. ~Connected("suspended") /\ ~Connected("short") /\ reason # "busy"
    BY <2>1 DEF PowerInv, RequestHasAnswerer, SuspendedActionAgreed, Connected
  <2>3. UNCHANGED <<handlers, leaving, reason, action, cancelled, suspend_error>>
    BY <1>15 DEF Flush, FlushResume, vars, taskVars, cancelVars, criticalVars, powerVars,
        removalVars, returnVars
  <2>4. ~Connected("suspended")' /\ ~Connected("short")' /\ Single("suspended")' /\ Single("short")'
    BY <2>2, <2>3 DEF Connected, Single, PowerInv
  <2>5. CASE action \in Long /\ "resume" \in cls /\ ~(critical > 0)
    <3>1. request' = "resume" /\ asked' = "resume" /\ queued' = {} /\ is_suspended'
      BY <1>15, <2>1, <2>5 DEF Flush, FlushResume, FpiResume, Long
    <3> QED  BY <2>2, <2>3, <2>4, <3>1 DEF PowerInv, RequestHasAnswerer, SuspendedActionAgreed,
        Connected
  <2>6. CASE ~(action \in Long /\ "resume" \in cls)
    <3>1. request' = "none" /\ asked' = "none" /\ queued' = {} /\ is_suspended' = FALSE
      BY <1>15, <2>1, <2>6 DEF Flush, FlushResume, FpiResume, ResumeComplete
    <3> QED  BY <2>2, <2>3, <2>4, <3>1 DEF PowerInv, RequestHasAnswerer, SuspendedActionAgreed,
        Connected
  <2> QED  BY <1>15, <2>5, <2>6 DEF Flush, TaskInv, TypeOK, DataOK
<1>16. ASSUME Flush /\ FlushEnd PROVE PowerInv'
  BY <1>16 DEF Flush, FlushEnd, MainLoop, TypeOK, FlagsOK, DataOK, Handler, TaskInv, PowerInv,
      RequestHasAnswerer, SuspendedActionAgreed, Connected, Single, Running, Long, Short, vars,
      taskVars, cancelVars, criticalVars, powerVars, removalVars, returnVars
<1>17. ASSUME TaskReturn PROVE PowerInv'
  <2>1. leaving = <<>> /\ leaving' = handlers /\ handlers' = <<>> /\ action' = "none" /\ reason' = "none" /\ queued = {} /\ queued' = {}
    BY <1>17 DEF TaskReturn, ReturnTask, Idle, MainLoop, TaskInv
  <2>2. UNCHANGED powerVars
    BY <1>17 DEF TaskReturn, ReturnTask
  <2>3. \A h : /\ ~Has(handlers', h) /\ ~Has(leaving, h) /\ (Has(leaving', h) <=> Has(handlers, h))
               /\ Once(handlers', h) /\ (Once(leaving', h) <=> Once(handlers, h))
    BY <2>1, HasEmpty DEF Once
  <2> QED  BY <2>1, <2>2, <2>3 DEF PowerInv, RequestHasAnswerer, SuspendedActionAgreed,
      Connected, Single, Long, powerVars
<1>18. ASSUME Notify PROVE PowerInv'
  <2>1. UNCHANGED <<handlers, action, queued, asked, is_suspended, cancelled, reason>>
    BY <1>18 DEF Notify, vars, taskVars, cancelVars, criticalVars, powerVars, removalVars,
        returnVars
  <2>2. CASE leaving = <<>>
    <3>1. leaving' = leaving /\ request' = request /\ suspend_error' = suspend_error /\ promised' = promised
      BY <1>18, <2>2 DEF Notify, TypeOK, FlagsOK
    <3>2. /\ Has(handlers', "suspended") = Has(handlers, "suspended") /\ Has(leaving', "suspended") = Has(leaving, "suspended")
         /\ Has(handlers', "short") = Has(handlers, "short") /\ Has(leaving', "short") = Has(leaving, "short")
         /\ Single("suspended")' = Single("suspended") /\ Single("short")' = Single("short")
      BY <2>1, <3>1, ConnectNone
    <3> QED  BY <2>1, <3>1, <3>2 DEF PowerInv, RequestHasAnswerer, SuspendedActionAgreed, Connected
  <2>3. CASE leaving # <<>>
    <3>1. leaving' = Tail(leaving) /\ leaving \in Seq(Handler) /\ Head(leaving) \in Handler
      BY <1>18, <2>3 DEF Notify, TypeOK, DataOK
    <3>2. ASSUME NEW h, Single(h)
          PROVE  Single(h)' /\ (Has(leaving, h) <=> Head(leaving) = h \/ Has(leaving', h))
                 /\ (Head(leaving) = h => ~Has(leaving', h) /\ ~Has(handlers, h))
      BY <2>1, <2>3, <3>1, <3>2, HasTail, OnceTail DEF Single
    <3>3. Single("suspended") /\ Single("short")
      BY DEF PowerInv
    <3>4. CASE Head(leaving) = "removed"
      <4>1. request' = request /\ suspend_error' = suspend_error /\ promised' = promised
        BY <1>18, <2>3, <3>4 DEF Notify, TypeOK, FlagsOK
      <4> QED  BY <2>1, <3>2, <3>3, <3>4, <4>1 DEF PowerInv, RequestHasAnswerer,
          SuspendedActionAgreed, Connected
    <3>5. CASE Head(leaving) = "short"
      <4>1. request' = "none" /\ promised' = TRUE
        BY <1>18, <2>3, <3>5 DEF Notify
      <4> QED  BY <2>1, <3>2, <3>3, <3>5, <4>1 DEF PowerInv, RequestHasAnswerer,
          SuspendedActionAgreed, Connected
    <3>6. CASE Head(leaving) = "suspended"
      <4>1. request' = "none"
        BY <1>18, <2>3, <3>6 DEF Notify
      <4> QED  BY <2>1, <3>2, <3>3, <3>6, <4>1 DEF PowerInv, RequestHasAnswerer,
          SuspendedActionAgreed, Connected
    <3> QED  BY <3>1, <3>4, <3>5, <3>6 DEF Handler
  <2> QED  BY <2>2, <2>3
<1>19. ASSUME Remove PROVE PowerInv'
  <2>1. UNCHANGED <<action, leaving, queued, cancelVars, powerVars>>
    BY <1>19 DEF Remove, vars, taskVars, cancelVars, criticalVars, powerVars, removalVars,
        returnVars
  <2>2. CASE action # "none"
    <3>1. handlers' = Append(handlers, "removed") /\ handlers \in Seq(Handler)
      BY <1>19, <2>2 DEF Remove, TypeOK, DataOK
    <3>2. ASSUME NEW h \in {"suspended", "short"}, Single(h)
          PROVE  (Has(handlers', h) <=> Has(handlers, h)) /\ Single(h)'
      BY <2>1, <3>1, <3>2, HasAppend, OnceAppend DEF Single, Handler
    <3> QED  BY <2>1, <3>2 DEF PowerInv, RequestHasAnswerer, SuspendedActionAgreed, Connected,
        cancelVars, powerVars
  <2>3. CASE action = "none"
    BY <1>19, <2>1, <2>3, ConnectNone DEF Remove, PowerInv, RequestHasAnswerer,
        SuspendedActionAgreed, Connected, cancelVars, powerVars
  <2> QED  BY <2>2, <2>3
<1>20. ASSUME Overheat PROVE PowerInv'
  BY <1>20 DEF Overheat, MainLoop, CancelFor, CancelInternal, TypeOK, FlagsOK, DataOK, Handler,
      TaskInv, PowerInv, RequestHasAnswerer, SuspendedActionAgreed, Connected, Single, Running,
      Long, Short, vars, taskVars, cancelVars, criticalVars, powerVars, removalVars, returnVars
<1>21. ASSUME UNCHANGED vars PROVE PowerInv'
  BY <1>21 DEF vars, taskVars, cancelVars, criticalVars, powerVars, removalVars, returnVars,
      TypeOK, FlagsOK, DataOK, Handler, TaskInv, PowerInv, RequestHasAnswerer,
      SuspendedActionAgreed, Connected, Single, Running, Long, Short, vars, taskVars, cancelVars,
      criticalVars, powerVars, removalVars, returnVars
<1> QED
  BY <1>1, <1>2, <1>3, <1>4, <1>5, <1>6, <1>7, <1>8, <1>9, <1>10, <1>11, <1>12, <1>13, <1>14,
      <1>15, <1>16, <1>17, <1>18, <1>19, <1>20, <1>21
  DEF Next, Client, Driver, Loop, Flush, Close, Enroll, Verify, Identify, Capture,
      DeletePrint, ListPrints, OpenedCall, Accept

LEMMA InvStep == Inv /\ [Next]_vars => Inv'
<1> SUFFICES ASSUME Inv, [Next]_vars PROVE Inv'
  OBVIOUS
<1>1. FlagsOK' /\ DataOK'
  BY FlagsStep, DataStep DEF Inv, TypeOK
<1>2. critical \in Nat
  BY DeviceAssumption DEF Inv, TypeOK, DataOK
<1>3. TaskInv' /\ UsbInv'
  BY <1>2, TaskStep, UsbStep DEF Inv, TypeOK
<1>4. PowerInv' /\ RemovalInv'
  BY PowerStep, RemovalStep DEF Inv
<1> QED  BY <1>1, <1>3, <1>4 DEF Inv, TypeOK

(* The inductive invariant holds in every state.                              *)
LEMMA Invariance == Spec => []Inv
  BY InvInit, InvStep, PTL DEF Spec

----------------------------------------------------------------------------
(* The theorems.                                                              *)

(* Every variable of the device layer keeps its type: at most MaxCritical     *)
(* nested critical sections, only known requests queued.                      *)
THEOREM TypeCorrect == Spec => []TypeOK
<1>1. Inv => TypeOK
  BY DEF Inv
<1> QED  BY <1>1, Invariance, PTL

(* The idle cancel source is pending only while the action it was made for    *)
(* runs and is cancelled, so the assertion of its callback holds.             *)
THEOREM CancelIdle == Spec => []CancelIdleHasAction
<1>1. Inv => CancelIdleHasAction
  BY DEF Inv, TaskInv, CancelIdleHasAction
<1> QED  BY <1>1, Invariance, PTL

(* What a critical section has queued waits for its end or for the flush.     *)
THEOREM QueueFlushed == Spec => []QueuedIsFlushed
<1>1. Inv => QueuedIsFlushed
  BY DEF Inv, TaskInv, QueuedIsFlushed
<1> QED  BY <1>1, Invariance, PTL

(* No suspend or resume request is left without what will answer it.          *)
THEOREM RequestKept == Spec => []RequestHasAnswerer
<1>1. Inv => RequestHasAnswerer
  BY DEF Inv, PowerInv
<1> QED  BY <1>1, Invariance, PTL

(* The removed signal is owed by one handler or emitted, never both.          *)
THEOREM RemovalOnce == Spec => []RemovedOnce
<1>1. Inv => RemovedOnce
  BY DEF Inv, RemovalInv
<1> QED  BY <1>1, Invariance, PTL

(* An open device has its GUsbDevice open until its close completes.          *)
THEOREM UsbUnderOpen == Spec => []OpenHasUsb
<1>1. Inv => OpenHasUsb
  BY DEF Inv, UsbInv, OpenHasUsb
<1> QED  BY <1>1, Invariance, PTL

(* A long action in a suspended device was agreed on or is being cancelled.   *)
THEOREM SuspendedAgreed == Spec => []SuspendedActionAgreed
<1>1. Inv => SuspendedActionAgreed
  BY DEF Inv, PowerInv
<1> QED  BY <1>1, Invariance, PTL

(* A step that tells the driver a cancel.                                     *)
LEMMA ToldStep ==
  Inv /\ [Next]_vars => [~told /\ told' => cancelled /\ Running /\ critical = 0]_vars
<1> DEFINE A == ~told /\ told' => cancelled /\ Running /\ critical = 0
<1>1. ASSUME Inv, [Next]_vars PROVE [A]_vars
  <2>1. ASSUME Open PROVE A
    BY <1>1, <2>1 DEF Open, Accept, Inv, TypeOK, DataOK, FlagsOK, TaskInv, Running, vars,
        taskVars, cancelVars, criticalVars, powerVars, removalVars, returnVars
  <2>2. ASSUME \E op \in Calls \ {"open"} : OpenedCall(op) PROVE A
    BY <1>1, <2>2 DEF OpenedCall, Accept, Inv, TypeOK, DataOK, FlagsOK, TaskInv, Running, vars,
        taskVars, cancelVars, criticalVars, powerVars, removalVars, returnVars
  <2>3. ASSUME ClearStorage PROVE A
    BY <1>1, <2>3 DEF ClearStorage, Accept, Inv, TypeOK, DataOK, FlagsOK, TaskInv, Running, vars,
        taskVars, cancelVars, criticalVars, powerVars, removalVars, returnVars
  <2>4. ASSUME Cancel PROVE A
    BY <1>1, <2>4 DEF Cancel, CancelInternal, Inv, TypeOK, DataOK, FlagsOK, TaskInv, Running,
        vars, taskVars, cancelVars, criticalVars, powerVars, removalVars, returnVars
  <2>5. ASSUME Suspend PROVE A
    BY <1>1, <2>5 DEF Suspend, FpiSuspend, SuspendComplete, CancelFor, CancelInternal, Inv,
        TypeOK, DataOK, FlagsOK, TaskInv, Running, vars, taskVars, cancelVars, criticalVars,
        powerVars, removalVars, returnVars
  <2>6. ASSUME Resume PROVE A
    BY <1>1, <2>6 DEF Resume, FpiResume, ResumeComplete, Inv, TypeOK, DataOK, FlagsOK, TaskInv,
        Running, vars, taskVars, cancelVars, criticalVars, powerVars, removalVars, returnVars
  <2>7. ASSUME DriverEnters PROVE A
    BY <1>1, <2>7 DEF DriverEnters, CriticalEnter, Inv, TypeOK, DataOK, FlagsOK, TaskInv,
        Running, vars, taskVars, cancelVars, criticalVars, powerVars, removalVars, returnVars
  <2>8. ASSUME DriverLeaves PROVE A
    BY <1>1, <2>8 DEF DriverLeaves, CriticalLeave, Inv, TypeOK, DataOK, FlagsOK, TaskInv,
        Running, vars, taskVars, cancelVars, criticalVars, powerVars, removalVars, returnVars
  <2>9. ASSUME DriverCompletes PROVE A
    BY <1>1, <2>9 DEF DriverCompletes, Complete, Inv, TypeOK, DataOK, FlagsOK, TaskInv, Running,
        vars, taskVars, cancelVars, criticalVars, powerVars, removalVars, returnVars
  <2>10. ASSUME DriverSuspends PROVE A
    BY <1>1, <2>10 DEF DriverSuspends, SuspendComplete, CancelFor, CancelInternal, Inv, TypeOK,
        DataOK, FlagsOK, TaskInv, Running, vars, taskVars, cancelVars, criticalVars, powerVars,
        removalVars, returnVars
  <2>11. ASSUME DriverResumes PROVE A
    BY <1>1, <2>11 DEF DriverResumes, ResumeComplete, Inv, TypeOK, DataOK, FlagsOK, TaskInv,
        Running, vars, taskVars, cancelVars, criticalVars, powerVars, removalVars, returnVars
  <2>12. ASSUME IdleCancel PROVE A
    <3>1. CASE critical > 0
      BY <2>12, <3>1 DEF IdleCancel
    <3>2. CASE ~(critical > 0)
      <4>1. critical = 0
        BY <1>1, <3>2, DeviceAssumption DEF Inv, TypeOK, DataOK
      <4>2. cancelled /\ Running
        BY <1>1, <2>12 DEF IdleCancel, Inv, TaskInv
      <4> QED  BY <4>1, <4>2
    <3> QED  BY <3>1, <3>2
  <2>13. ASSUME Flush /\ FlushCancel PROVE A
    BY <1>1, <2>13 DEF Flush, FlushCancel, MainLoop, Inv, TypeOK, DataOK, FlagsOK, TaskInv,
        Running, vars, taskVars, cancelVars, criticalVars, powerVars, removalVars, returnVars
  <2>14. ASSUME Flush /\ FlushSuspend PROVE A
    BY <1>1, <2>14 DEF Flush, FlushSuspend, MainLoop, FpiSuspend, SuspendComplete, CancelFor,
        CancelInternal, Inv, TypeOK, DataOK, FlagsOK, TaskInv, Running, vars, taskVars,
        cancelVars, criticalVars, powerVars, removalVars, returnVars
  <2>15. ASSUME Flush /\ FlushResume PROVE A
    BY <1>1, <2>15 DEF Flush, FlushResume, MainLoop, FpiResume, ResumeComplete, Inv, TypeOK,
        DataOK, FlagsOK, TaskInv, Running, vars, taskVars, cancelVars, criticalVars, powerVars,
        removalVars, returnVars
  <2>16. ASSUME Flush /\ FlushEnd PROVE A
    BY <1>1, <2>16 DEF Flush, FlushEnd, MainLoop, Inv, TypeOK, DataOK, FlagsOK, TaskInv, Running,
        vars, taskVars, cancelVars, criticalVars, powerVars, removalVars, returnVars
  <2>17. ASSUME TaskReturn PROVE A
    BY <1>1, <2>17 DEF TaskReturn, ReturnTask, Idle, MainLoop, ReturnedAnswer, Inv, TypeOK, DataOK, FlagsOK,
        TaskInv, Running, vars, taskVars, cancelVars, criticalVars, powerVars, removalVars,
        returnVars
  <2>18. ASSUME Notify PROVE A
    BY <1>1, <2>18 DEF Notify, Inv, TypeOK, DataOK, FlagsOK, TaskInv, Running, vars, taskVars,
        cancelVars, criticalVars, powerVars, removalVars, returnVars
  <2>19. ASSUME Remove PROVE A
    BY <1>1, <2>19 DEF Remove, MainLoop, Inv, TypeOK, DataOK, FlagsOK, TaskInv, Running, vars,
        taskVars, cancelVars, criticalVars, powerVars, removalVars, returnVars
  <2>20. ASSUME Overheat PROVE A
    BY <1>1, <2>20 DEF Overheat, MainLoop, CancelFor, CancelInternal, Inv, TypeOK, DataOK,
        FlagsOK, TaskInv, Running, vars, taskVars, cancelVars, criticalVars, powerVars,
        removalVars, returnVars
  <2>21. ASSUME UNCHANGED vars PROVE [A]_vars
    BY <2>21
  <2> QED
    BY <1>1, <2>1, <2>2, <2>3, <2>4, <2>5, <2>6, <2>7, <2>8, <2>9, <2>10, <2>11, <2>12, <2>13,
        <2>14, <2>15, <2>16, <2>17, <2>18, <2>19, <2>20, <2>21
    DEF Next, Client, Driver, Loop, Flush, Close, Enroll, Verify, Identify, Capture,
        DeletePrint, ListPrints, OpenedCall, Accept
<1> QED  BY <1>1

(* A cancel reaches the driver only for the action it was meant for.          *)
THEOREM CancelDelivered == Spec => CancelReachesItsAction
  BY ToldStep, Invariance, PTL DEF Spec, CancelReachesItsAction

(* A cancelled action of a driver that can be told is told it once, or the cancel *)
(* is on its way: pending in the idle source or queued in a critical section,     *)
(* in one of these places and never in two.  Nothing loses it, an overheating    *)
(* or a suspend that cancels again included, and nothing else is told.           *)
CancelHasOnePlace ==
  Running =>
    /\ (cancelled /\ "cancel" \in cls) <=> (idle_cancel \/ "cancel" \in queued \/ told)
    /\ ~(idle_cancel /\ "cancel" \in queued)
    /\ told => ~idle_cancel /\ "cancel" \notin queued

LEMMA CancelStays ==
  ASSUME CancelHasOnePlace, UNCHANGED <<cls, action, result, cancelled, idle_cancel, told>>,
         "cancel" \in queued' <=> "cancel" \in queued
  PROVE  CancelHasOnePlace'
  BY DEF CancelHasOnePlace, Running

LEMMA CancelMarks ==
  ASSUME FlagsOK, CancelHasOnePlace, CancelInternal, UNCHANGED <<cls, action, result, told>>,
         "cancel" \in queued' <=> "cancel" \in queued
  PROVE  CancelHasOnePlace'
<1>1. Running' <=> Running
  BY DEF Running
<1>2. CASE cancelled
  <2>1. idle_cancel' = idle_cancel /\ cancelled'
    BY <1>2 DEF CancelInternal, FlagsOK
  <2> QED  BY <1>1, <1>2, <2>1 DEF CancelHasOnePlace
<1>3. CASE ~cancelled
  <2>1. Running => (idle_cancel' <=> "cancel" \in cls) /\ cancelled'
    BY <1>3 DEF CancelHasOnePlace, CancelInternal
  <2> QED  BY <1>1, <1>3, <2>1 DEF CancelHasOnePlace
<1> QED  BY <1>2, <1>3

LEMMA SuspendMovesCancel ==
  ASSUME FlagsOK, CancelHasOnePlace, UNCHANGED <<cls, action, result, told>>,
         NEW q, "cancel" \in q <=> "cancel" \in queued, FpiSuspend(q)
  PROVE  CancelHasOnePlace'
<1>1. "cancel" \in queued' <=> "cancel" \in queued
  <2>1. queued' = q \/ queued' = q \cup {"suspend"}
    BY DEF FpiSuspend
  <2> QED  BY <2>1
<1>2. UNCHANGED cancelVars \/ CancelInternal
  BY DEF FpiSuspend, SuspendComplete, CancelFor
<1> QED  BY <1>1, <1>2, CancelStays, CancelMarks DEF cancelVars

LEMMA CancelStep ==
  ASSUME FlagsOK, TaskInv, CancelHasOnePlace, [Next]_vars
  PROVE  CancelHasOnePlace'
<1>1. ASSUME NEW op, Accept(op) PROVE CancelHasOnePlace'
  <2>1. queued = {} /\ queued' = {} /\ ~told' /\ ~cancelled' /\ ~idle_cancel'
    BY <1>1 DEF Accept, TaskInv, Running
  <2> QED  BY <2>1 DEF CancelHasOnePlace
<1>2. ASSUME Cancel PROVE CancelHasOnePlace'
  <2>1. CASE result = "none"
    BY <1>2, <2>1, CancelMarks DEF Cancel
  <2>2. CASE result # "none"
    BY <1>2, <2>2, CancelStays DEF Cancel
  <2> QED  BY <2>1, <2>2
<1>3. ASSUME Suspend PROVE CancelHasOnePlace'
  BY <1>3, SuspendMovesCancel DEF Suspend, taskVars
<1>4. ASSUME Resume PROVE CancelHasOnePlace'
  <2>1. "cancel" \in queued' <=> "cancel" \in queued
    <3>1. queued' = queued \/ queued' = queued \cup {"resume"}
      BY <1>4 DEF Resume, FpiResume
    <3> QED  BY <3>1
  <2> QED  BY <1>4, <2>1, CancelStays DEF Resume, taskVars, cancelVars
<1>5. ASSUME DriverEnters \/ DriverLeaves \/ DriverResumes \/ Notify \/ Remove \/ UNCHANGED vars
      PROVE  CancelHasOnePlace'
  BY <1>5, CancelStays DEF DriverEnters, DriverLeaves, DriverResumes, Notify, Remove, vars,
     taskVars, cancelVars
<1>6. ASSUME DriverCompletes \/ TaskReturn PROVE CancelHasOnePlace'
  <2>1. ~Running'
    BY <1>6 DEF DriverCompletes, Complete, TaskReturn, ReturnTask, Running
  <2> QED  BY <2>1 DEF CancelHasOnePlace
<1>7. ASSUME DriverSuspends PROVE CancelHasOnePlace'
  <2>1. UNCHANGED <<cls, taskVars, queued>> /\ (UNCHANGED cancelVars \/ CancelInternal)
    BY <1>7 DEF DriverSuspends, SuspendComplete, CancelFor
  <2> QED  BY <2>1, CancelStays, CancelMarks DEF taskVars, cancelVars
<1>8. ASSUME IdleCancel PROVE CancelHasOnePlace'
  <2>1. /\ UNCHANGED <<cls, action, result, cancelled>> /\ idle_cancel /\ ~idle_cancel'
        /\ \/ queued' = queued \cup {"cancel"} /\ UNCHANGED told
           \/ told' /\ UNCHANGED queued
    BY <1>8 DEF IdleCancel
  <2> QED  BY <2>1 DEF CancelHasOnePlace, Running
<1>9. ASSUME Flush PROVE CancelHasOnePlace'
  <2>1. UNCHANGED <<cls, action, result>>
    BY <1>9 DEF Flush
  <2>2. CASE FlushCancel
    <3>1. /\ UNCHANGED <<cancelled, idle_cancel>> /\ "cancel" \in queued /\ "cancel" \notin queued'
          /\ Running => told'
      BY <2>2 DEF FlushCancel, cancelVars
    <3> QED  BY <2>1, <3>1 DEF CancelHasOnePlace, Running
  <2>3. CASE FlushSuspend
    <3>1. UNCHANGED told /\ ("cancel" \in queued \ {"suspend"} <=> "cancel" \in queued)
          /\ FpiSuspend(queued \ {"suspend"})
      BY <2>3 DEF FlushSuspend
    <3> QED  BY <2>1, <3>1, SuspendMovesCancel
  <2>4. CASE FlushResume
    <3>1. UNCHANGED <<cancelVars, told>> /\ "cancel" \notin queued /\ "cancel" \notin queued'
      BY <2>4 DEF FlushResume, FpiResume
    <3> QED  BY <2>1, <3>1, CancelStays DEF cancelVars
  <2>5. CASE FlushEnd
    BY <2>1, <2>5, CancelStays DEF FlushEnd, cancelVars
  <2> QED  BY <1>9, <2>2, <2>3, <2>4, <2>5 DEF Flush
<1>10. ASSUME Overheat PROVE CancelHasOnePlace'
  BY <1>10, CancelMarks DEF Overheat, CancelFor, taskVars
<1> QED
  BY <1>1, <1>2, <1>3, <1>4, <1>5, <1>6, <1>7, <1>8, <1>9, <1>10
  DEF Next, Client, Driver, Loop, Open, Close, Enroll, Verify, Identify, Capture, DeletePrint,
      ListPrints, ClearStorage, OpenedCall

(* The safety half of "a cancelled action ends": see CancelHasOnePlace.        *)
THEOREM CancelKept == Spec => []CancelHasOnePlace
<1>1. Init => CancelHasOnePlace
  BY DEF Init, CancelHasOnePlace, Running
<1>2. Inv => FlagsOK /\ TaskInv
  BY DEF Inv, TypeOK
<1>3. Inv /\ CancelHasOnePlace /\ [Next]_vars => CancelHasOnePlace'
  BY <1>2, CancelStep
<1> QED  BY <1>1, <1>3, Invariance, PTL DEF Spec

(* Only the return of a task starts a return.                                 *)
LEMMA OnlyTaskReturns ==
  ASSUME Inv, [Next]_vars, returning', ~returning
  PROVE  TaskReturn
<1>1. ASSUME Open PROVE TaskReturn
  BY <1>1 DEF Open, Accept, vars, taskVars, cancelVars, criticalVars, powerVars, removalVars,
      returnVars
<1>2. ASSUME \E op \in Calls \ {"open"} : OpenedCall(op) PROVE TaskReturn
  BY <1>2 DEF OpenedCall, Accept, vars, taskVars, cancelVars, criticalVars, powerVars,
      removalVars, returnVars
<1>3. ASSUME ClearStorage PROVE TaskReturn
  BY <1>3 DEF ClearStorage, Accept, vars, taskVars, cancelVars, criticalVars, powerVars,
      removalVars, returnVars
<1>4. ASSUME Cancel PROVE TaskReturn
  BY <1>4 DEF Cancel, CancelInternal, vars, taskVars, cancelVars, criticalVars, powerVars,
      removalVars, returnVars
<1>5. ASSUME Suspend PROVE TaskReturn
  BY <1>5 DEF Suspend, FpiSuspend, SuspendComplete, CancelFor, CancelInternal, vars, taskVars,
      cancelVars, criticalVars, powerVars, removalVars, returnVars
<1>6. ASSUME Resume PROVE TaskReturn
  BY <1>6 DEF Resume, FpiResume, ResumeComplete, vars, taskVars, cancelVars, criticalVars,
      powerVars, removalVars, returnVars
<1>7. ASSUME DriverEnters PROVE TaskReturn
  BY <1>7 DEF DriverEnters, CriticalEnter, vars, taskVars, cancelVars, criticalVars, powerVars,
      removalVars, returnVars
<1>8. ASSUME DriverLeaves PROVE TaskReturn
  BY <1>8 DEF DriverLeaves, CriticalLeave, vars, taskVars, cancelVars, criticalVars, powerVars,
      removalVars, returnVars
<1>9. ASSUME DriverCompletes PROVE TaskReturn
  BY <1>9 DEF DriverCompletes, Complete, vars, taskVars, cancelVars, criticalVars, powerVars,
      removalVars, returnVars
<1>10. ASSUME DriverSuspends PROVE TaskReturn
  BY <1>10 DEF DriverSuspends, SuspendComplete, CancelFor, CancelInternal, vars, taskVars,
      cancelVars, criticalVars, powerVars, removalVars, returnVars
<1>11. ASSUME DriverResumes PROVE TaskReturn
  BY <1>11 DEF DriverResumes, ResumeComplete, vars, taskVars, cancelVars, criticalVars,
      powerVars, removalVars, returnVars
<1>12. ASSUME IdleCancel PROVE TaskReturn
  BY <1>12 DEF IdleCancel, Idle, MainLoop, vars, taskVars, cancelVars, criticalVars, powerVars,
      removalVars, returnVars
<1>13. ASSUME Flush /\ FlushCancel PROVE TaskReturn
  BY <1>13 DEF Flush, FlushCancel, MainLoop, vars, taskVars, cancelVars, criticalVars, powerVars,
      removalVars, returnVars
<1>14. ASSUME Flush /\ FlushSuspend PROVE TaskReturn
  BY <1>14 DEF Flush, FlushSuspend, MainLoop, FpiSuspend, SuspendComplete, CancelFor,
      CancelInternal, vars, taskVars, cancelVars, criticalVars, powerVars, removalVars, returnVars
<1>15. ASSUME Flush /\ FlushResume PROVE TaskReturn
  BY <1>15 DEF Flush, FlushResume, MainLoop, FpiResume, ResumeComplete, vars, taskVars,
      cancelVars, criticalVars, powerVars, removalVars, returnVars
<1>16. ASSUME Flush /\ FlushEnd PROVE TaskReturn
  BY <1>16 DEF Flush, FlushEnd, MainLoop, vars, taskVars, cancelVars, criticalVars, powerVars,
      removalVars, returnVars
<1>17. ASSUME TaskReturn PROVE TaskReturn
  BY <1>17
<1>18. ASSUME Notify PROVE TaskReturn
  BY <1>18 DEF Notify, vars, taskVars, cancelVars, criticalVars, powerVars, removalVars, returnVars
<1>19. ASSUME Remove PROVE TaskReturn
  BY <1>19 DEF Remove, MainLoop, vars, taskVars, cancelVars, criticalVars, powerVars,
      removalVars, returnVars
<1>20. ASSUME Overheat PROVE TaskReturn
  BY <1>20 DEF Overheat, MainLoop, CancelFor, CancelInternal, vars, taskVars, cancelVars,
      criticalVars, powerVars, removalVars, returnVars
<1>21. ASSUME UNCHANGED vars PROVE FALSE
  BY <1>21 DEF vars, taskVars, cancelVars, criticalVars, powerVars, removalVars, returnVars
<1> QED
  BY <1>1, <1>2, <1>3, <1>4, <1>5, <1>6, <1>7, <1>8, <1>9, <1>10, <1>11, <1>12, <1>13, <1>14,
      <1>15, <1>16, <1>17, <1>18, <1>19, <1>20, <1>21
  DEF Next, Client, Driver, Loop, Flush, Close, Enroll, Verify, Identify, Capture,
      DeletePrint, ListPrints, OpenedCall, Accept

(* A step that returns an interrupted task.                                   *)
LEMMA BusyStep ==
  Inv /\ [Next]_vars
    => [returning' /\ ~returning /\ Has(leaving', "suspended") => answer' # "failed"]_vars
<1>1. ASSUME Inv, [Next]_vars, returning', ~returning, Has(leaving', "suspended")
      PROVE  answer' # "failed"
  <2>1. TaskReturn
    BY <1>1, OnlyTaskReturns
  <2>2. leaving' = handlers /\ answer' = ReturnedAnswer
    BY <2>1 DEF TaskReturn, ReturnTask
  <2>3. reason # "none" /\ reason \in {"none", "busy", "hot"} /\ result \in {"none", "ok", "failed"}
    BY <1>1, <2>2 DEF Inv, PowerInv, TypeOK, DataOK
  <2> QED  BY <2>2, <2>3, <1>1 DEF ReturnedAnswer, Inv, TypeOK, FlagsOK
<1> QED  BY <1>1

(* An action that a suspend interrupted is answered as busy.                  *)
THEOREM SuspendedIsBusy == Spec => InterruptedIsBusy
  BY BusyStep, Invariance, PTL DEF Spec, InterruptedIsBusy

(* A step that answers a call.                                                *)
LEMMA AnswerStep ==
  Inv /\ [Next]_vars
    => [returning' /\ ~returning =>
          /\ answer' \in {"busy", "hot"} => cancelled
          /\ answer' = "busy" => is_suspended
          /\ answer' = "removed" => is_removed]_vars
<1> DEFINE A == returning' /\ ~returning =>
                  /\ answer' \in {"busy", "hot"} => cancelled
                  /\ answer' = "busy" => is_suspended
                  /\ answer' = "removed" => is_removed
<1>1. ASSUME Inv, [Next]_vars, returning', ~returning
      PROVE  A
  <2>1. TaskReturn
    BY <1>1, OnlyTaskReturns
  <2>2. answer' = ReturnedAnswer /\ result \in {"none", "ok", "failed"}
    BY <1>1, <2>1 DEF TaskReturn, ReturnTask, Inv, TypeOK, DataOK
  <2>3. reason # "none" => cancelled
    BY <1>1 DEF Inv, TaskInv
  <2>4. reason = "busy" => is_suspended
    BY <1>1 DEF Inv, PowerInv, Connected
  <2> QED  BY <1>1, <2>2, <2>3, <2>4 DEF ReturnedAnswer, Inv, TypeOK, DataOK, FlagsOK
<1> QED  BY <1>1

(* An internal answer (busy, hot, removed) is that of the call's own fate.    *)
THEOREM AnswerIsTrue == Spec => ReasonIsTrue
  BY AnswerStep, Invariance, PTL DEF Spec, ReasonIsTrue

----------------------------------------------------------------------------
(* The synaptics driver.  Its prints parse, and the sensor keeps to its         *)
(* protocol: without that the properties fail.                                *)

ByProtocol == Quirks = {} /\ Galleries \subseteq Seq({TRUE})

Waiting == {"none", "WAIT_INTERRUPT", "SUSPENDED"}
Reading == {"SEND_PENDING", "GET_RESP", "SEND_ASYNC"}
Matters == {"next_user", "busy"}
Plain == {"ok", "fail", "ready", "progress", "no_record", "cancel_ok", "cancel_fail",
          "verdict", "retry", "capture", "finger_on", "finger_off"}
Queues == {<<>>, <<"suspended">>, <<"short">>}

(* The sections are those of the machine, of a start that the sensor has not   *)
(* confirmed and of a delete; what is told to the driver is told outside.      *)
SectionsInv ==
  /\ critical = One(ssm \in Reading) + One(action_starting) + One(cmd = "delete")
  /\ flush => critical = 0

(* The current action has a command until it is answered.                      *)
CommandInv ==
  /\ cmd = IF Running /\ entered THEN action ELSE "none"
  /\ ssm \in Waiting \cup Reading
  /\ cmd = "none" <=> ssm = "none"
  /\ intr \in {"none", "linked", "cancelled"}
  /\ ssm = "WAIT_INTERRUPT" <=> intr # "none"
  /\ action_starting => cmd \in {"enroll", "verify", "identify"}
  /\ idle_cancel => Running
  /\ action = "none" => ~entered
  /\ action # "none" /\ ~entered => result = "none" /\ ~told
  /\ told /\ ~heard => Running /\ entered /\ critical = 0

(* What is still to be read: the messages that continue a command come alone   *)
(* and before any cancel.                                                      *)
Continuing ==
  /\ ssm = "GET_RESP" /\ ~cancelling /\ ~told
  /\ \/ replies = <<"busy">> /\ cmd = "open"
     \/ replies = <<"next_user">> /\ cmd = "identify" /\ id_idx < Len(gallery)

RepliesInv ==
  /\ gallery \in Seq({TRUE}) /\ id_idx \in Nat
  /\ event \in {"none", "reply"} \cup Plain
  /\ ssm = "SEND_ASYNC" => event # "none"
  /\ replies \in Seq(Plain) \/ Continuing
  /\ cmd = "none" => replies = <<>> /\ ~cancelling
  /\ ssm = "SEND_PENDING" => replies = <<>> /\ ~cancelling /\ ~told

(* A request to suspend is with the driver, queued, or waits for the return of *)
(* a task; a command is suspended by a request of its own action.              *)
RequestInv ==
  /\ cls = Vfunc
  /\ asked \in {"none", "suspend", "resume"}
  /\ handlers \in Queues /\ leaving \in Queues
  /\ handlers = <<>> \/ leaving = <<>>
  /\ handlers # <<>> \/ leaving # <<>> =>
       request = "suspend" /\ asked = "none" /\ "suspend" \notin queued
  /\ asked = "suspend" \/ "suspend" \in queued => request = "suspend" /\ ~is_suspended
  /\ asked = "suspend" =>
       "suspend" \notin queued /\ action \in Long /\ entered /\ critical = 0
  /\ "resume" \notin queued
  /\ asked = "resume" => cmd_suspended /\ ssm = "SUSPENDED"

SuspendInv ==
  /\ leaving # <<>> => ~(is_suspended /\ action \in Long)
  /\ is_suspended /\ action \in Long =>
       \/ request = "suspend" /\ handlers # <<>>
       \/ cmd_suspended /\ ssm = "SUSPENDED"
  /\ ssm = "SUSPENDED" => cmd_suspended
  /\ cmd_suspended =>
       /\ cmd \in Match /\ critical = 0
       /\ \/ ssm = "WAIT_INTERRUPT" /\ intr = "cancelled" /\ asked = "suspend"
          \/ ssm = "SUSPENDED" /\ is_suspended

SynapticsInv == SectionsInv /\ CommandInv /\ RepliesInv /\ RequestInv /\ SuspendInv

USE DEF vars, taskVars, cancelVars, criticalVars, powerVars, removalVars, returnVars,
        commandVars, sensorVars, driverVars, allVars, One, Waiting, Reading, Match,
        Running, Long, Short, Vfunc

----------------------------------------------------------------------------

(* A callback that has left the last section leaves a flush behind.            *)
LEMMA SectionsChange ==
  ASSUME NEW d, Sections(d)
  PROVE  critical' = critical + d /\ (flush' => critical' = 0)
PROOF BY DEF Sections

LEMMA NothingPlain == <<>> \in Seq(Plain)
PROOF OBVIOUS

LEMMA ParsesOne ==
  ASSUME NEW g \in Seq({TRUE}), NEW k \in 1..Len(g)
  PROVE  g[k]
PROOF
<1>1. g[k] \in {TRUE}
  BY ElementOfSeq
<1> QED BY <1>1

(* One message is read: those that continue a command leave nothing behind.    *)
LEMMA ReadingPlain ==
  ASSUME RepliesInv, replies # <<>>, Head(replies) \in Plain
  PROVE  Tail(replies) \in Seq(Plain)
PROOF BY DEF RepliesInv, Continuing, Plain

LEMMA ReadingOn ==
  ASSUME RepliesInv, replies # <<>>, Head(replies) \notin Plain
  PROVE  Continuing /\ Tail(replies) = <<>>
PROOF
<1>1. Continuing
  <2>1. replies \in Seq(Plain) => Head(replies) \in Plain
    OBVIOUS
  <2> QED BY <2>1 DEF RepliesInv
<1>2. replies = <<"busy">> => Tail(replies) = <<>>
  OBVIOUS
<1>3. replies = <<"next_user">> => Tail(replies) = <<>>
  OBVIOUS
<1> QED BY <1>1, <1>2, <1>3 DEF Continuing

LEMMA SynapticsInitInv == SynapticsInit => SynapticsInv
PROOF
<1> SUFFICES ASSUME SynapticsInit
             PROVE  SynapticsInv
  OBVIOUS
<1>0. SectionsInv
  BY DEF SynapticsInit, Init, SectionsInv
<1>1. CommandInv
  BY DEF SynapticsInit, Init, CommandInv
<1>2. RepliesInv
  BY DEF SynapticsInit, Init, RepliesInv
<1>3. RequestInv
  BY DEF SynapticsInit, Init, RequestInv, Queues
<1>4. SuspendInv
  BY DEF SynapticsInit, Init, SuspendInv
<1> QED BY <1>0, <1>1, <1>2, <1>3, <1>4 DEF SynapticsInv

(* A command that ends has left every section and nothing to read, whatever it *)
(* ended by.                                                                   *)
LEMMA DoneKeeps ==
  ASSUME SynapticsInv, Settled, LayerUntouched, UNCHANGED cmd_suspended,
         ssm \in Reading \/ (ssm = "WAIT_INTERRUPT" /\ intr # "cancelled"),
         NEW res \in {"ok", "failed"}, Done(res, IF ssm \in Reading THEN 0 ELSE 1)
  PROVE  SynapticsInv'
PROOF
<1> USE DEF Done, NoCommand, Complete, LayerUntouched, Settled
<1>0. SectionsInv'
  <2>1. critical' = 0 /\ (flush' => critical' = 0)
    BY SectionsChange DEF SynapticsInv, SectionsInv
  <2> QED BY <2>1 DEF SectionsInv
<1>1. CommandInv'
  <2>1. critical' = 0
    BY SectionsChange DEF SynapticsInv, SectionsInv
  <2>2. result' # "none" /\ ~idle_cancel' /\ cmd' = "none" /\ ssm' = "none"
        /\ intr' = "none" /\ UNCHANGED action
    OBVIOUS
  <2>3. ~action_starting'
    OBVIOUS
  <2> QED BY <2>1, <2>2, <2>3 DEF SynapticsInv, CommandInv, SuspendInv
<1>2. RepliesInv'
  BY DEF SynapticsInv, RepliesInv
<1>3. RequestInv'
  BY SectionsChange DEF SynapticsInv, SectionsInv, CommandInv, RequestInv, SuspendInv
<1>4. SuspendInv'
  BY SectionsChange DEF SynapticsInv, SectionsInv, CommandInv, RequestInv, SuspendInv
<1> QED BY <1>0, <1>1, <1>2, <1>3, <1>4 DEF SynapticsInv

(* A command that goes on has left the section of the machine, and of a start  *)
(* that the sensor has confirmed.                                              *)
LEMMA WaitKeeps ==
  ASSUME SynapticsInv, Settled, LayerUntouched, Unanswered,
         UNCHANGED <<cmd_suspended, id_idx, cancelling>>,
         ssm = "GET_RESP", replies # <<>>, Head(replies) \in Plain,
         NEW leaving_start \in BOOLEAN, Wait(leaving_start), replies' = Tail(replies)
  PROVE  SynapticsInv'
PROOF
<1> USE DEF Wait, LayerUntouched, Unanswered, Settled
<1>0. SectionsInv'
  <2>1. CASE action_starting /\ leaving_start
    <3>1. ~action_starting'
      BY <2>1
    <3>2. critical' = critical - 2 /\ (flush' => critical' = 0)
      BY <2>1, SectionsChange DEF SynapticsInv, SectionsInv
    <3> QED BY <2>1, <3>1, <3>2 DEF SynapticsInv, SectionsInv
  <2>2. CASE ~(action_starting /\ leaving_start)
    <3>1. action_starting' <=> action_starting
      BY <2>2
    <3> QED BY <2>2, <3>1, SectionsChange DEF SynapticsInv, SectionsInv
  <2> QED BY <2>1, <2>2
<1>1. CommandInv'
  BY DEF SynapticsInv, SectionsInv, CommandInv
<1>2. RepliesInv'
  BY ReadingPlain DEF SynapticsInv, CommandInv, RepliesInv
<1>3. RequestInv'
  BY DEF SynapticsInv, SectionsInv, CommandInv, RequestInv, SuspendInv
<1>4. SuspendInv'
  BY DEF SynapticsInv, SectionsInv, CommandInv, RequestInv, SuspendInv
<1> QED BY <1>0, <1>1, <1>2, <1>3, <1>4 DEF SynapticsInv

(* What the sensor answers first may continue the command.                     *)
LEMMA KeptBySent ==
  ASSUME ByProtocol, SynapticsInv, Sent
  PROVE  SynapticsInv'
PROOF
<1> USE DEF Sent, Dispatched, Settled, Idle, MainLoop, Unanswered, LayerUntouched,
            TransferRest, FirstReplies, Plain
<1>0. SectionsInv'
  BY SectionsChange DEF SynapticsInv, SectionsInv, CommandInv, RequestInv, SuspendInv
<1>1. CommandInv'
  BY SectionsChange DEF SynapticsInv, SectionsInv, CommandInv, RepliesInv, RequestInv, SuspendInv
<1>2. RepliesInv'
  BY DEF SynapticsInv, SectionsInv, CommandInv, RepliesInv, Continuing, Plain
<1>3. RequestInv'
  BY DEF SynapticsInv, SectionsInv, CommandInv, RequestInv, SuspendInv, Queues
<1>4. SuspendInv'
  BY DEF SynapticsInv, SectionsInv, CommandInv, RequestInv, SuspendInv, Queues
<1> QED BY <1>0, <1>1, <1>2, <1>3, <1>4 DEF SynapticsInv

(* By the protocol an interrupt brings a message.                              *)
LEMMA KeptByInterrupt ==
  ASSUME ByProtocol, SynapticsInv, NEW m \in Interrupts, Interrupt(m)
  PROVE  SynapticsInv'
PROOF
<1> USE DEF Interrupt, Dispatched, Settled, Idle, MainLoop, Unanswered, LayerUntouched,
            TransferRest, Interrupts, Tells, Decided, ByProtocol, Plain
<1>0. SectionsInv'
  BY SectionsChange DEF SynapticsInv, SectionsInv, CommandInv, RequestInv, SuspendInv
<1>1. CommandInv'
  BY SectionsChange DEF SynapticsInv, SectionsInv, CommandInv, RepliesInv, RequestInv, SuspendInv
<1>2. RepliesInv'
  BY DEF SynapticsInv, SectionsInv, CommandInv, RepliesInv, Continuing, Plain
<1>3. RequestInv'
  BY DEF SynapticsInv, SectionsInv, CommandInv, RequestInv, SuspendInv, Queues
<1>4. SuspendInv'
  BY DEF SynapticsInv, SectionsInv, CommandInv, RequestInv, SuspendInv, Queues
<1> QED BY <1>0, <1>1, <1>2, <1>3, <1>4 DEF SynapticsInv

(* The cancelled interrupt leads to a reply.                                   *)
LEMMA KeptByInterruptCancelled ==
  ASSUME ByProtocol, SynapticsInv, InterruptCancelled
  PROVE  SynapticsInv'
PROOF
<1> USE DEF InterruptCancelled, Dispatched, Settled, Idle, MainLoop, Unanswered,
            LayerUntouched, TransferRest
<1>0. SectionsInv'
  BY SectionsChange DEF SynapticsInv, SectionsInv, CommandInv, RequestInv, SuspendInv
<1>1. CommandInv'
  BY SectionsChange DEF SynapticsInv, SectionsInv, CommandInv, RepliesInv, RequestInv, SuspendInv
<1>2. RepliesInv'
  BY DEF SynapticsInv, SectionsInv, CommandInv, RepliesInv, Continuing, Plain
<1>3. RequestInv'
  BY DEF SynapticsInv, SectionsInv, CommandInv, RequestInv, SuspendInv, Queues
<1>4. SuspendInv'
  BY DEF SynapticsInv, SectionsInv, CommandInv, RequestInv, SuspendInv, Queues
<1> QED BY <1>0, <1>1, <1>2, <1>3, <1>4 DEF SynapticsInv

(* A suspend is answered with the command suspended.                           *)
LEMMA KeptByInterruptSuspended ==
  ASSUME ByProtocol, SynapticsInv, InterruptSuspended
  PROVE  SynapticsInv'
PROOF
<1> USE DEF InterruptSuspended, Dispatched, Settled, Idle, MainLoop, Unanswered,
            LayerUntouched, TransferRest, SuspendComplete
<1>0. SectionsInv'
  BY SectionsChange DEF SynapticsInv, SectionsInv, CommandInv, RequestInv, SuspendInv
<1>1. CommandInv'
  BY SectionsChange DEF SynapticsInv, SectionsInv, CommandInv, RepliesInv, RequestInv, SuspendInv
<1>2. RepliesInv'
  BY DEF SynapticsInv, SectionsInv, CommandInv, RepliesInv, Continuing, Plain
<1>3. RequestInv'
  BY DEF SynapticsInv, SectionsInv, CommandInv, RequestInv, SuspendInv, Queues
<1>4. SuspendInv'
  BY SectionsChange DEF SynapticsInv, SectionsInv, CommandInv, RequestInv, SuspendInv, Queues
<1> QED BY <1>0, <1>1, <1>2, <1>3, <1>4 DEF SynapticsInv

(* What is fetched never continues a command.                                  *)
LEMMA KeptByAsyncSent ==
  ASSUME ByProtocol, SynapticsInv, AsyncSent
  PROVE  SynapticsInv'
PROOF
<1> USE DEF AsyncSent, Dispatched, Settled, Idle, MainLoop, Unanswered, LayerUntouched,
            TransferRest, Plain
<1>0. SectionsInv'
  BY SectionsChange DEF SynapticsInv, SectionsInv, CommandInv, RequestInv, SuspendInv
<1>1. CommandInv'
  BY SectionsChange DEF SynapticsInv, SectionsInv, CommandInv, RepliesInv, RequestInv, SuspendInv
<1>2. RepliesInv'
  BY DEF SynapticsInv, SectionsInv, CommandInv, RepliesInv, Continuing, Plain
<1>3. RequestInv'
  BY DEF SynapticsInv, SectionsInv, CommandInv, RequestInv, SuspendInv, Queues
<1>4. SuspendInv'
  BY DEF SynapticsInv, SectionsInv, CommandInv, RequestInv, SuspendInv, Queues
<1> QED BY <1>0, <1>1, <1>2, <1>3, <1>4 DEF SynapticsInv

(* A busy sensor is sent a cancel, with nothing left to read.                  *)
LEMMA KeptByBusy ==
  ASSUME ByProtocol, SynapticsInv, Busy
  PROVE  SynapticsInv'
PROOF
<1> USE DEF Busy, Dispatched, Settled, Idle, MainLoop, Unanswered, LayerUntouched, Read,
            MessageRest
<1>0. SectionsInv'
  BY SectionsChange DEF SynapticsInv, SectionsInv, CommandInv, RequestInv, SuspendInv
<1>1. CommandInv'
  BY SectionsChange DEF SynapticsInv, SectionsInv, CommandInv, RepliesInv, RequestInv, SuspendInv
<1>2. RepliesInv'
  <2>1. Continuing /\ Tail(replies) = <<>>
    BY ReadingOn DEF SynapticsInv, Plain
  <2>2. replies' = <<>> /\ ~told' /\ ~cancelling' /\ cmd' # "none"
    BY <2>1 DEF SynapticsInv, CommandInv, Continuing
  <2>3. replies' \in Seq(Plain)
    BY <2>2, NothingPlain
  <2> QED BY <2>2, <2>3 DEF SynapticsInv, RepliesInv
<1>3. RequestInv'
  BY DEF SynapticsInv, SectionsInv, CommandInv, RequestInv, SuspendInv, Queues
<1>4. SuspendInv'
  BY DEF SynapticsInv, SectionsInv, CommandInv, RequestInv, SuspendInv, Queues
<1> QED BY <1>0, <1>1, <1>2, <1>3, <1>4 DEF SynapticsInv

(* One more print, which parses: the sections of the start are left with it.   *)
LEMMA KeptByNextUser ==
  ASSUME ByProtocol, SynapticsInv, NextUser
  PROVE  SynapticsInv'
PROOF
<1> USE DEF NextUser, Dispatched, Settled, Idle, MainLoop, Unanswered, LayerUntouched, Read,
            MessageRest, Wait
<1>a. Continuing /\ Tail(replies) = <<>>
  BY ReadingOn DEF SynapticsInv, Plain
<1>b. cmd = "identify" /\ id_idx < Len(gallery) /\ ssm = "GET_RESP"
  BY <1>a DEF Continuing
<1>c. id_idx < Len(gallery) /\ gallery[id_idx + 1]
  <2>1. id_idx + 1 \in 1..Len(gallery)
    BY <1>b DEF SynapticsInv, RepliesInv
  <2> QED BY <1>b, <2>1, ParsesOne DEF SynapticsInv, RepliesInv
<1>d. /\ ssm' = "SEND_PENDING" /\ id_idx' = id_idx + 1
      /\ ~action_starting'
      /\ Sections(0 - One(action_starting))
      /\ UNCHANGED <<cmd, intr, event, gallery, result, idle_cancel, cancelling>>
      /\ replies' = <<>>
  BY <1>a, <1>c
<1>0. SectionsInv'
  BY <1>b, <1>d, SectionsChange DEF SynapticsInv, SectionsInv
<1>1. CommandInv'
  BY <1>b, <1>d, SectionsChange DEF SynapticsInv, SectionsInv, CommandInv
<1>2. RepliesInv'
  <2>1. ~told' /\ ~cancelling' /\ cmd' # "none" /\ replies' = <<>>
    BY <1>a, <1>b, <1>d DEF Continuing
  <2>2. replies' \in Seq(Plain)
    BY <1>d, NothingPlain
  <2> QED BY <1>d, <2>1, <2>2 DEF SynapticsInv, RepliesInv
<1>3. RequestInv'
  BY DEF SynapticsInv, SectionsInv, CommandInv, RequestInv, SuspendInv, Queues
<1>4. SuspendInv'
  BY DEF SynapticsInv, SectionsInv, CommandInv, RequestInv, SuspendInv, Queues
<1> QED BY <1>0, <1>1, <1>2, <1>3, <1>4 DEF SynapticsInv

(* A cancel is heard while the command waits, or is suspended.                 *)
LEMMA KeptByCancelVfunc ==
  ASSUME ByProtocol, SynapticsInv, CancelVfunc
  PROVE  SynapticsInv'
PROOF
<1> USE DEF CancelVfunc, CancelInterrupt
<1>0. SectionsInv'
  BY SectionsChange DEF SynapticsInv, SectionsInv, CommandInv, RequestInv, SuspendInv
<1>1. CommandInv'
  BY SectionsChange DEF SynapticsInv, SectionsInv, CommandInv, RepliesInv, RequestInv, SuspendInv
<1>2. RepliesInv'
  BY DEF SynapticsInv, SectionsInv, CommandInv, RepliesInv, Continuing, Plain
<1>3. RequestInv'
  BY DEF SynapticsInv, SectionsInv, CommandInv, RequestInv, SuspendInv, Queues
<1>4. SuspendInv'
  BY DEF SynapticsInv, SectionsInv, CommandInv, RequestInv, SuspendInv, Queues
<1> QED BY <1>0, <1>1, <1>2, <1>3, <1>4 DEF SynapticsInv

(* A suspend finds a command that waits, or is refused by an enroll or a capture. *)
LEMMA KeptBySuspendVfunc ==
  ASSUME ByProtocol, SynapticsInv, SuspendVfunc
  PROVE  SynapticsInv'
PROOF
<1> USE DEF SuspendVfunc, CancelInterrupt, SuspendComplete, CancelFor, CancelInternal
<1>0. SectionsInv'
  BY SectionsChange DEF SynapticsInv, SectionsInv, CommandInv, RequestInv, SuspendInv
<1>1. CommandInv'
  <2>1. CASE action \in Match
    BY <2>1 DEF SynapticsInv, CommandInv
  <2>2. CASE action \notin Match
    BY <2>2 DEF SynapticsInv, CommandInv, RequestInv
  <2> QED BY <2>1, <2>2
<1>2. RepliesInv'
  BY DEF SynapticsInv, SectionsInv, CommandInv, RepliesInv, Continuing, Plain
<1>3. RequestInv'
  <2>1. CASE action \in Match
    BY <2>1 DEF SynapticsInv, CommandInv, RequestInv, SuspendInv
  <2>2. CASE action \notin Match
    <3>1. handlers' = <<"suspended">>
      <4>1. handlers = <<>> /\ action # "none"
        BY DEF SynapticsInv, RequestInv
      <4>2. handlers' = Append(handlers, "suspended")
        BY <2>2, <4>1
      <4> QED BY <4>1, <4>2
    <3> QED BY <2>2, <3>1 DEF SynapticsInv, RequestInv, Queues
  <2> QED BY <2>1, <2>2
<1>4. SuspendInv'
  BY DEF SynapticsInv, SectionsInv, CommandInv, RequestInv, SuspendInv, Queues
<1> QED BY <1>0, <1>1, <1>2, <1>3, <1>4 DEF SynapticsInv

(* A resume finds a command that is suspended, and leaves no section.          *)
LEMMA KeptByResumeVfunc ==
  ASSUME ByProtocol, SynapticsInv, ResumeVfunc
  PROVE  SynapticsInv'
PROOF
<1> USE DEF ResumeVfunc, ResumeComplete
<1>a. action \in Match /\ ssm = "SUSPENDED" /\ cmd_suspended /\ cmd = action
  BY DEF SynapticsInv, CommandInv, RequestInv, SuspendInv
<1>b. critical' = critical /\ (flush' => critical' = 0)
  BY <1>a, SectionsChange DEF SynapticsInv, SectionsInv
<1>0. SectionsInv'
  BY <1>a, <1>b DEF SynapticsInv, SectionsInv
<1>1. CommandInv'
  BY <1>a, <1>b DEF SynapticsInv, CommandInv
<1>2. RepliesInv'
  BY DEF SynapticsInv, SectionsInv, CommandInv, RepliesInv, Continuing, Plain
<1>3. RequestInv'
  BY DEF SynapticsInv, SectionsInv, CommandInv, RequestInv, SuspendInv, Queues
<1>4. SuspendInv'
  BY DEF SynapticsInv, SectionsInv, CommandInv, RequestInv, SuspendInv, Queues
<1> QED BY <1>0, <1>1, <1>2, <1>3, <1>4 DEF SynapticsInv

(* A command starts from nothing: no section is left over, and nothing to read. *)
LEMMA KeptByStart ==
  ASSUME ByProtocol, SynapticsInv, Start
  PROVE  SynapticsInv'
PROOF
<1>1. /\ action # "none" /\ ~entered /\ entered' /\ result = "none" /\ ~told
      /\ cmd = "none" /\ ssm = "none" /\ intr = "none" /\ ~action_starting
      /\ critical = 0 /\ replies = <<>> /\ ~cancelling /\ ~cmd_suspended
      /\ asked # "suspend" /\ asked # "resume"
  BY DEF Start, SynapticsInv, SectionsInv, CommandInv, RepliesInv, RequestInv, SuspendInv
<1>2. UNCHANGED <<cls, is_open, action, wants_cancel, told, cancelled, reason, queued,
                  powerVars, removalVars, handlers, returnVars, heard, sensorVars,
                  cmd_suspended>>
  BY DEF Start
<1>3. PICK g \in PrintsOf(action) : StartRefused(g) \/ StartCommand(g)
  BY DEF Start
<1>4. g \in Seq({TRUE})
  <2>1. g \in Galleries \/ g = <<>>
    BY <1>3 DEF PrintsOf
  <2>2. <<>> \in Seq({TRUE})
    OBVIOUS
  <2> QED BY <2>1, <2>2 DEF ByProtocol
<1>5. CASE StartRefused(g)
  <2>1. UNCHANGED <<critical, flush, action_starting>>
    <3>1. CASE action = "identify" /\ g # <<>>
      <4>1. g[1]
        BY <1>4, <3>1, ParsesOne
      <4> QED BY <1>5, <3>1, <4>1 DEF StartRefused, Usable
    <3>2. CASE ~(action = "identify" /\ g # <<>>)
      BY <1>5, <3>2 DEF StartRefused
    <3> QED BY <3>1, <3>2
  <2>2. result' # "none" /\ ~idle_cancel'
    BY <1>5 DEF StartRefused, Complete
  <2>3. UNCHANGED <<cmd, ssm, out, intr, event, cmd_complete_on_removal, gallery, id_idx>>
    BY <1>5 DEF StartRefused
  <2>4. SectionsInv'
    BY <1>1, <2>1, <2>3 DEF SynapticsInv, SectionsInv
  <2>5. CommandInv'
    BY <1>1, <1>2, <2>1, <2>2, <2>3 DEF SynapticsInv, CommandInv
  <2>6. RepliesInv'
    BY <1>1, <1>2, <2>3, NothingPlain DEF SynapticsInv, RepliesInv
  <2>7. RequestInv' /\ SuspendInv'
    BY <1>1, <1>2, <2>1, <2>3 DEF SynapticsInv, RequestInv, SuspendInv, Queues
  <2> QED BY <2>4, <2>5, <2>6, <2>7 DEF SynapticsInv
<1>6. CASE StartCommand(g)
  <2>1. /\ cmd' = action /\ ssm' = "SEND_PENDING" /\ gallery' = g
        /\ id_idx' \in Nat /\ UNCHANGED <<out, intr, event, cmd_complete_on_removal, result,
                                          idle_cancel>>
    BY <1>6 DEF StartCommand, Unanswered
  <2>2. action_starting' <=> action \in Match \cup {"enroll"}
    BY <1>1, <1>6 DEF StartCommand
  <2>3. critical' = 1 + One(action \in Match \cup {"enroll", "delete"}) /\ ~flush'
    <3>1. critical' = 1 + One(action \in Match \cup {"enroll", "delete"})
      BY <1>1, <1>6 DEF StartCommand, Sections
    <3>2. Sections(1 + One(action \in Match \cup {"enroll", "delete"}))
      BY <1>6 DEF StartCommand
    <3>3. flush' => critical' = 0
      BY <3>2, SectionsChange
    <3> QED BY <3>1, <3>3
  <2>4. SectionsInv'
    BY <2>1, <2>2, <2>3 DEF SectionsInv
  <2>5. CommandInv'
    BY <1>1, <1>2, <2>1, <2>2 DEF SynapticsInv, CommandInv
  <2>6. RepliesInv'
    BY <1>1, <1>2, <1>4, <2>1, NothingPlain DEF SynapticsInv, RepliesInv
  <2>7. RequestInv' /\ SuspendInv'
    BY <1>1, <1>2, <2>1 DEF SynapticsInv, RequestInv, SuspendInv, Queues
  <2> QED BY <2>4, <2>5, <2>6, <2>7 DEF SynapticsInv
<1> QED BY <1>3, <1>5, <1>6

(* The reply to a cancel queues behind what continues no command.              *)
LEMMA KeptBySensorCancels ==
  ASSUME ByProtocol, SynapticsInv, SensorCancels
  PROVE  SynapticsInv'
PROOF
<1> USE DEF SensorCancels, Settled, SensorRest
<1>0. SectionsInv'
  BY SectionsChange DEF SynapticsInv, SectionsInv, CommandInv, RequestInv, SuspendInv
<1>1. CommandInv'
  BY SectionsChange DEF SynapticsInv, SectionsInv, CommandInv, RepliesInv, RequestInv, SuspendInv
<1>2. RepliesInv'
  <2>1. replies \in Seq(Plain) /\ cmd # "none" /\ ssm # "SEND_PENDING"
    BY DEF SynapticsInv, RepliesInv, Continuing
  <2>2. replies' \in Seq(Plain)
    <3>1. CASE UNCHANGED replies
      BY <2>1, <3>1
    <3>2. ASSUME NEW r \in Plain, replies' = Append(replies, r)
          PROVE  replies' \in Seq(Plain)
      BY <2>1, <3>2, AppendProperties
    <3> QED BY <3>1, <3>2 DEF Plain
  <2> QED BY <2>1, <2>2 DEF SynapticsInv, RepliesInv
<1>3. RequestInv'
  BY DEF SynapticsInv, SectionsInv, CommandInv, RequestInv, SuspendInv, Queues
<1>4. SuspendInv'
  BY DEF SynapticsInv, SectionsInv, CommandInv, RequestInv, SuspendInv, Queues
<1> QED BY <1>0, <1>1, <1>2, <1>3, <1>4 DEF SynapticsInv

(* The finger is the sensor's.                                                 *)
LEMMA KeptByFingerMoves ==
  ASSUME ByProtocol, SynapticsInv, FingerMoves
  PROVE  SynapticsInv'
PROOF
<1> USE DEF FingerMoves, Settled, SensorRest
<1>0. SectionsInv'
  BY SectionsChange DEF SynapticsInv, SectionsInv, CommandInv, RequestInv, SuspendInv
<1>1. CommandInv'
  BY SectionsChange DEF SynapticsInv, SectionsInv, CommandInv, RepliesInv, RequestInv, SuspendInv
<1>2. RepliesInv'
  BY DEF SynapticsInv, SectionsInv, CommandInv, RepliesInv, Continuing, Plain
<1>3. RequestInv'
  BY DEF SynapticsInv, SectionsInv, CommandInv, RequestInv, SuspendInv, Queues
<1>4. SuspendInv'
  BY DEF SynapticsInv, SectionsInv, CommandInv, RequestInv, SuspendInv, Queues
<1> QED BY <1>0, <1>1, <1>2, <1>3, <1>4 DEF SynapticsInv


LEMMA KeptByTransferFails == SynapticsInv /\ TransferFails => SynapticsInv'
PROOF
<1> SUFFICES ASSUME SynapticsInv, TransferFails
             PROVE  SynapticsInv'
  OBVIOUS
<1>1. /\ Settled /\ LayerUntouched /\ UNCHANGED cmd_suspended
      /\ ssm \in Reading \/ (ssm = "WAIT_INTERRUPT" /\ intr # "cancelled")
      /\ Done("failed", IF ssm \in Reading THEN 0 ELSE 1)
  BY DEF TransferFails, Dispatched, TransferRest
<1> QED BY <1>1, DoneKeeps

(* The messages that a callback only notes.                                    *)
LEMMA KeptByNotes ==
  ASSUME SynapticsInv, FingerOn \/ FingerOff \/ Logged
  PROVE  SynapticsInv'
PROOF
<1>1. /\ Settled /\ LayerUntouched /\ Unanswered
      /\ UNCHANGED <<cmd_suspended, id_idx, cancelling>>
      /\ ssm = "GET_RESP" /\ replies # <<>> /\ Head(replies) \in Plain
      /\ replies' = Tail(replies)
      /\ Wait(TRUE) \/ Wait(FALSE)
  BY DEF FingerOn, FingerOff, Logged, Read, Dispatched, MessageRest, Plain
<1> QED BY <1>1, WaitKeeps

(* The messages that decide a command: at once or after the removal.           *)
LEMMA KeptByDecisions ==
  ASSUME SynapticsInv, Removal \/ CancelReply \/ Verdict \/ NoRecord \/ Decision
  PROVE  SynapticsInv'
PROOF
<1>1. /\ Settled /\ LayerUntouched /\ UNCHANGED cmd_suspended
      /\ ssm = "GET_RESP" /\ replies # <<>> /\ Head(replies) \in Plain
  BY DEF Removal, CancelReply, Verdict, NoRecord, Decision, Delay, Read, Dispatched,
         TransferRest, MessageRest, Plain
<1>2. (\E res \in {"ok", "failed"} : Done(res, 0)) \/ (\E m : Delay(m))
  BY DEF Removal, CancelReply, Verdict, NoRecord, Decision, ResultOf
<1>3. ASSUME NEW res \in {"ok", "failed"}, Done(res, 0)
      PROVE  SynapticsInv'
  BY <1>1, <1>3, DoneKeeps
<1>4. ASSUME NEW m, Delay(m)
      PROVE  SynapticsInv'
  <2>1. Wait(TRUE) /\ replies' = Tail(replies) /\ Unanswered /\ UNCHANGED <<id_idx, cancelling>>
    BY <1>4 DEF Delay, MessageRest
  <2> QED BY <1>1, <2>1, WaitKeeps
<1> QED BY <1>2, <1>3, <1>4

(* A new call finds nothing of the driver's running.                           *)
LEMMA KeptByCalls ==
  ASSUME SynapticsInv, LayerStep(Open \/ \E op \in Calls : OpenedCall(op))
  PROVE  SynapticsInv'
PROOF
<1> USE DEF LayerStep, Settled, Open, OpenedCall, Accept
<1>0. SectionsInv'
  BY DEF SynapticsInv, SectionsInv
<1>1. CommandInv'
  BY DeviceAssumption DEF SynapticsInv, CommandInv
<1>2. RepliesInv'
  BY DEF SynapticsInv, CommandInv, RepliesInv, Continuing
<1>3. RequestInv'
  BY DEF SynapticsInv, CommandInv, RequestInv, SuspendInv, Queues
<1>4. SuspendInv'
  BY DEF SynapticsInv, CommandInv, RequestInv, SuspendInv
<1> QED BY <1>0, <1>1, <1>2, <1>3, <1>4 DEF SynapticsInv

(* It is no exception: it looks at no suspension, but is short.                *)
LEMMA KeptByClearStorage ==
  ASSUME SynapticsInv, LayerStep(ClearStorage)
  PROVE  SynapticsInv'
PROOF
<1> USE DEF LayerStep, Settled, ClearStorage, Accept
<1>0. SectionsInv'
  BY DEF SynapticsInv, SectionsInv
<1>1. CommandInv'
  BY DeviceAssumption DEF SynapticsInv, CommandInv
<1>2. RepliesInv'
  BY DEF SynapticsInv, CommandInv, RepliesInv, Continuing
<1>3. RequestInv'
  BY DEF SynapticsInv, CommandInv, RequestInv, SuspendInv, Queues
<1>4. SuspendInv'
  BY DEF SynapticsInv, CommandInv, RequestInv, SuspendInv
<1> QED BY <1>0, <1>1, <1>2, <1>3, <1>4 DEF SynapticsInv

(* What is cancelled runs.                                                     *)
LEMMA CancelRuns ==
  ASSUME CancelInternal, idle_cancel => Running
  PROVE  idle_cancel' => Running
PROOF BY DEF CancelInternal

(* A cancel is told outside of critical sections only.                         *)
LEMMA KeptByCancels ==
  ASSUME SynapticsInv, LayerStep(Cancel \/ IdleCancel)
  PROVE  SynapticsInv'
PROOF
<1>a. /\ action # "none" => entered
      /\ told => heard
      /\ UNCHANGED <<driverVars, cls, action, result, critical, flush, powerVars, handlers,
                    leaving, returning>>
      /\ UNCHANGED queued \/ queued' = queued \cup {"cancel"}
      /\ entered' <=> entered
      /\ heard' <=> heard /\ told'
  BY DEF LayerStep, Settled, Cancel, IdleCancel
<1>b. idle_cancel' => Running
  <2>1. CASE Cancel
    BY <2>1, CancelRuns DEF SynapticsInv, CommandInv, Cancel
  <2>2. CASE IdleCancel
    BY <2>2 DEF IdleCancel
  <2> QED BY <2>1, <2>2 DEF LayerStep
<1>c. told' /\ ~told => Running /\ entered /\ critical = 0
  <2>1. CASE Cancel
    BY <2>1 DEF Cancel
  <2>2. CASE IdleCancel
    <3>1. told' /\ ~told => ~(critical > 0)
      BY <2>2 DEF IdleCancel
    <3>2. critical \in Nat
      BY DEF SynapticsInv, SectionsInv
    <3>3. Running
      BY <2>2 DEF IdleCancel, SynapticsInv, CommandInv
    <3> QED BY <1>a, <3>1, <3>2, <3>3
  <2> QED BY <2>1, <2>2 DEF LayerStep
<1>0. SectionsInv'
  BY <1>a DEF SynapticsInv, SectionsInv
<1>1. CommandInv'
  <2>1. action # "none" /\ ~entered => FALSE
    BY <1>a
  <2>2. told' /\ ~heard' => Running' /\ entered' /\ critical' = 0
    BY <1>a, <1>c
  <2> QED BY <1>a, <1>b, <2>1, <2>2 DEF SynapticsInv, CommandInv
<1>2. RepliesInv'
  BY <1>a, <1>c DEF SynapticsInv, SectionsInv, CommandInv, RepliesInv, Continuing
<1>3. RequestInv'
  BY <1>a DEF SynapticsInv, CommandInv, RequestInv, SuspendInv, Queues
<1>4. SuspendInv'
  BY <1>a DEF SynapticsInv, CommandInv, RequestInv, SuspendInv
<1> QED BY <1>0, <1>1, <1>2, <1>3, <1>4 DEF SynapticsInv

(* The four ways of a suspend: nothing runs, the request is queued for the end *)
(* of a section, the driver is asked, or a short action is waited for.         *)
LEMMA SuspendWays ==
  ASSUME NEW q, FpiSuspend(q), cls = Vfunc, handlers = <<>>
  PROVE  \/ /\ action = "none" /\ is_suspended' /\ request' = "none" /\ queued' = q
            /\ UNCHANGED <<asked, handlers, idle_cancel>>
         \/ /\ action \in Long /\ request' = "suspend" /\ critical > 0
            /\ queued' = q \cup {"suspend"}
            /\ UNCHANGED <<asked, handlers, idle_cancel, is_suspended>>
         \/ /\ action \in Long /\ request' = "suspend" /\ ~(critical > 0)
            /\ queued' = q /\ asked' = "suspend"
            /\ UNCHANGED <<handlers, idle_cancel, is_suspended>>
         \/ /\ action \in Short /\ request' = "suspend" /\ handlers' = <<"short">>
            /\ queued' = q
            /\ UNCHANGED <<asked, idle_cancel, is_suspended>>
PROOF
<1>1. CASE action = "none"
  BY <1>1 DEF FpiSuspend, SuspendComplete
<1>2. CASE action \in Long
  BY <1>2 DEF FpiSuspend
<1>3. CASE action \in Short
  <2>1. Append(handlers, "short") = <<"short">>
    OBVIOUS
  <2> QED BY <1>3, <2>1 DEF FpiSuspend
<1> QED BY <1>1, <1>2, <1>3 DEF FpiSuspend

LEMMA SuspendMade ==
  ASSUME SynapticsInv, Settled,
         UNCHANGED <<driverVars, cls, taskVars, criticalVars, leaving, returning>>,
         entered' <=> entered, told' => heard',
         asked = "none", handlers = <<>>, leaving = <<>>, ~is_suspended,
         NEW q, FpiSuspend(q), "suspend" \notin q, "resume" \notin q
  PROVE  SynapticsInv'
PROOF
<1>0. SectionsInv'
  BY DEF SynapticsInv, SectionsInv
<1>1. UNCHANGED idle_cancel /\ critical \in Nat
  BY SuspendWays DEF SynapticsInv, SectionsInv, RequestInv
<1>2. CommandInv'
  BY <1>1 DEF SynapticsInv, CommandInv
<1>3. RepliesInv'
  BY DEF SynapticsInv, RepliesInv, Continuing
<1>4. RequestInv'
  BY <1>1, SuspendWays DEF Settled, SynapticsInv, RequestInv, SuspendInv, Queues
<1>5. SuspendInv'
  BY <1>1, SuspendWays DEF SynapticsInv, CommandInv, RequestInv, SuspendInv
<1> QED BY <1>0, <1>2, <1>3, <1>4, <1>5 DEF SynapticsInv

(* A suspend meets no other request.                                           *)
LEMMA KeptBySuspend ==
  ASSUME SynapticsInv, LayerStep(Suspend)
  PROVE  SynapticsInv'
PROOF
<1>1. /\ Settled /\ FpiSuspend(queued) /\ ~is_suspended
      /\ UNCHANGED <<driverVars, cls, taskVars, criticalVars, leaving, returning>>
  BY DEF LayerStep, Suspend
<1>2. /\ asked = "none" /\ handlers = <<>> /\ leaving = <<>>
      /\ "suspend" \notin queued /\ "resume" \notin queued
  BY <1>1 DEF Suspend, LayerStep, Settled, SynapticsInv, RequestInv
<1>3. (entered' <=> entered) /\ (told' => heard')
  BY <1>1 DEF LayerStep, Settled
<1> QED BY <1>1, <1>2, <1>3, SuspendMade

(* A resume of a running action finds its command suspended.                   *)
LEMMA KeptByResume ==
  ASSUME SynapticsInv, LayerStep(Resume)
  PROVE  SynapticsInv'
PROOF
<1> USE DEF LayerStep, Settled, Resume, FpiResume, ResumeComplete
<1>0. SectionsInv'
  BY DEF SynapticsInv, SectionsInv
<1>1. CommandInv'
  BY DEF SynapticsInv, CommandInv
<1>2. RepliesInv'
  BY DEF SynapticsInv, CommandInv, RepliesInv, Continuing
<1>3. RequestInv'
  <2>1. /\ handlers = <<>> /\ leaving = <<>> /\ asked = "none" /\ "suspend" \notin queued
        /\ cls = Vfunc
    BY DEF SynapticsInv, RequestInv
  <2>2. queued' = queued
    <3>1. action \in Long => ~(critical > 0)
      BY DEF SynapticsInv, RequestInv, SuspendInv
    <3> QED BY <2>1, <3>1
  <2>3. asked' \in {"none", "resume"}
    BY <2>1
  <2>4. asked' = "resume" => action \in Long
    BY <2>1
  <2>5. asked' = "resume" => cmd_suspended' /\ ssm' = "SUSPENDED"
    BY <2>1, <2>4 DEF SynapticsInv, RequestInv, SuspendInv
  <2> QED BY <2>1, <2>2, <2>3, <2>5 DEF SynapticsInv, RequestInv, Queues
<1>4. SuspendInv'
  BY DEF SynapticsInv, SectionsInv, CommandInv, RequestInv, SuspendInv, Queues
<1> QED BY <1>0, <1>1, <1>2, <1>3, <1>4 DEF SynapticsInv

(* What the flush delivers finds the driver outside of its sections.           *)
LEMMA KeptByFlush ==
  ASSUME SynapticsInv, LayerStep(Flush)
  PROVE  SynapticsInv'
PROOF
<1>1. /\ Settled /\ flush /\ critical = 0 /\ cls = Vfunc
      /\ UNCHANGED <<driverVars, cls, action, result, critical, leaving, returning>>
      /\ entered' <=> entered
      /\ heard' <=> heard /\ told'
  BY DEF LayerStep, Flush, SynapticsInv, SectionsInv, RequestInv
<1>2. CASE FlushCancel
  <2>1. UNCHANGED <<flush, idle_cancel, powerVars, handlers>> /\ queued' = queued \ {"cancel"}
    BY <1>2 DEF FlushCancel
  <2>2. told' => told \/ Running
    BY <1>2 DEF FlushCancel
  <2>3. SectionsInv'
    BY <1>1, <2>1 DEF SynapticsInv, SectionsInv
  <2>4. CommandInv'
    BY <1>1, <2>1, <2>2 DEF Settled, SynapticsInv, CommandInv
  <2>5. RepliesInv'
    BY <1>1, <2>1 DEF SynapticsInv, SectionsInv, RepliesInv, Continuing
  <2>6. RequestInv' /\ SuspendInv'
    BY <1>1, <2>1 DEF SynapticsInv, RequestInv, SuspendInv, Queues
  <2> QED BY <2>3, <2>4, <2>5, <2>6 DEF SynapticsInv
<1>3. CASE FlushSuspend
  <2>1. /\ FpiSuspend(queued \ {"suspend"}) /\ UNCHANGED <<told, flush>>
        /\ UNCHANGED <<taskVars, criticalVars>>
    BY <1>3 DEF FlushSuspend, LayerStep, Flush
  <2>2. /\ asked = "none" /\ handlers = <<>> /\ leaving = <<>> /\ ~is_suspended
        /\ "resume" \notin queued
    BY <1>1, <1>3 DEF FlushSuspend, Settled, SynapticsInv, RequestInv
  <2>3. told' => heard'
    BY <1>1, <2>1 DEF LayerStep, Settled
  <2> QED BY <1>1, <2>1, <2>2, <2>3, SuspendMade
<1>4. CASE FlushResume
  BY <1>4 DEF FlushResume, SynapticsInv, RequestInv
<1>5. CASE FlushEnd
  <2>1. ~flush' /\ UNCHANGED <<told, queued, idle_cancel, powerVars, handlers>>
    BY <1>5 DEF FlushEnd
  <2>2. SectionsInv'
    BY <1>1, <2>1 DEF SynapticsInv, SectionsInv
  <2>3. CommandInv'
    BY <1>1, <2>1 DEF Settled, SynapticsInv, CommandInv
  <2>4. RepliesInv'
    BY <1>1, <2>1 DEF SynapticsInv, RepliesInv, Continuing
  <2>5. RequestInv' /\ SuspendInv'
    BY <1>1, <2>1 DEF SynapticsInv, RequestInv, SuspendInv, Queues
  <2> QED BY <2>2, <2>3, <2>4, <2>5 DEF SynapticsInv
<1> QED BY <1>2, <1>3, <1>4, <1>5 DEF LayerStep, Flush

(* A task that returns has no command, and its handlers answer the request.    *)
LEMMA KeptByReturns ==
  ASSUME SynapticsInv, LayerStep(ReturnTask \/ Notify)
  PROVE  SynapticsInv'
PROOF
<1>1. CASE ReturnTask
  <2>1. /\ Settled /\ result # "none" /\ ~returning
        /\ action' = "none" /\ result' = "none" /\ leaving' = handlers /\ handlers' = <<>>
        /\ UNCHANGED <<driverVars, cls, told, idle_cancel, criticalVars, queued, powerVars>>
        /\ heard' <=> heard /\ told'
    BY <1>1 DEF LayerStep, ReturnTask, Idle, MainLoop
  <2>2. ~entered'
    <3>1. action = "none" => ~entered
      BY DEF SynapticsInv, CommandInv
    <3>2. entered' <=> entered /\ action' = action
      BY DEF LayerStep
    <3> QED BY <2>1, <3>1, <3>2
  <2>3. cmd = "none" /\ ~idle_cancel /\ ~cmd_suspended /\ asked # "suspend" /\ asked # "resume"
    BY <2>1 DEF Settled, SynapticsInv, CommandInv, SuspendInv
  <2>4. SectionsInv'
    BY <2>1 DEF SynapticsInv, SectionsInv
  <2>5. CommandInv'
    BY <2>1, <2>2, <2>3 DEF Settled, SynapticsInv, CommandInv
  <2>6. RepliesInv'
    BY <2>1 DEF SynapticsInv, RepliesInv, Continuing
  <2>7. RequestInv' /\ SuspendInv'
    BY <2>1, <2>3 DEF SynapticsInv, CommandInv, RequestInv, SuspendInv, Queues
  <2> QED BY <2>4, <2>5, <2>6, <2>7 DEF SynapticsInv
<1>2. CASE Notify
  <2>1. /\ Settled
        /\ UNCHANGED <<driverVars, cls, taskVars, idle_cancel, criticalVars, queued, handlers,
                      is_suspended, asked>>
        /\ heard' <=> heard /\ told'
        /\ entered' <=> entered
    BY <1>2 DEF LayerStep, Notify
  <2>2. leaving' = <<>> /\ request' = IF leaving = <<>> THEN request ELSE "none"
    <3>1. leaving = <<>> \/ leaving = <<"suspended">> \/ leaving = <<"short">>
      BY DEF SynapticsInv, RequestInv, Queues
    <3>2. leaving # <<>> => Tail(leaving) = <<>> /\ Head(leaving) \in {"suspended", "short"}
      <4>1. Tail(<<"suspended">>) = <<>> /\ Head(<<"suspended">>) = "suspended"
        OBVIOUS
      <4>2. Tail(<<"short">>) = <<>> /\ Head(<<"short">>) = "short"
        OBVIOUS
      <4> QED BY <3>1, <4>1, <4>2
    <3> QED BY <1>2, <3>1, <3>2 DEF Notify
  <2>3. SectionsInv'
    BY <2>1 DEF SynapticsInv, SectionsInv
  <2>4. CommandInv'
    BY <2>1 DEF Settled, SynapticsInv, CommandInv
  <2>5. RepliesInv'
    BY <2>1 DEF SynapticsInv, RepliesInv, Continuing
  <2>6. RequestInv' /\ SuspendInv'
    BY <2>1, <2>2 DEF SynapticsInv, RequestInv, SuspendInv, Queues
  <2> QED BY <2>3, <2>4, <2>5, <2>6 DEF SynapticsInv
<1> QED BY <1>1, <1>2 DEF LayerStep

LEMMA SynapticsNextKeeps ==
  ASSUME ByProtocol, SynapticsInv, [SynapticsNext]_allVars
  PROVE  SynapticsInv'
PROOF
<1>1. CASE LayerStep(Client \/ IdleCancel \/ Flush \/ ReturnTask \/ Notify)
  <2>1. CASE \E op \in Calls : OpenedCall(op)
    BY <1>1, <2>1, KeptByCalls DEF LayerStep
  <2>2. CASE Open \/ ClearStorage
    BY <1>1, <2>2, KeptByCalls, KeptByClearStorage DEF LayerStep
  <2>3. CASE Cancel \/ IdleCancel
    BY <1>1, <2>3, KeptByCancels DEF LayerStep
  <2>4. CASE Suspend
    BY <1>1, <2>4, KeptBySuspend DEF LayerStep
  <2>5. CASE Resume
    BY <1>1, <2>5, KeptByResume DEF LayerStep
  <2>6. CASE Flush
    BY <1>1, <2>6, KeptByFlush DEF LayerStep
  <2>7. CASE ReturnTask \/ Notify
    BY <1>1, <2>7, KeptByReturns DEF LayerStep
  <2>8. Client => Open \/ ClearStorage \/ Cancel \/ Suspend \/ Resume
                  \/ \E op \in Calls : OpenedCall(op)
    BY DEF Client, Close, Enroll, Verify, Identify, Capture, DeletePrint, ListPrints,
           OpenedCall, Accept
  <2> QED BY <1>1, <2>1, <2>2, <2>3, <2>4, <2>5, <2>6, <2>7, <2>8 DEF LayerStep
<1>2. CASE Vfuncs
  BY <1>2, KeptByStart, KeptByCancelVfunc, KeptBySuspendVfunc, KeptByResumeVfunc DEF Vfuncs
<1>3. CASE Transfers
  BY <1>3, KeptBySent, KeptByInterrupt, KeptByInterruptCancelled, KeptByInterruptSuspended,
     KeptByAsyncSent, KeptByTransferFails DEF Transfers
<1>4. CASE Receive
  BY <1>4, KeptByNotes, KeptByDecisions, KeptByBusy, KeptByNextUser DEF Receive
<1>5. CASE SensorCancels \/ FingerMoves
  BY <1>5, KeptBySensorCancels, KeptByFingerMoves
<1>6. CASE UNCHANGED allVars
  <2>1. SectionsInv' /\ CommandInv'
    BY <1>6 DEF SynapticsInv, SectionsInv, CommandInv
  <2>2. RepliesInv'
    BY <1>6 DEF SynapticsInv, RepliesInv, Continuing
  <2>3. RequestInv' /\ SuspendInv'
    BY <1>6 DEF SynapticsInv, RequestInv, SuspendInv, Queues
  <2> QED BY <2>1, <2>2, <2>3 DEF SynapticsInv
<1> QED BY <1>1, <1>2, <1>3, <1>4, <1>5, <1>6 DEF SynapticsNext

----------------------------------------------------------------------------

(* Whatever the layer, the driver and the sensor do, the command, the critical *)
(* sections and the requests of the layer fit each other.                      *)
THEOREM SynapticsInvariant == ByProtocol /\ SynapticsSpec => []SynapticsInv
PROOF
<1>1. SynapticsInit => SynapticsInv
  BY SynapticsInitInv
<1>2. ByProtocol /\ SynapticsInv /\ [SynapticsNext]_allVars => SynapticsInv'
  BY SynapticsNextKeeps
<1>3. ByProtocol => ByProtocol'
  BY DEF ByProtocol
<1> QED BY <1>1, <1>2, <1>3, PTL DEF SynapticsSpec

(* An action is answered by its command and by nothing else: as long as it runs *)
(* there is exactly one command, its own, and afterwards there is none.         *)
THEOREM CommandAnswers == ByProtocol /\ SynapticsSpec => []AnswerOnItsWay
PROOF
<1>1. SynapticsInv => AnswerOnItsWay
  BY DEF SynapticsInv, CommandInv, AnswerOnItsWay, Settled
<1> QED BY <1>1, SynapticsInvariant, PTL

(* A return begins in the main loop only.                                       *)
LEMMA OnlyReturns ==
  ASSUME SynapticsNext, returning', ~returning
  PROVE  ReturnTask
PROOF
<1>1. CASE LayerStep(Client \/ IdleCancel \/ Flush \/ ReturnTask \/ Notify)
  BY <1>1 DEF LayerStep, Client, Open, Close, Enroll, Verify, Identify, Capture, DeletePrint,
     ListPrints, ClearStorage, OpenedCall, Accept, Cancel, Suspend, Resume, IdleCancel, Flush,
     Notify
<1>2. CASE Vfuncs
  BY <1>2 DEF Vfuncs, Start, CancelVfunc, SuspendVfunc, ResumeVfunc
<1>3. CASE Transfers
  BY <1>3 DEF Transfers, Sent, Interrupt, InterruptCancelled, InterruptSuspended, AsyncSent,
     TransferFails, LayerUntouched
<1>4. CASE Receive
  BY <1>4 DEF Receive, FingerOn, FingerOff, Removal, CancelReply, Busy, NextUser, Logged,
     Verdict, NoRecord, Decision, Read, LayerUntouched
<1>5. CASE SensorCancels \/ FingerMoves
  BY <1>5 DEF SensorCancels, FingerMoves, SensorRest
<1> QED BY <1>1, <1>2, <1>3, <1>4, <1>5 DEF SynapticsNext

(* fpi_device_critical_enter: "all critical sections are left before command    *)
(* completion", by every way in which a command ends.                           *)
THEOREM EverySectionLeft == ByProtocol /\ SynapticsSpec => SectionsLeft
PROOF
<1>1. SynapticsInv /\ [SynapticsNext]_allVars => [returning' /\ ~returning => critical = 0]_allVars
  <2> SUFFICES ASSUME SynapticsInv, SynapticsNext, returning', ~returning
               PROVE  critical = 0
    OBVIOUS
  <2>1. ReturnTask
    BY OnlyReturns
  <2> QED BY <2>1 DEF ReturnTask, SynapticsInv, SectionsInv, CommandInv
<1> QED BY <1>1, SynapticsInvariant, PTL DEF SynapticsSpec, SectionsLeft

(* And a cancel is told in the main loop only.                                  *)
LEMMA OnlyTold ==
  ASSUME SynapticsNext, told', ~told
  PROVE  LayerStep(IdleCancel \/ Flush)
PROOF
<1>1. CASE LayerStep(Client \/ IdleCancel \/ Flush \/ ReturnTask \/ Notify)
  BY <1>1 DEF LayerStep, Client, Open, Close, Enroll, Verify, Identify, Capture, DeletePrint,
     ListPrints, ClearStorage, OpenedCall, Accept, Cancel, Suspend, Resume, ReturnTask, Notify
<1>2. CASE Vfuncs
  BY <1>2 DEF Vfuncs, Start, CancelVfunc, SuspendVfunc, ResumeVfunc
<1>3. CASE Transfers
  BY <1>3 DEF Transfers, Sent, Interrupt, InterruptCancelled, InterruptSuspended, AsyncSent,
     TransferFails, LayerUntouched
<1>4. CASE Receive
  BY <1>4 DEF Receive, FingerOn, FingerOff, Removal, CancelReply, Busy, NextUser, Logged,
     Verdict, NoRecord, Decision, Read, LayerUntouched
<1>5. CASE SensorCancels \/ FingerMoves
  BY <1>5 DEF SensorCancels, FingerMoves, SensorRest
<1> QED BY <1>1, <1>2, <1>3, <1>4, <1>5 DEF SynapticsNext

(* The assertion of resume holds: it is called for a command that is suspended. *)
THEOREM ResumeSafe == ByProtocol /\ SynapticsSpec => []ResumeFindsSuspended
PROOF
<1>1. SynapticsInv => ResumeFindsSuspended
  BY DEF SynapticsInv, CommandInv, RequestInv, SuspendInv, ResumeFindsSuspended
<1> QED BY <1>1, SynapticsInvariant, PTL

(* synaptics_cmd_run_state: "Interruptions are permitted only during an         *)
(* interrupt transfer".  A cancel is told to a command that waits for its       *)
(* interrupt, or that is suspended.                                             *)
THEOREM ToldSafe == ByProtocol /\ SynapticsSpec => ToldWhileWaiting
PROOF
<1>1. SynapticsInv /\ [SynapticsNext]_allVars
        => [~told /\ told' => ssm \in {"WAIT_INTERRUPT", "SUSPENDED"}]_allVars
  <2> SUFFICES ASSUME SynapticsInv, SynapticsNext, ~told, told'
               PROVE  ssm \in {"WAIT_INTERRUPT", "SUSPENDED"}
    OBVIOUS
  <2>1. LayerStep(IdleCancel \/ Flush)
    BY OnlyTold
  <2>2. Running /\ entered /\ ~(critical > 0)
    <3>1. CASE IdleCancel
      BY <2>1, <3>1 DEF LayerStep, Settled, IdleCancel, SynapticsInv, CommandInv
    <3>2. CASE Flush
      <4>1. Running
        BY <3>2 DEF Flush, FlushCancel, FlushSuspend, FlushResume, FlushEnd
      <4>2. critical = 0
        BY <3>2 DEF Flush, SynapticsInv, SectionsInv
      <4> QED BY <2>1, <4>1, <4>2 DEF LayerStep, Settled
    <3> QED BY <2>1, <3>1, <3>2 DEF LayerStep
  <2>3. ssm \notin Reading
    BY <2>2 DEF SynapticsInv, SectionsInv
  <2>4. ssm # "none"
    BY <2>2 DEF SynapticsInv, CommandInv, LayerStep
  <2> QED BY <2>3, <2>4 DEF SynapticsInv, CommandInv
<1> QED BY <1>1, SynapticsInvariant, PTL DEF SynapticsSpec, ToldWhileWaiting

----------------------------------------------------------------------------
(* The promises of the layer, kept with the driver in the place of the         *)
(* environment.  A callback of the driver enters and leaves several critical   *)
(* sections at once, and answers: no step of FpDevice, but the invariant of the *)
(* layer depends on the sections only through their number and the flush.      *)

(* The sections are entered or left, and none is left without its flush.         *)
SectionsMoved ==
  \/ UNCHANGED criticalVars
  \/ action # "none" /\ critical' \in 0..MaxCritical /\ flush' = (critical' = 0)

SomeSections ==
  UNCHANGED criticalVars \/ (action # "none" /\ \E d \in Int : Sections(d))

(* One callback, which may answer the action.                                   *)
Burst ==
  /\ Unanswered \/ \E res \in {"ok", "failed"} : Complete(res)
  /\ UNCHANGED <<cls, is_open, action, wants_cancel, told, cancelled, reason, queued,
                 powerVars, removalVars, handlers, returnVars>>

(* What may be pending with the sections as they are afterwards.                *)
PendingSections ==
  /\ flush' => critical' = 0
  /\ queued # {} => critical' > 0 \/ flush'
  /\ action = "none" => critical' = 0 /\ ~flush'

LEMMA MovedSections ==
  ASSUME Inv, SectionsMoved, critical \in Nat, critical' \in Nat
  PROVE  PendingSections
PROOF
<1>1. CASE UNCHANGED criticalVars
  BY <1>1 DEF Inv, TaskInv, PendingSections
<1>2. CASE action # "none" /\ flush' = (critical' = 0)
  <2>1. CASE critical' = 0
    <3>1. flush' = TRUE
      BY <1>2, <2>1
    <3> QED BY <1>2, <2>1, <3>1 DEF PendingSections
  <2>2. CASE critical' # 0
    <3>1. flush' = FALSE
      BY <1>2, <2>2
    <3>2. critical' > 0
      BY <2>2
    <3> QED BY <1>2, <3>1, <3>2 DEF PendingSections
  <2> QED BY <2>1, <2>2
<1> QED BY <1>1, <1>2 DEF SectionsMoved

LEMMA BurstKeeps ==
  ASSUME Inv, SectionsMoved, Burst
  PROVE  Inv'
PROOF
<1>1. FlagsOK'
  <2>1. flush' \in BOOLEAN
    BY DEF Inv, TypeOK, FlagsOK, SectionsMoved
  <2>2. usb_open' \in BOOLEAN /\ idle_cancel' \in BOOLEAN
    BY DEF Inv, TypeOK, FlagsOK, Burst, Unanswered, Complete
  <2> QED BY <2>1, <2>2 DEF Inv, TypeOK, FlagsOK, Burst
<1>2. DataOK'
  BY DEF Inv, TypeOK, DataOK, SectionsMoved, Burst, Unanswered, Complete
<1>3. critical \in Nat /\ critical' \in Nat
  BY DeviceAssumption DEF Inv, TypeOK, DataOK, SectionsMoved
<1>4. TaskInv'
  <2>1. PendingSections
    BY <1>3, MovedSections
  <2>2. CASE Unanswered
    BY <2>1, <2>2 DEF Inv, TaskInv, PendingSections, Burst, Unanswered
  <2>3. ASSUME NEW res \in {"ok", "failed"}, Complete(res) PROVE TaskInv'
    BY <2>1, <2>3 DEF Inv, TaskInv, PendingSections, Burst, Complete
  <2> QED BY <2>2, <2>3 DEF Burst
<1>5. UsbInv'
  BY DEF Inv, UsbInv, Burst, Unanswered, Complete
<1>6. PowerInv'
  BY ConnectNone DEF Inv, PowerInv, RequestHasAnswerer, SuspendedActionAgreed, Connected, Burst
<1>7. RemovalInv'
  BY RemovalKept DEF Inv, TypeOK, DataOK, Burst
<1> QED BY <1>1, <1>2, <1>4, <1>5, <1>6, <1>7 DEF Inv, TypeOK

LEMMA SuspendAnsweredKeeps ==
  ASSUME Inv, SectionsMoved, SuspendAnswered
  PROVE  Inv'
PROOF
<1> PICK ok \in BOOLEAN : SuspendComplete(ok)
  BY DEF SuspendAnswered
<1>1. FlagsOK'
  <2>1. flush' \in BOOLEAN
    BY DEF Inv, TypeOK, FlagsOK, SectionsMoved
  <2>2. CASE ok \/ action = "none"
    BY <2>1, <2>2 DEF Inv, TypeOK, FlagsOK, SuspendAnswered, SuspendComplete
  <2>3. CASE ~(ok \/ action = "none")
    BY <2>1, <2>3 DEF Inv, TypeOK, FlagsOK, SuspendAnswered, SuspendComplete, CancelFor, CancelInternal
  <2> QED BY <2>2, <2>3
<1>2. DataOK'
  <2>1. critical' \in 0..MaxCritical
    BY DEF Inv, TypeOK, DataOK, SectionsMoved
  <2>2. handlers' \in Seq(Handler) /\ reason' \in {"none", "busy", "hot"} /\ request' \in {"none", "suspend", "resume"}
    <3>1. handlers \in Seq(Handler) /\ "suspended" \in Handler
      BY DEF Inv, TypeOK, DataOK, Handler
    <3>2. Append(handlers, "suspended") \in Seq(Handler)
      BY <3>1
    <3> QED BY <3>1, <3>2 DEF Inv, TypeOK, DataOK, SuspendComplete, CancelFor
  <2> QED BY <2>1, <2>2 DEF Inv, TypeOK, DataOK, SuspendAnswered
<1>3. critical \in Nat /\ critical' \in Nat
  BY DeviceAssumption DEF Inv, TypeOK, DataOK, SectionsMoved
<1>4. TaskInv'
  <2>1. PendingSections
    BY <1>3, MovedSections
  <2>2. CASE ok \/ action = "none"
    BY <2>1, <2>2 DEF Inv, TaskInv, PendingSections, SuspendAnswered, SuspendComplete
  <2>3. CASE ~(ok \/ action = "none")
    <3>1. /\ cancelled' = TRUE /\ idle_cancel' = (idle_cancel \/ (~cancelled /\ Running /\ "cancel" \in cls))
          /\ action' = action /\ action # "none"
      BY <2>3 DEF SuspendAnswered, SuspendComplete, CancelFor, CancelInternal
    <3> QED BY <2>1, <3>1 DEF Inv, TaskInv, PendingSections, SuspendAnswered
  <2> QED BY <2>2, <2>3
<1>5. UsbInv'
  BY DEF Inv, UsbInv, SuspendAnswered
<1>6. PowerInv'
  BY SuspendAnsweredKeepsPower DEF Inv
<1>7. handlers' = handlers \/ \E e \in {"suspended", "short"} : handlers' = Append(handlers, e)
  BY DEF SuspendComplete
<1>8. RemovalInv'
  BY <1>7, RemovalKept DEF Inv, TypeOK, DataOK, SuspendAnswered
<1> QED BY <1>1, <1>2, <1>4, <1>5, <1>6, <1>8 DEF Inv, TypeOK

LEMMA ResumeAnsweredKeeps ==
  ASSUME Inv, SectionsMoved, ResumeAnswered
  PROVE  Inv'
PROOF
<1>1. FlagsOK'
  BY DEF Inv, TypeOK, FlagsOK, SectionsMoved, ResumeAnswered, ResumeComplete
<1>2. DataOK'
  BY DEF Inv, TypeOK, DataOK, SectionsMoved, ResumeAnswered, ResumeComplete
<1>3. critical \in Nat /\ critical' \in Nat
  BY DeviceAssumption DEF Inv, TypeOK, DataOK, SectionsMoved
<1>4. TaskInv'
  <2>1. PendingSections
    BY <1>3, MovedSections
  <2> QED BY <2>1 DEF Inv, TaskInv, PendingSections, ResumeAnswered, ResumeComplete
<1>5. UsbInv'
  BY DEF Inv, UsbInv, ResumeAnswered
<1>6. PowerInv'
  BY ResumeAnsweredKeepsPower DEF Inv
<1>7. RemovalInv'
  BY RemovalKept DEF Inv, TypeOK, DataOK, ResumeAnswered
<1> QED BY <1>1, <1>2, <1>4, <1>5, <1>6, <1>7 DEF Inv, TypeOK

(* At most two sections are ever nested: that of the machine, and that of a     *)
(* start or of a delete.                                                      *)
LEMMA SectionsStep ==
  ASSUME SynapticsInv, SynapticsInv', 2 <= MaxCritical, SomeSections
  PROVE  SectionsMoved
PROOF
<1>1. MaxCritical \in Nat
  BY DeviceAssumption
<1>2. critical \in 0..2 /\ critical' \in 0..2
  BY DEF SynapticsInv, SectionsInv, CommandInv
<1>3. CASE UNCHANGED criticalVars
  BY <1>3 DEF SectionsMoved
<1>4. ASSUME action # "none", NEW d \in Int, Sections(d) PROVE SectionsMoved
  BY <1>1, <1>2, <1>4 DEF SectionsMoved, Sections
<1> QED BY <1>3, <1>4 DEF SomeSections

(* A step of the driver, of the sensor or of the finger.                        *)
OnLayer ==
  /\ SomeSections
  /\ Burst \/ SuspendAnswered \/ ResumeAnswered

LEMMA VfuncsOnLayer ==
  ASSUME SynapticsInv, Vfuncs
  PROVE  OnLayer \/ UNCHANGED vars
PROOF
<1>1. CASE Start
  <2>1. action # "none"
    BY <1>1 DEF Start
  <2>2. PICK g \in PrintsOf(action) : StartRefused(g) \/ StartCommand(g)
    BY <1>1 DEF Start
  <2>3. CASE StartRefused(g)
    <3>1. \E res \in {"ok", "failed"} : Complete(res)
      BY <2>3 DEF StartRefused
    <3>2. SomeSections
      BY <2>1, <2>3 DEF StartRefused, SomeSections
    <3> QED BY <1>1, <3>1, <3>2 DEF Start, Burst, OnLayer
  <2>4. CASE StartCommand(g)
    <3>1. SomeSections
      <4>1. 1 + One(action \in Match \cup {"enroll", "delete"}) \in Int
        OBVIOUS
      <4> QED BY <2>1, <2>4, <4>1 DEF StartCommand, SomeSections
    <3> QED BY <1>1, <2>4, <3>1 DEF Start, StartCommand, Burst, OnLayer
  <2> QED BY <2>2, <2>3, <2>4
<1>2. CASE CancelVfunc
  BY <1>2 DEF CancelVfunc
<1>3. CASE SuspendVfunc
  <2>1. UNCHANGED <<cls, taskVars, criticalVars, queued, removalVars, returnVars>> /\ asked = "suspend"
    BY <1>3 DEF SuspendVfunc
  <2>2. CASE action \notin Match /\ asked' = "none" /\ SuspendComplete(FALSE)
    BY <2>1, <2>2 DEF SuspendAnswered, OnLayer, SomeSections
  <2>3. CASE UNCHANGED <<powerVars, cancelVars, handlers>>
    BY <2>1, <2>3
  <2> QED BY <1>3, <2>2, <2>3 DEF SuspendVfunc
<1>4. CASE ResumeVfunc
  <2>1. /\ UNCHANGED <<cls, taskVars, cancelVars, queued, removalVars, handlers, returnVars>>
        /\ asked = "resume"
    BY <1>4 DEF ResumeVfunc
  <2>2. CASE action \in Match /\ ssm = "SUSPENDED" /\ cmd_suspended
    <3>1. asked' = "none" /\ ResumeComplete /\ UNCHANGED suspend_error /\ Sections(0)
      BY <1>4, <2>2 DEF ResumeVfunc
    <3>2. action # "none" /\ 0 \in Int
      BY <2>2
    <3> QED BY <2>1, <3>1, <3>2 DEF ResumeAnswered, OnLayer, SomeSections
  <2>3. CASE ~(action \in Match /\ ssm = "SUSPENDED" /\ cmd_suspended)
    BY <1>4, <2>1, <2>3 DEF ResumeVfunc
  <2> QED BY <2>2, <2>3
<1> QED BY <1>1, <1>2, <1>3, <1>4 DEF Vfuncs

(* A callback goes on, or ends the command.                                     *)
LEMMA WaitOnLayer ==
  ASSUME action # "none", LayerUntouched, Unanswered, NEW s, Wait(s)
  PROVE  OnLayer
PROOF
<1>1. 0 - 1 - One(action_starting /\ s) \in Int
  OBVIOUS
<1>2. SomeSections
  BY <1>1 DEF Wait, SomeSections
<1> QED BY <1>2 DEF LayerUntouched, Burst, OnLayer

LEMMA DoneOnLayer ==
  ASSUME action # "none", LayerUntouched, NEW res \in {"ok", "failed"}, NEW n \in {0, 1}, Done(res, n)
  PROVE  OnLayer
PROOF
<1>1. n - 1 - One(action_starting) - One(cmd = "delete") \in Int
  OBVIOUS
<1>2. SomeSections
  BY <1>1 DEF Done, SomeSections
<1> QED BY <1>2 DEF Done, LayerUntouched, Burst, OnLayer

LEMMA TransfersOnLayer ==
  ASSUME SynapticsInv, Transfers
  PROVE  OnLayer
PROOF
<1>1. ssm # "none" => action # "none"
  BY DEF SynapticsInv, CommandInv
<1>2. CASE Sent \/ AsyncSent
  BY <1>2 DEF Sent, AsyncSent, LayerUntouched, OnLayer, SomeSections, Burst
<1>3. ASSUME NEW m \in Interrupts, Interrupt(m) PROVE OnLayer
  <2>1. action # "none" /\ 0 \in Int /\ 1 \in Int
    BY <1>1, <1>3 DEF Interrupt
  <2>2. SomeSections
    BY <1>3, <2>1 DEF Interrupt, SomeSections
  <2> QED BY <1>3, <2>2 DEF Interrupt, LayerUntouched, OnLayer, Burst
<1>4. CASE InterruptCancelled \/ InterruptSuspended
  <2>1. intr = "cancelled"
    BY <1>4 DEF InterruptCancelled, InterruptSuspended
  <2>2. ssm = "WAIT_INTERRUPT" /\ action # "none" /\ 0 \in Int /\ 1 \in Int
    BY <1>1, <2>1 DEF SynapticsInv, CommandInv
  <2>3. CASE InterruptCancelled
    BY <2>2, <2>3 DEF InterruptCancelled, LayerUntouched, OnLayer, SomeSections, Burst
  <2>4. CASE InterruptSuspended
    <3>1. asked = "suspend"
      BY <2>2, <2>4 DEF InterruptSuspended, SynapticsInv, SuspendInv
    <3>2. SuspendAnswered
      BY <2>4, <3>1 DEF InterruptSuspended, SuspendAnswered
    <3>3. SomeSections
      BY <2>2, <2>4 DEF InterruptSuspended, SomeSections
    <3> QED BY <3>2, <3>3 DEF OnLayer
  <2> QED BY <1>4, <2>3, <2>4
<1>5. CASE TransferFails
  <2>1. LayerUntouched /\ action # "none" /\ (Done("failed", 0) \/ Done("failed", 1))
    BY <1>1, <1>5 DEF TransferFails
  <2> QED BY <2>1, DoneOnLayer
<1> QED BY <1>2, <1>3, <1>4, <1>5 DEF Transfers

LEMMA ReceiveOnLayer ==
  ASSUME SynapticsInv, Receive
  PROVE  OnLayer
PROOF
<1>1. LayerUntouched /\ ssm = "GET_RESP"
  BY DEF Receive, FingerOn, FingerOff, Removal, CancelReply, Busy, NextUser, Logged, Verdict,
     NoRecord, Decision, Read
<1>2. action # "none"
  BY <1>1 DEF SynapticsInv, CommandInv
<1>3. CASE FingerOn \/ FingerOff \/ Logged
  BY <1>1, <1>2, <1>3, WaitOnLayer DEF FingerOn, FingerOff, Logged
<1>4. CASE Removal \/ CancelReply \/ Decision
  <2>1. \E res \in {"ok", "failed"} : Done(res, 0)
    BY <1>4 DEF Removal, CancelReply, Decision, ResultOf
  <2> QED BY <1>1, <1>2, <2>1, DoneOnLayer
<1>5. CASE Busy
  BY <1>1, <1>5 DEF Busy, LayerUntouched, OnLayer, SomeSections, Burst
<1>6. CASE NextUser
  <2>1. CASE id_idx < Len(gallery) /\ gallery[id_idx + 1]
    <3>1. 0 - One(action_starting) \in Int
      OBVIOUS
    <3>2. SomeSections /\ Unanswered
      BY <1>2, <1>6, <2>1, <3>1 DEF NextUser, SomeSections
    <3> QED BY <1>1, <3>2 DEF LayerUntouched, OnLayer, Burst
  <2>2. CASE ~(id_idx < Len(gallery) /\ gallery[id_idx + 1])
    <3>1. Complete("failed") /\ Wait(TRUE)
      BY <1>6, <2>2 DEF NextUser
    <3>2. 0 - 1 - One(action_starting /\ TRUE) \in Int
      OBVIOUS
    <3>3. SomeSections
      BY <1>2, <3>1, <3>2 DEF Wait, SomeSections
    <3> QED BY <1>1, <3>1, <3>3 DEF LayerUntouched, OnLayer, Burst
  <2> QED BY <2>1, <2>2
<1>7. CASE Verdict \/ NoRecord
  <2>1. \/ \E m : Delay(m)
        \/ \E res \in {"ok", "failed"} : Done(res, 0)
    BY <1>7 DEF Verdict, NoRecord, ResultOf
  <2>2. CASE \E m : Delay(m)
    BY <1>1, <1>2, <2>2, WaitOnLayer DEF Delay
  <2>3. CASE \E res \in {"ok", "failed"} : Done(res, 0)
    BY <1>1, <1>2, <2>3, DoneOnLayer
  <2> QED BY <2>1, <2>2, <2>3
<1> QED BY <1>3, <1>4, <1>5, <1>6, <1>7 DEF Receive

(* Every step of the composition is one of the layer, or one of the driver.     *)
LEMMA StepOfLayer ==
  ASSUME SynapticsInv, [SynapticsNext]_allVars
  PROVE  [Next]_vars \/ OnLayer
PROOF
<1>1. CASE LayerStep(Client \/ IdleCancel \/ Flush \/ ReturnTask \/ Notify)
  <2>1. ReturnTask => TaskReturn
    BY DEF ReturnTask, TaskReturn, SynapticsInv, SectionsInv, CommandInv
  <2> QED BY <1>1, <2>1 DEF LayerStep, Next, Loop
<1>2. CASE SensorCancels \/ FingerMoves \/ UNCHANGED allVars
  BY <1>2 DEF SensorCancels, FingerMoves, SensorRest
<1> QED BY <1>1, <1>2, VfuncsOnLayer, TransfersOnLayer, ReceiveOnLayer DEF SynapticsNext

LEMMA LayerKept ==
  ASSUME ByProtocol, 2 <= MaxCritical, Inv, SynapticsInv, [SynapticsNext]_allVars
  PROVE  Inv'
PROOF
<1>1. CASE [Next]_vars
  BY <1>1, InvStep
<1>2. CASE OnLayer
  <2>1. SectionsMoved
    BY <1>2, SynapticsNextKeeps, SectionsStep DEF OnLayer
  <2> QED BY <1>2, <2>1, BurstKeeps, SuspendAnsweredKeeps, ResumeAnsweredKeeps DEF OnLayer
<1> QED BY <1>1, <1>2, StepOfLayer

LEMMA LayerInvariance ==
  ASSUME 2 <= MaxCritical
  PROVE  ByProtocol /\ SynapticsSpec => [](Inv /\ SynapticsInv)
PROOF
<1>1. SynapticsInit => Inv
  BY InvInit DEF SynapticsInit
<1>2. ByProtocol /\ SynapticsInv /\ Inv /\ [SynapticsNext]_allVars => Inv'
  BY LayerKept
<1>3. ByProtocol => ByProtocol'
  BY DEF ByProtocol
<1> QED BY <1>1, <1>2, <1>3, SynapticsInvariant, PTL DEF SynapticsSpec

(* Under synaptics the layer keeps what it promises in every state: requests     *)
(* have an answerer, what is queued is flushed, the idle cancel has its action,  *)
(* and the USB device is open under an open device.                            *)
LayerPromises ==
  /\ CancelIdleHasAction /\ QueuedIsFlushed /\ RequestHasAnswerer /\ RemovedOnce
  /\ OpenHasUsb /\ SuspendedActionAgreed

(* The callbacks of synaptics.c, each a burst of calls of the layer, keep them.  *)
THEOREM SynapticsKeepsLayer ==
  ASSUME 2 <= MaxCritical
  PROVE  ByProtocol /\ SynapticsSpec => []LayerPromises
PROOF
<1>1. Inv => LayerPromises
  BY DEF Inv, TaskInv, UsbInv, PowerInv, RemovalInv, LayerPromises, CancelIdleHasAction,
     QueuedIsFlushed, OpenHasUsb
<1> QED BY <1>1, LayerInvariance, PTL

(* And in every step: a cancel reaches the driver only for the action it was     *)
(* meant for and outside of its sections, what a suspend interrupted is answered *)
(* as busy, and no answer has the reason of another call.                       *)
THEOREM SynapticsKeepsAnswers ==
  ASSUME 2 <= MaxCritical
  PROVE  ByProtocol /\ SynapticsSpec =>
           CancelReachesItsAction /\ InterruptedIsBusy /\ ReasonIsTrue
PROOF
<1> DEFINE Told == ~told /\ told' => cancelled /\ Running /\ critical = 0
           Busied == returning' /\ ~returning /\ Has(leaving', "suspended") => answer' # "failed"
           Reasons == returning' /\ ~returning =>
                        /\ answer' \in {"busy", "hot"} => cancelled
                        /\ answer' = "busy" => is_suspended
                        /\ answer' = "removed" => is_removed
<1>1. Inv /\ SynapticsInv /\ [SynapticsNext]_allVars => [Told]_vars /\ [Busied]_vars /\ [Reasons]_vars
  <2> SUFFICES ASSUME Inv, SynapticsInv, [SynapticsNext]_allVars
               PROVE  [Told]_vars /\ [Busied]_vars /\ [Reasons]_vars
    OBVIOUS
  <2>1. CASE [Next]_vars
    BY <2>1, ToldStep, BusyStep, AnswerStep
  <2>2. CASE OnLayer
    <3>1. told' = told /\ returning' = returning
      BY <2>2 DEF OnLayer, Burst, SuspendAnswered, ResumeAnswered
    <3>2. Told /\ Busied /\ Reasons
      BY <3>1
    <3> QED BY <3>2
  <2> QED BY <2>1, <2>2, StepOfLayer
<1> QED BY <1>1, LayerInvariance, PTL
        DEF SynapticsSpec, CancelReachesItsAction, InterruptedIsBusy, ReasonIsTrue
=============================================================================
