--------------------------- MODULE JobStore_proofs ---------------------------
(***************************************************************************)
(* The safety properties of JobStore hold for any number of children,      *)
(* removers and lists, whoever of them may be killed, whether or not the   *)
(* disk fails, and whether execution waits for the lock or gives up.       *)
(*                                                                         *)
(* None of them is inductive: why no second launch can happen depends on   *)
(* who may be where while the lock is held.  IndInv says it.               *)
(***************************************************************************)
EXTENDS JobStore, TLAPS

-----------------------------------------------------------------------------
(* The inductive invariant *)

\* Where a process holds the lock.  "sweep" is the one place where files are
\* removed without it.
Critical == {"saving", "checkAt", "creating", "readback", "recheck", "return", "discard",
             "loading", "checking", "marking", "starting", "running", "recording",
             "inspecting", "cancelling", "deleting", "removing"}
LockInv == \A p \in Procs : pc[p] \in Critical => holder = p

\* Where each kind of process can be.
PlaceInv ==
    /\ pc[Registrar] \in RegistrarPCs
    /\ \A e \in Executors : pc[e] \in ExecutorPCs
    /\ \A r \in Removers  : pc[r] \in RemoverPCs
    /\ \A l \in Listers   : pc[l] \in ListerPCs

\* Until the task is created there is nothing a child or a remover can do.
Unregistered == pc[Registrar] \in {"idle", "mklock", "locking", "saving", "checkAt",
                                   "creating", "discard", "sweep"}
RegistrationInv ==
    /\ Unregistered =>
          /\ task = "absent" /\ launched = {} /\ ~cancelSaved
          /\ \A e \in Executors : pc[e] = "idle"
          /\ \A r \in Removers : pc[r] \in {"idle", "loading"} \cup Ended
    /\ pc[Registrar] \in {"idle", "mklock"} => files = {}
    /\ pc[Registrar] = "mklock" => dirMade
    /\ pc[Registrar] \in {"idle", "mklock", "locking", "saving", "sweep"}
          => "request" \notin files
    /\ pc[Registrar] \in {"checkAt", "creating"} => Loadable
    /\ pc[Registrar] \in {"readback", "recheck"} /\ ~due => task = "armed"
    /\ pc[Registrar] = "return" => task = "armed" \/ pc[TimedRun] # "idle"

\* A child that is past the checks has a request, and nothing in the job's past
\* forbids the launch.
ChildInv ==
    \A e \in Executors :
        /\ pc[e] \in {"checking", "marking", "starting", "running", "recording"}
              => "request" \in files
        /\ pc[e] \in {"starting", "running", "recording"} => "started" \in files
        /\ pc[e] \in {"marking", "starting"} => torn \/ (launched = {} /\ ~cancelSaved)

RemovalInv ==
    /\ files # {} => dirMade
    /\ \A r \in Removers :
          /\ pc[r] = "removing" => task = "absent"
          /\ pc[r] \in {"inspecting", "cancelling", "deleting"} => "request" \in files
          /\ pc[r] = "deleting" => "cancelled" \in files

\* After a launch or a cancellation something keeps the next child out: the
\* request is gone, a record is there, or a remover still holds the lock.
Blocked(records) ==
    \/ torn
    \/ "request" \notin files
    \/ records \cap files # {}
    \/ \E r \in Removers : pc[r] = "removing"
HistoryInv ==
    /\ launched # {} => Blocked({"started", "cancelled"})
    /\ cancelSaved => Blocked({"cancelled"})

IndInv == /\ TypeOK /\ PlaceInv /\ LockInv /\ RegistrationInv /\ ChildInv
          /\ RemovalInv /\ HistoryInv /\ TaskHasPayload /\ OnceOnly

-----------------------------------------------------------------------------
(* The file operations keep the types of the file variables. *)

LEMMA CreateJSONType ==
    ASSUME TypeOK, NEW f \in FileNames, CreateJSON(f) \/ CreateJSONFails(f)
    PROVE  dirMade' \in BOOLEAN /\ files' \subseteq FileNames /\ damaged' \subseteq files'
BY DEF TypeOK, CreateJSON, CreateJSONFails, fileVars

LEMMA UnlinkType ==
    ASSUME TypeOK, UnlinkOne \/ RemoveDir \/ UNCHANGED fileVars
    PROVE  dirMade' \in BOOLEAN /\ files' \subseteq FileNames /\ damaged' \subseteq files'
BY DEF TypeOK, UnlinkOne, RemoveDir, fileVars

\* A step of a list changes only its own place and what it has seen, so it
\* keeps every part of the invariant.
LEMMA ListStep ==
    ASSUME IndInv, NEW l \in Listers, List(l)
    PROVE  IndInv'
<1> USE ProcsAssumption DEF TypeOK, At, Goto, Looking, fileVars, historyVars
<1>1. \E q \in ListerPCs : pc' = [pc EXCEPT ![l] = q]
  BY DEF List, ListLoad, ListStarted, ListResult, ListCancelled, ListTask, ListerPCs, Ended
<1>2. Looking(l)
  BY DEF List, ListLoad, ListStarted, ListResult, ListCancelled, ListTask
<1>3. view' \in [Listers -> View]
  <2>1. view \in [Listers -> View] /\ view[l] \in View
    BY DEF IndInv
  <2>2. ASSUME NEW v \in View, view' = [view EXCEPT ![l] = v]
        PROVE  view' \in [Listers -> View]
    BY <2>1, <2>2
  <2>3. \E v \in View : view' = [view EXCEPT ![l] = v] \/ view' = view
    <3>1. CASE ListLoad(l)
      BY <3>1, <2>1 DEF ListLoad, BlankView, View, Statuses
    <3>2. CASE ListStarted(l)
      BY <3>2, <2>1 DEF ListStarted, See, View, Statuses
    <3>3. CASE ListResult(l)
      BY <3>3, <2>1 DEF ListResult, See, View, Statuses
    <3>4. CASE ListCancelled(l)
      <4>1. view' = [view EXCEPT ![l].pending = ("cancelled" \in files)]
        BY <3>4, Zenon DEF ListCancelled, See
      <4>2. ("cancelled" \in files) = TRUE \/ ("cancelled" \in files) = FALSE
        <5>1. CASE "cancelled" \in files
          BY <5>1
        <5>2. CASE "cancelled" \notin files
          BY <5>2
        <5> QED BY <5>1, <5>2
      <4>3. \A x \in BOOLEAN : [view[l] EXCEPT !.pending = x] \in View
        BY <2>1 DEF View
      <4>4. \E x \in BOOLEAN : view' = [view EXCEPT ![l].pending = x]
        BY <4>1, <4>2, Zenon
      <4>5. PICK b \in BOOLEAN : view' = [view EXCEPT ![l].pending = b]
        BY <4>4
      <4>6. view' = [view EXCEPT ![l] = [view[l] EXCEPT !.pending = b]]
        BY <4>5
      <4> QED BY <4>3, <4>6
    <3>5. CASE ListTask(l)
      BY <3>5, <2>1 DEF ListTask, TaskReadings, See, View
    <3> QED BY <3>1, <3>2, <3>3, <3>4, <3>5 DEF List
  <2> QED BY <2>1, <2>2, <2>3
<1>4. \A p \in Procs \ {l} : pc'[p] = pc[p]
  BY <1>1 DEF IndInv
<1>5. pc'[l] \in ListerPCs /\ pc' \in [Procs -> PCs] /\ pc'[l] \notin Critical
  BY <1>1 DEF IndInv, PCs, Procs, ListerPCs, Critical, Ended
<1>6. /\ Registrar \in Procs \ {l} /\ TimedRun \in Procs \ {l}
      /\ Executors \subseteq Procs \ {l} /\ Removers \subseteq Procs \ {l}
  BY DEF Procs
<1>7. TypeOK'
  BY <1>2, <1>3, <1>5 DEF IndInv
<1>8. PlaceInv' /\ LockInv'
  BY <1>2, <1>4, <1>5, <1>6 DEF IndInv, PlaceInv, LockInv, Procs
<1>9. RegistrationInv'
  BY <1>2, <1>4, <1>6 DEF IndInv, RegistrationInv, Unregistered, Loadable
<1>10. ChildInv' /\ RemovalInv'
  BY <1>2, <1>4, <1>6 DEF IndInv, ChildInv, RemovalInv
<1>11. HistoryInv'
  BY <1>2, <1>4, <1>6 DEF IndInv, HistoryInv, Blocked
<1>12. TaskHasPayload' /\ OnceOnly'
  BY <1>2 DEF IndInv, TaskHasPayload, OnceOnly, Loadable
<1> QED BY <1>7, <1>8, <1>9, <1>10, <1>11, <1>12 DEF IndInv

-----------------------------------------------------------------------------
(* Every step keeps the invariant. *)

LEMMA InitInv == Init => IndInv
<1> SUFFICES ASSUME Init PROVE IndInv
  OBVIOUS
<1> USE ProcsAssumption DEF Init, Procs
<1>1. view \in [Listers -> View]
  BY DEF View, BlankView, Statuses
<1>2. TypeOK
  BY <1>1 DEF TypeOK, PCs, RegistrarPCs
<1>3. PlaceInv /\ LockInv
  BY DEF PlaceInv, LockInv, Critical, RegistrarPCs, ExecutorPCs, RemoverPCs, ListerPCs
<1>4. RegistrationInv /\ ChildInv /\ RemovalInv /\ HistoryInv
  BY DEF RegistrationInv, ChildInv, RemovalInv, HistoryInv
<1>5. TaskHasPayload /\ OnceOnly
  BY DEF TaskHasPayload, OnceOnly
<1> QED BY <1>2, <1>3, <1>4, <1>5 DEF IndInv

LEMMA StepInv ==
    ASSUME IndInv, [Next]_vars
    PROVE  IndInv'
<1> USE ProcsAssumption DEF IndInv, TypeOK, PlaceInv, LockInv, RegistrationInv, Unregistered,
      ChildInv, RemovalInv, HistoryInv, Blocked, TaskHasPayload, OnceOnly, Loadable, Procs,
      Critical, Ended, RegistrarPCs, ExecutorPCs, RemoverPCs, ListerPCs, PCs,
      At, Goto, Finish, Take, fileVars, historyVars
<1>1. CASE TimePasses
  BY <1>1, SMTT(60) DEF TimePasses
<1>2. CASE Fire
  BY <1>2, SMTT(60) DEF Fire, StartChild
<1>3. CASE MakeDir
  BY <1>3, SMTT(60) DEF MakeDir
<1>4. CASE MakeLockFile
  <2>1. files = {} /\ damaged = {} /\ dirMade
    BY <1>4 DEF MakeLockFile
  <2>2. CASE /\ files' = {"lock"} /\ UNCHANGED dirMade
             /\ \/ Goto(Registrar, "locking") /\ UNCHANGED report
                \/ Goto(Registrar, "done") /\ report' = "failed"
    BY <1>4, <2>1, <2>2, SMTT(60) DEF MakeLockFile, FileNames
  <2>3. CASE dirMade' = FALSE /\ UNCHANGED files /\ Goto(Registrar, "done") /\ report' = "failed"
    <3> USE <1>4, <2>1, <2>3 DEF MakeLockFile
    <3>1. TypeOK'
      <4>1. pc' \in [Procs -> PCs]
        OBVIOUS
      <4>2. dirMade' \in BOOLEAN /\ files' \subseteq FileNames /\ damaged' \subseteq files'
        OBVIOUS
      <4> QED BY <4>1, <4>2
    <3>2. PlaceInv' /\ RegistrationInv'
      OBVIOUS
    <3>3. LockInv' /\ ChildInv' /\ RemovalInv'
      OBVIOUS
    <3>4. HistoryInv' /\ TaskHasPayload' /\ OnceOnly'
      OBVIOUS
    <3> QED BY <3>1, <3>2, <3>3, <3>4
  <2> QED BY <1>4, <2>2, <2>3 DEF MakeLockFile
<1>5. CASE LockNewJob
  BY <1>5, SMTT(60) DEF LockNewJob, LockFree
<1>6. CASE SaveRequest
  <2>1. dirMade' \in BOOLEAN /\ files' \subseteq FileNames /\ damaged' \subseteq files'
    BY <1>6, CreateJSONType DEF SaveRequest, FileNames
  <2>2. TypeOK'
    BY <1>6, <2>1 DEF SaveRequest, CreateJSON, CreateJSONFails
  <2>3. PlaceInv' /\ LockInv' /\ RegistrationInv' /\ ChildInv'
    BY <1>6, SMTT(30) DEF SaveRequest, CreateJSON, CreateJSONFails
  <2>4. RemovalInv'
    BY <1>6, SMTT(30) DEF SaveRequest, CreateJSON, CreateJSONFails
  <2>5. HistoryInv'
    BY <1>6, SMTT(30) DEF SaveRequest, CreateJSON, CreateJSONFails
  <2>6. TaskHasPayload' /\ OnceOnly'
    BY <1>6, SMTT(30) DEF SaveRequest, CreateJSON, CreateJSONFails
  <2> QED BY <2>2, <2>3, <2>4, <2>5, <2>6
<1>7. CASE CheckAt
  BY <1>7, SMTT(60) DEF CheckAt
<1>8. CASE CreateTask
  BY <1>8, SMTT(60) DEF CreateTask, TaskCreated, TaskRefused, TaskUncertain, Registered, Retain
<1>9. CASE ReadBack
  BY <1>9, SMTT(60) DEF ReadBack, TaskReadings, Retain
<1>10. CASE Recheck
  BY <1>10, SMTT(60) DEF Recheck, Retain
<1>11. CASE ReturnRegistered
  BY <1>11, SMTT(60) DEF ReturnRegistered
<1>12. CASE Discard
  <2>1. dirMade' \in BOOLEAN /\ files' \subseteq FileNames /\ damaged' \subseteq files'
    BY <1>12, UnlinkType DEF Discard
  <2>2. TypeOK'
    BY <1>12, <2>1 DEF Discard, UnlinkOne, RemoveDir
  <2>3. PlaceInv' /\ LockInv' /\ RegistrationInv' /\ ChildInv'
    BY <1>12, SMTT(30) DEF Discard, UnlinkOne, RemoveDir
  <2>4. RemovalInv'
    BY <1>12, SMTT(30) DEF Discard, UnlinkOne, RemoveDir
  <2>5. HistoryInv'
    BY <1>12, SMTT(30) DEF Discard, UnlinkOne, RemoveDir
  <2>6. TaskHasPayload' /\ OnceOnly'
    BY <1>12, SMTT(30) DEF Discard, UnlinkOne, RemoveDir
  <2> QED BY <2>2, <2>3, <2>4, <2>5, <2>6
<1>13. ASSUME NEW e \in Executors, ExtraStart(e) PROVE IndInv'
  BY <1>13, SMTT(60) DEF ExtraStart, StartChild
<1>14. ASSUME NEW e \in Executors, OpenForExecution(e) PROVE IndInv'
  BY <1>14, SMTT(60) DEF OpenForExecution
<1>15. ASSUME NEW e \in Executors, LockForExecution(e) PROVE IndInv'
  BY <1>15, SMTT(60) DEF LockForExecution
<1>16. ASSUME NEW e \in Executors, LoadForExecution(e) PROVE IndInv'
  BY <1>16, SMTT(60) DEF LoadForExecution
<1>17. ASSUME NEW e \in Executors, CheckRecords(e) PROVE IndInv'
  BY <1>17, SMTT(60) DEF CheckRecords
<1>18. ASSUME NEW e \in Executors, MarkStarted(e) PROVE IndInv'
  <2>1. dirMade' \in BOOLEAN /\ files' \subseteq FileNames /\ damaged' \subseteq files'
    BY <1>18, CreateJSONType DEF MarkStarted, FileNames
  <2>2. TypeOK'
    BY <1>18, <2>1 DEF MarkStarted, CreateJSON, CreateJSONFails
  <2>3. PlaceInv' /\ LockInv' /\ RegistrationInv' /\ ChildInv'
    BY <1>18, SMTT(30) DEF MarkStarted, CreateJSON, CreateJSONFails
  <2>4. RemovalInv'
    BY <1>18, SMTT(30) DEF MarkStarted, CreateJSON, CreateJSONFails
  <2>5. HistoryInv'
    BY <1>18, SMTT(30) DEF MarkStarted, CreateJSON, CreateJSONFails
  <2>6. TaskHasPayload' /\ OnceOnly'
    BY <1>18, SMTT(30) DEF MarkStarted, CreateJSON, CreateJSONFails
  <2> QED BY <2>2, <2>3, <2>4, <2>5, <2>6
<1>19. ASSUME NEW e \in Executors, Launch(e) PROVE IndInv'
  <2>1. dirMade' \in BOOLEAN /\ files' \subseteq FileNames /\ damaged' \subseteq files'
    BY <1>19 DEF Launch, FileNames
  <2>2. TypeOK'
    BY <1>19, <2>1 DEF Launch
  <2>3. PlaceInv' /\ LockInv' /\ RegistrationInv' /\ ChildInv'
    BY <1>19, SMTT(30) DEF Launch
  <2>4. RemovalInv'
    BY <1>19, SMTT(30) DEF Launch
  <2>5. HistoryInv'
    BY <1>19, SMTT(30) DEF Launch
  <2>6. TaskHasPayload' /\ OnceOnly'
    BY <1>19, SMTT(30) DEF Launch
  <2> QED BY <2>2, <2>3, <2>4, <2>5, <2>6
<1>20. ASSUME NEW e \in Executors, AgentEnds(e) PROVE IndInv'
  BY <1>20, SMTT(60) DEF AgentEnds
<1>21. ASSUME NEW e \in Executors, RecordResult(e) PROVE IndInv'
  <2>1. dirMade' \in BOOLEAN /\ files' \subseteq FileNames /\ damaged' \subseteq files'
    BY <1>21, CreateJSONType DEF RecordResult, FileNames
  <2>2. TypeOK'
    BY <1>21, <2>1 DEF RecordResult, CreateJSON, CreateJSONFails
  <2>3. PlaceInv' /\ LockInv' /\ RegistrationInv' /\ ChildInv'
    BY <1>21, SMTT(30) DEF RecordResult, CreateJSON, CreateJSONFails
  <2>4. RemovalInv'
    BY <1>21, SMTT(30) DEF RecordResult, CreateJSON, CreateJSONFails
  <2>5. HistoryInv'
    BY <1>21, SMTT(30) DEF RecordResult, CreateJSON, CreateJSONFails
  <2>6. TaskHasPayload' /\ OnceOnly'
    BY <1>21, SMTT(30) DEF RecordResult, CreateJSON, CreateJSONFails
  <2> QED BY <2>2, <2>3, <2>4, <2>5, <2>6
<1>22. ASSUME NEW r \in Removers, LockForRemoval(r) PROVE IndInv'
  BY <1>22, SMTT(60) DEF LockForRemoval, LockFree
<1>23. ASSUME NEW r \in Removers, LoadForRemoval(r) PROVE IndInv'
  BY <1>23, SMTT(60) DEF LoadForRemoval
<1>24. ASSUME NEW r \in Removers, InspectTask(r) PROVE IndInv'
  BY <1>24, SMTT(60) DEF InspectTask, TaskReadings
<1>25. ASSUME NEW r \in Removers, SaveCancellation(r) PROVE IndInv'
  <2>1. dirMade' \in BOOLEAN /\ files' \subseteq FileNames /\ damaged' \subseteq files'
    BY <1>25, CreateJSONType DEF SaveCancellation, FileNames
  <2>2. TypeOK'
    <3>1. pc' \in [Procs -> PCs] /\ holder' \in Procs \cup {NoOne}
      BY <1>25 DEF SaveCancellation
    <3>2. cancelSaved' \in BOOLEAN
      BY <1>25 DEF SaveCancellation
    <3> QED BY <1>25, <2>1, <3>1, <3>2 DEF SaveCancellation
  <2>3. PlaceInv' /\ LockInv' /\ RegistrationInv' /\ ChildInv'
    BY <1>25, SMTT(30) DEF SaveCancellation, CreateJSON, CreateJSONFails
  <2>4. RemovalInv'
    BY <1>25, SMTT(30) DEF SaveCancellation, CreateJSON, CreateJSONFails
  <2>5. HistoryInv'
    BY <1>25, SMTT(30) DEF SaveCancellation, CreateJSON, CreateJSONFails
  <2>6. TaskHasPayload' /\ OnceOnly'
    BY <1>25, SMTT(30) DEF SaveCancellation, CreateJSON, CreateJSONFails
  <2> QED BY <2>2, <2>3, <2>4, <2>5, <2>6
<1>26. ASSUME NEW r \in Removers, DeleteTask(r) PROVE IndInv'
  BY <1>26, SMTT(60) DEF DeleteTask, TaskDeleted, TaskDeletionFailed
<1>27. ASSUME NEW r \in Removers, RemoveAll(r) PROVE IndInv'
  <2>1. dirMade' \in BOOLEAN /\ files' \subseteq FileNames /\ damaged' \subseteq files'
    BY <1>27, UnlinkType DEF RemoveAll
  <2>2. TypeOK'
    BY <1>27, <2>1 DEF RemoveAll, UnlinkOne, RemoveDir, StopRemoving
  <2>3. PlaceInv' /\ LockInv' /\ RegistrationInv' /\ ChildInv'
    BY <1>27, SMTT(30) DEF RemoveAll, UnlinkOne, RemoveDir, StopRemoving
  <2>4. RemovalInv'
    BY <1>27, SMTT(30) DEF RemoveAll, UnlinkOne, RemoveDir, StopRemoving
  <2>5. HistoryInv'
    BY <1>27, SMTT(30) DEF RemoveAll, UnlinkOne, RemoveDir, StopRemoving
  <2>6. TaskHasPayload' /\ OnceOnly'
    BY <1>27, SMTT(30) DEF RemoveAll, UnlinkOne, RemoveDir, StopRemoving
  <2> QED BY <2>2, <2>3, <2>4, <2>5, <2>6
<1>28. ASSUME NEW l \in Listers, List(l) PROVE IndInv'
  BY <1>28, ListStep
<1>29. ASSUME NEW p \in Mortals, Crash(p) PROVE IndInv'
  BY <1>29, SMTT(60) DEF Crash, StopRemoving
<1>30. CASE UNCHANGED vars
  BY <1>30 DEF vars
<1> QED
  BY <1>1, <1>2, <1>3, <1>4, <1>5, <1>6, <1>7, <1>8, <1>9, <1>10, <1>11, <1>12, <1>13, <1>14, <1>15, <1>16, <1>17, <1>18, <1>19, <1>20, <1>21, <1>22, <1>23, <1>24, <1>25, <1>26, <1>27, <1>28, <1>29, <1>30
     DEF Next, Register, Execute, Remove

LEMMA Invariance == Spec => []IndInv
BY InitInv, StepInv, PTL DEF Spec

-----------------------------------------------------------------------------
(* The invariants *)

\* Every variable keeps its type.
THEOREM TypeCorrect == Spec => []TypeOK
<1>1. IndInv => TypeOK
  BY DEF IndInv
<1> QED BY <1>1, Invariance, PTL

\* The agent is launched at most once (persist.go:317-331), by any number of
\* children started by the OS, whoever is killed and wherever the disk fails.
THEOREM LaunchedOnce == Spec => []OnceOnly
<1>1. IndInv => OnceOnly
  BY DEF IndInv
<1> QED BY <1>1, Invariance, PTL

\* An OS task never outlives the request it would execute (persist.go:269-284,
\* 433-436).
THEOREM PayloadKept == Spec => []TaskHasPayload
<1>1. IndInv => TaskHasPayload
  BY DEF IndInv
<1> QED BY <1>1, Invariance, PTL

-----------------------------------------------------------------------------
(* A line of --list *)

Happened == launched # {} \/ cancelSaved

\* A removal that broke off has deleted the task, and registration is over by then.
TornInv == torn => task = "absent" /\ ~Unregistered

\* A list that began after a launch or a cancellation and then saw no start record will see
\* the cancellation, or no task.
LineInv(l) ==
    /\ view[l].before => Happened
    /\ pc[l] \in {"idle", "readStarted", "readResult", "readCancelled", "readTask"} => view[l].os = ""
    /\ view[l].before /\ view[l].status = "reserved" =>
          /\ pc[l] \in {"readResult", "readCancelled"} => "cancelled" \in files \/ task = "absent"
          /\ pc[l] = "readTask" /\ ~view[l].pending => task = "absent"
    /\ view[l].status = "reserved" /\ ~view[l].pending /\ view[l].os = "registered" => ~view[l].before
ListInv == \A l \in Listers : LineInv(l)

LEMMA StopFacts ==
    ASSUME NEW p \in Procs, StopRemoving(p), torn'
    PROVE  torn \/ pc[p] = "removing"
<1>1. torn' = (torn \/ (At(p, "removing") /\ "request" \in files /\ "cancelled" \notin files))
  BY DEF StopRemoving
<1>. QED  BY <1>1 DEF At

\* What has happened cannot be undone, and neither can the deletion of the task; and the
\* cancellation goes only after the task.
LEMMA HistoryStep ==
    ASSUME IndInv, TornInv, [Next]_vars
    PROVE  /\ Happened => Happened'
           /\ Happened /\ task = "absent" => task' = "absent"
           /\ Happened /\ "cancelled" \in files => "cancelled" \in files' \/ task' = "absent"
           /\ TornInv'
<1>. USE ProcsAssumption DEF Happened, TornInv, IndInv, RegistrationInv, Unregistered, RemovalInv, PlaceInv,
         TypeOK, At, Goto, Finish, fileVars, historyVars
<1>1. CASE TimePasses \/ UNCHANGED vars
  BY <1>1 DEF TimePasses, vars
<1>2. CASE Fire
  BY <1>2 DEF Fire, StartChild, Procs
<1>3. CASE Register
  <2>1. CASE MakeDir \/ MakeLockFile \/ LockNewJob \/ CheckAt
    BY <2>1 DEF MakeDir, MakeLockFile, LockNewJob, CheckAt
  <2>2. CASE SaveRequest
    BY <2>2 DEF SaveRequest, CreateJSON, CreateJSONFails
  <2>3. CASE CreateTask
    BY <2>3 DEF CreateTask
  <2>4. CASE ReadBack \/ Recheck \/ ReturnRegistered
    BY <2>4 DEF ReadBack, Recheck, ReturnRegistered, Retain, Procs
  <2>5. CASE Discard
    BY <2>5 DEF Discard, Procs
  <2>. QED  BY <1>3, <2>1, <2>2, <2>3, <2>4, <2>5 DEF Register
<1>4. ASSUME NEW e \in Executors, Execute(e) \/ ExtraStart(e) \/ AgentEnds(e)
      PROVE  /\ Happened => Happened'
             /\ Happened /\ task = "absent" => task' = "absent"
             /\ Happened /\ "cancelled" \in files => "cancelled" \in files' \/ task' = "absent"
             /\ TornInv'
  <2>1. pc'[Registrar] = pc[Registrar] /\ UNCHANGED <<task, torn, cancelSaved>>
    BY <1>4 DEF Execute, OpenForExecution, LockForExecution, LoadForExecution, CheckRecords,
                MarkStarted, Launch, RecordResult, ExtraStart, StartChild, AgentEnds, Procs
  <2>2. launched \subseteq launched' /\ files \subseteq files'
    BY <1>4 DEF Execute, OpenForExecution, LockForExecution, LoadForExecution, CheckRecords,
                MarkStarted, Launch, RecordResult, ExtraStart, StartChild, AgentEnds,
                CreateJSON, CreateJSONFails
  <2>. QED  BY <2>1, <2>2
<1>5. ASSUME NEW r \in Removers, Remove(r)
      PROVE  /\ Happened => Happened'
             /\ Happened /\ task = "absent" => task' = "absent"
             /\ Happened /\ "cancelled" \in files => "cancelled" \in files' \/ task' = "absent"
             /\ TornInv'
  <2>1. pc'[Registrar] = pc[Registrar] /\ UNCHANGED launched
    BY <1>5 DEF Remove, LockForRemoval, LoadForRemoval, InspectTask, SaveCancellation,
                DeleteTask, RemoveAll, Procs
  <2>2. CASE LockForRemoval(r) \/ LoadForRemoval(r) \/ InspectTask(r)
    BY <2>1, <2>2 DEF LockForRemoval, LoadForRemoval, InspectTask
  <2>3. CASE SaveCancellation(r)
    BY <2>1, <2>3 DEF SaveCancellation, CreateJSON, CreateJSONFails
  <2>4. CASE DeleteTask(r)
    BY <2>1, <2>4 DEF DeleteTask, TaskDeleted, TaskDeletionFailed
  <2>5. CASE RemoveAll(r)
    <3>1. task = "absent" /\ UNCHANGED <<task, cancelSaved>>
      BY <2>5 DEF RemoveAll
    <3>2. torn' => ~Unregistered
      <4>1. torn' => torn \/ pc[r] = "removing"
        BY <2>5, StopFacts DEF RemoveAll, Procs
      <4>2. pc[r] = "removing" => ~Unregistered
        BY DEF Ended
      <4>. QED  BY <4>1, <4>2
    <3>. QED  BY <2>1, <3>1, <3>2
  <2>. QED  BY <1>5, <2>2, <2>3, <2>4, <2>5 DEF Remove
<1>6. ASSUME NEW l \in Listers, List(l)
      PROVE  UNCHANGED <<task, files, launched, cancelSaved, torn>> /\ pc'[Registrar] = pc[Registrar]
  BY <1>6 DEF List, ListLoad, ListStarted, ListResult, ListCancelled, ListTask, Looking, Procs
<1>7. ASSUME NEW p \in Mortals, Crash(p)
      PROVE  /\ UNCHANGED <<task, files, launched, cancelSaved>>
             /\ TornInv'
  <2>1. UNCHANGED <<task, files, launched, cancelSaved>>
    BY <1>7 DEF Crash
  <2>2. p \in Procs /\ StopRemoving(p) /\ pc[p] \notin {"idle"} \cup Ended /\ pc' = [pc EXCEPT ![p] = "dead"]
    BY <1>7 DEF Crash
  <2>3. ~Unregistered => ~Unregistered'
    BY <2>2
  <2>4. pc[p] = "removing" => p \in Removers
    BY <2>2 DEF Procs, RegistrarPCs, ExecutorPCs, ListerPCs, Ended
  <2>5. pc[p] = "removing" => task = "absent" /\ ~Unregistered
    BY <2>4 DEF Ended
  <2>6. torn' => torn \/ pc[p] = "removing"
    BY <2>2, StopFacts
  <2>. QED  BY <2>1, <2>3, <2>5, <2>6
<1>. QED  BY <1>1, <1>2, <1>3, <1>4, <1>5, <1>6, <1>7 DEF Next

\* A step that is not the list's own leaves it where it was, or dead.
LEMMA OthersLine ==
    ASSUME IndInv, [Next]_vars, NEW l \in Listers, ~List(l)
    PROVE  view'[l] = view[l] /\ pc'[l] \in {pc[l], "dead"}
<1>. USE ProcsAssumption DEF IndInv, TypeOK, Procs, Goto, Finish, historyVars
<1>1. CASE TimePasses \/ Fire \/ UNCHANGED vars
  BY <1>1 DEF TimePasses, Fire, StartChild, vars
<1>2. CASE Register
  BY <1>2 DEF Register, MakeDir, MakeLockFile, LockNewJob, SaveRequest, CheckAt, CreateTask, ReadBack,
              Recheck, ReturnRegistered, Retain, Discard
<1>3. ASSUME NEW e \in Executors, Execute(e) \/ ExtraStart(e) \/ AgentEnds(e)
      PROVE  view'[l] = view[l] /\ pc'[l] = pc[l]
  BY <1>3 DEF Execute, OpenForExecution, LockForExecution, LoadForExecution, CheckRecords,
              MarkStarted, Launch, RecordResult, ExtraStart, StartChild, AgentEnds
<1>4. ASSUME NEW r \in Removers, Remove(r) PROVE view'[l] = view[l] /\ pc'[l] = pc[l]
  BY <1>4 DEF Remove, LockForRemoval, LoadForRemoval, InspectTask, SaveCancellation, DeleteTask, RemoveAll
<1>5. ASSUME NEW k \in Listers \ {l}, List(k) PROVE view'[l] = view[l] /\ pc'[l] = pc[l]
  BY <1>5 DEF List, ListLoad, ListStarted, ListResult, ListCancelled, ListTask, See
<1>6. ASSUME NEW p \in Mortals, Crash(p) PROVE view'[l] = view[l] /\ pc'[l] \in {pc[l], "dead"}
  BY <1>6 DEF Crash
<1>. QED  BY <1>1, <1>2, <1>3, <1>4, <1>5, <1>6 DEF Next

LEMMA OwnLine ==
    ASSUME IndInv, TornInv, NEW l \in Listers, LineInv(l), List(l)
    PROVE  LineInv(l)'
<1>. USE ProcsAssumption DEF Procs, At, Goto
<1>0. /\ l \in Procs /\ pc \in [Procs -> PCs] /\ view \in [Listers -> View] /\ view[l] \in View
      /\ UNCHANGED <<task, files, damaged, launched, cancelSaved>>
  BY DEF IndInv, TypeOK, List, ListLoad, ListStarted, ListResult, ListCancelled, ListTask, Looking,
         fileVars, historyVars
<1>1. CASE ListLoad(l)
  <2>1. CASE Loadable
    <3>1. pc'[l] = "readStarted"
      BY <1>0, <1>1, <2>1 DEF ListLoad
    <3>2. view'[l] = [BlankView EXCEPT !.before = (launched # {} \/ cancelSaved)]
      BY <1>0, <1>1, <2>1, Zenon DEF ListLoad
    <3>3. view'[l].os = "" /\ view'[l].status = "" /\ (view'[l].before <=> launched # {} \/ cancelSaved)
      BY <3>2 DEF BlankView
    <3>. QED  BY <1>0, <3>1, <3>3 DEF LineInv, Happened
  <2>2. CASE ~Loadable
    BY <1>0, <1>1, <2>2 DEF ListLoad, LineInv, Happened
  <2>. QED  BY <2>1, <2>2
<1>2. CASE ListStarted(l)
  <2>1. /\ pc[l] = "readStarted" /\ pc'[l] = "readResult"
        /\ view'[l].before = view[l].before /\ view'[l].pending = view[l].pending
        /\ view'[l].os = view[l].os /\ (view'[l].status = "reserved" => "started" \notin files)
    BY <1>0, <1>2 DEF ListStarted, See, View
  <2>2. Happened /\ "started" \notin files => "cancelled" \in files \/ task = "absent"
    BY DEF IndInv, HistoryInv, Blocked, Happened, TaskHasPayload, Loadable, RemovalInv, TornInv
  <2>. QED  BY <1>0, <2>1, <2>2 DEF LineInv, Happened
<1>3. CASE ListResult(l)
  <2>1. /\ pc[l] = "readResult" /\ pc'[l] = "readCancelled"
        /\ view'[l].before = view[l].before /\ view'[l].pending = view[l].pending
        /\ view'[l].os = view[l].os /\ (view'[l].status = "reserved" => view[l].status = "reserved")
    BY <1>0, <1>3 DEF ListResult, See, View
  <2>. QED  BY <1>0, <2>1 DEF LineInv, Happened
<1>4. CASE ListCancelled(l)
  <2>1. view' = [view EXCEPT ![l].pending = ("cancelled" \in files)]
    BY <1>4, Zenon DEF ListCancelled, See
  <2>2. /\ view'[l].before = view[l].before /\ view'[l].status = view[l].status
        /\ view'[l].os = view[l].os
    BY <1>0, <2>1 DEF View
  <2>3. view'[l].pending <=> "cancelled" \in files
    <3>1. view'[l] = [view[l] EXCEPT !.pending = ("cancelled" \in files)]
      BY <1>0, <2>1
    <3>2. view'[l].pending = ("cancelled" \in files)
      BY <1>0, <3>1 DEF View
    <3>. QED  BY <3>2
  <2>4. pc[l] = "readCancelled" /\ pc'[l] = "readTask"
    BY <1>0, <1>4 DEF ListCancelled
  <2>. QED  BY <1>0, <2>2, <2>3, <2>4 DEF LineInv, Happened
<1>5. CASE ListTask(l)
  <2>1. /\ pc[l] = "readTask" /\ pc'[l] = "done"
        /\ view'[l].before = view[l].before /\ view'[l].pending = view[l].pending
        /\ view'[l].status = view[l].status /\ (view'[l].os = "registered" => task # "absent")
    <3>1. PICK reading \in TaskReadings : view' = [view EXCEPT ![l].os = reading]
      BY <1>5 DEF ListTask, See
    <3>2. view'[l] = [view[l] EXCEPT !.os = reading]
      BY <1>0, <3>1
    <3>3. view'[l].os = reading /\ (reading = "registered" => task # "absent")
      BY <1>0, <3>2 DEF View, TaskReadings
    <3>4. /\ view'[l].before = view[l].before /\ view'[l].pending = view[l].pending
          /\ view'[l].status = view[l].status
      BY <1>0, <3>2 DEF View
    <3>. QED  BY <1>0, <1>5, <3>3, <3>4 DEF ListTask
  <2>. QED  BY <1>0, <2>1 DEF LineInv, Happened
<1>. QED  BY <1>1, <1>2, <1>3, <1>4, <1>5 DEF List

LEMMA ListStepInv == ASSUME IndInv, TornInv, ListInv, [Next]_vars PROVE ListInv'
<1>. SUFFICES ASSUME NEW l \in Listers PROVE LineInv(l)'
  BY DEF ListInv
<1>1. CASE List(l)
  BY <1>1, OwnLine DEF ListInv
<1>2. CASE ~List(l)
  <2>1. view'[l] = view[l] /\ pc'[l] \in {pc[l], "dead"}
    BY <1>2, OthersLine
  <2>2. LineInv(l)
    BY DEF ListInv
  <2>3. view[l].before => Happened
    BY <2>2 DEF LineInv
  <2>4. Happened => Happened'
    BY HistoryStep
  <2>5. Happened /\ ("cancelled" \in files \/ task = "absent") => "cancelled" \in files' \/ task' = "absent"
    BY HistoryStep
  <2>6. Happened /\ task = "absent" => task' = "absent"
    BY HistoryStep
  <2>. QED  BY <2>1, <2>2, <2>3, <2>4, <2>5, <2>6 DEF LineInv
<1>. QED  BY <1>1, <1>2

\* A line that shows an untouched, registered job shows one that had been neither launched
\* nor cancelled when the list began, however many children and removers run meanwhile and
\* whoever is killed (persist.go:450-476).
THEOREM UntouchedIsTrue == Spec => []UntouchedLineIsTrue
<1>1. Init => TornInv /\ ListInv
  <2>. SUFFICES ASSUME Init PROVE TornInv /\ ListInv
    OBVIOUS
  <2>1. \A l \in Listers : view[l] = BlankView
    BY DEF Init
  <2>2. ListInv
    <3>. SUFFICES ASSUME NEW l \in Listers PROVE LineInv(l)
      BY DEF ListInv
    <3>1. view[l] = BlankView
      BY <2>1
    <3>2. view[l].os = "" /\ view[l].status = ""
      <4>1. BlankView.os = "" /\ BlankView.status = ""
        BY DEF BlankView
      <4>. QED  BY <3>1, <4>1
    <3>3. ~view[l].before
      <4>1. ~BlankView.before
        BY DEF BlankView
      <4>. QED  BY <3>1, <4>1
    <3>. QED  BY <3>2, <3>3 DEF LineInv
  <2>. QED  BY <2>2 DEF Init, TornInv
<1>2. IndInv /\ TornInv /\ ListInv /\ [Next]_vars => (TornInv /\ ListInv)'
  BY HistoryStep, ListStepInv
<1>3. ListInv => UntouchedLineIsTrue
  BY DEF ListInv, LineInv, UntouchedLineIsTrue
<1>. QED  BY <1>1, <1>2, <1>3, Invariance, PTL DEF Spec

-----------------------------------------------------------------------------
(* The action properties *)

\* Nothing but Launch adds to launched.
LEMMA OnlyLaunchLaunches ==
    ASSUME [Next]_vars, launched' # launched
    PROVE  \E e \in Executors : Launch(e)
<1> USE DEF historyVars
<1>1. CASE Register
  BY <1>1 DEF Register, MakeDir, MakeLockFile, LockNewJob, SaveRequest, CheckAt, CreateTask,
              ReadBack, Recheck, ReturnRegistered, Discard
<1>2. ASSUME NEW r \in Removers, Remove(r) PROVE FALSE
  BY <1>2 DEF Remove, LockForRemoval, LoadForRemoval, InspectTask, SaveCancellation,
              DeleteTask, RemoveAll
<1>3. ASSUME NEW l \in Listers, List(l) PROVE FALSE
  BY <1>3 DEF List, ListLoad, ListStarted, ListResult, ListCancelled, ListTask, Looking
<1>4. ASSUME NEW e \in Executors, Execute(e), ~Launch(e) PROVE FALSE
  BY <1>4 DEF Execute, OpenForExecution, LockForExecution, LoadForExecution, CheckRecords,
              MarkStarted, RecordResult
<1>5. ASSUME NEW e \in Executors, ExtraStart(e) \/ AgentEnds(e) PROVE FALSE
  BY <1>5 DEF ExtraStart, StartChild, AgentEnds
<1>6. CASE TimePasses \/ Fire \/ UNCHANGED vars
  BY <1>6 DEF TimePasses, Fire, StartChild, vars
<1>7. ASSUME NEW p \in Mortals, Crash(p) PROVE FALSE
  BY <1>7 DEF Crash
<1> QED BY <1>1, <1>2, <1>3, <1>4, <1>5, <1>6, <1>7 DEF Next

\* A cancellation that a remover has gone past excludes every later launch
\* (persist.go:317, 422-432), however long a child has been waiting.
THEOREM CancelExcludes == Spec => CancelExcludesStart
<1>1. ASSUME IndInv, [Next]_vars
      PROVE  launched' # launched => ~cancelSaved \/ torn
  <2> SUFFICES ASSUME launched' # launched PROVE ~cancelSaved \/ torn
    OBVIOUS
  <2>1. PICK e \in Executors : Launch(e)
    BY <1>1, OnlyLaunchLaunches
  <2>2. pc[e] = "starting"
    BY <2>1 DEF Launch, At
  <2> QED BY <1>1, <2>2 DEF IndInv, ChildInv
<1> QED BY <1>1, Invariance, PTL DEF Spec, CancelExcludesStart

\* While a child executes the job, its directory loses nothing
\* (persist.go:264-266, 305, 404).
THEOREM RunningKept == Spec => RunningJobKept
<1>1. ASSUME IndInv, [Next]_vars, Executing
      PROVE  files \subseteq files' /\ dirMade'
  <2> USE DEF fileVars, historyVars
  <2>1. PICK e \in Executors : pc[e] \in {"starting", "running", "recording"}
    BY <1>1 DEF Executing
  <2>2. dirMade /\ holder = e /\ e \in Procs /\ ~Unregistered
    BY <1>1, <2>1 DEF IndInv, ChildInv, RemovalInv, LockInv, RegistrationInv, Critical, Procs
  <2>3. \A r \in Removers : pc[r] # "removing"
    BY <1>1, <2>2, ProcsAssumption DEF IndInv, LockInv, Critical, Procs
  <2>4. CASE Register
    BY <2>2, <2>4 DEF Unregistered, Register, MakeDir, MakeLockFile, LockNewJob, SaveRequest,
          CheckAt, CreateTask, ReadBack, Recheck, ReturnRegistered, Discard, At,
          CreateJSON, CreateJSONFails
  <2>5. ASSUME NEW d \in Executors, Execute(d) PROVE files \subseteq files' /\ dirMade'
    BY <2>2, <2>5 DEF Execute, OpenForExecution, LockForExecution, LoadForExecution, Launch,
          CheckRecords, MarkStarted, RecordResult, CreateJSON, CreateJSONFails
  <2>6. ASSUME NEW d \in Executors, ExtraStart(d) \/ AgentEnds(d)
        PROVE  files \subseteq files' /\ dirMade'
    BY <2>2, <2>6 DEF ExtraStart, StartChild, AgentEnds
  <2>7. ASSUME NEW r \in Removers, Remove(r) PROVE files \subseteq files' /\ dirMade'
    BY <2>2, <2>3, <2>7 DEF Remove, LockForRemoval, LoadForRemoval, InspectTask, At,
          SaveCancellation, DeleteTask, RemoveAll, CreateJSON, CreateJSONFails
  <2>8. ASSUME NEW l \in Listers, List(l) PROVE files \subseteq files' /\ dirMade'
    BY <2>2, <2>8 DEF List, ListLoad, ListStarted, ListResult, ListCancelled, ListTask, Looking
  <2>9. ASSUME NEW p \in Mortals, Crash(p) PROVE files \subseteq files' /\ dirMade'
    BY <2>2, <2>9 DEF Crash
  <2>10. CASE TimePasses \/ Fire \/ UNCHANGED vars
    BY <2>2, <2>10 DEF TimePasses, Fire, StartChild, vars
  <2> QED BY <1>1, <2>4, <2>5, <2>6, <2>7, <2>8, <2>9, <2>10 DEF Next
<1> QED BY <1>1, Invariance, PTL DEF Spec, RunningJobKept

\* Registration says success only of a task whose trigger is still to come or
\* has already started its child (persist.go:272, 286-289).
THEOREM SuccessArmed == Spec => SuccessMeansArmed
<1>1. ASSUME IndInv, [Next]_vars, report' = "registered", report # "registered"
      PROVE  task = "armed" \/ pc[TimedRun] # "idle"
  <2> USE DEF fileVars, historyVars
  <2>1. CASE ReturnRegistered
    BY <1>1, <2>1 DEF ReturnRegistered, At, IndInv, RegistrationInv
  <2>2. CASE Register /\ ~ReturnRegistered
    BY <1>1, <2>2 DEF Register, MakeDir, MakeLockFile, LockNewJob, SaveRequest, CheckAt,
          CreateTask, ReadBack, Recheck, Retain, Discard
  <2>3. ASSUME NEW e \in Executors, Execute(e) PROVE FALSE
    BY <1>1, <2>3 DEF Execute, OpenForExecution, LockForExecution, LoadForExecution,
          CheckRecords, MarkStarted, Launch, RecordResult
  <2>4. ASSUME NEW e \in Executors, ExtraStart(e) \/ AgentEnds(e) PROVE FALSE
    BY <1>1, <2>4 DEF ExtraStart, StartChild, AgentEnds
  <2>5. ASSUME NEW r \in Removers, Remove(r) PROVE FALSE
    BY <1>1, <2>5 DEF Remove, LockForRemoval, LoadForRemoval, InspectTask, SaveCancellation,
          DeleteTask, RemoveAll
  <2>6. ASSUME NEW l \in Listers, List(l) PROVE FALSE
    BY <1>1, <2>6 DEF List, ListLoad, ListStarted, ListResult, ListCancelled, ListTask, Looking
  <2>7. ASSUME NEW p \in Mortals, Crash(p) PROVE FALSE
    BY <1>1, <2>7 DEF Crash
  <2>8. CASE TimePasses \/ Fire \/ UNCHANGED vars
    BY <1>1, <2>8 DEF TimePasses, Fire, StartChild, vars
  <2> QED BY <1>1, <2>1, <2>2, <2>3, <2>4, <2>5, <2>6, <2>7, <2>8 DEF Next
<1> QED BY <1>1, Invariance, PTL DEF Spec, SuccessMeansArmed

-----------------------------------------------------------------------------
(* The refinement: JobStore implements JobPromise, for any number of        *)
(* children, removers and lists.  Every step of theirs is a step of the    *)
(* job's life, or leaves it alone, until a removal breaks off between the  *)
(* records and the request.  IndInv does not say what register has told    *)
(* the user; PromiseInv adds it.                                           *)

\* Until register returns nothing is said, and nobody has touched its files.
ToldInv ==
    pc[Registrar] \notin Ended =>
        /\ report = "none"
        /\ files \subseteq {"lock", "request"}
        /\ pc[Registrar] \in {"readback", "recheck", "return"} => Loadable

\* A registration that was reported failed has left nothing that could run.
FailedInv == report = "failed" => task = "absent" /\ \A e \in Executors : pc[e] = "idle"

\* Who is about to mark the start has seen no cancellation, and there is none yet.
MarkingInv == \A e \in Executors : pc[e] = "marking" => "cancelled" \notin files

PromiseInv == ToldInv /\ FailedInv /\ MarkingInv

LEMMA PromiseInit == Init => PromiseInv
BY ProcsAssumption DEF Init, PromiseInv, ToldInv, FailedInv, MarkingInv, Procs

\* Only register, a child and a remover change files, and a child and a remover only
\* with the lock in their hands.
LEMMA Untouched ==
    ASSUME IndInv, pc[Registrar] \notin Ended,
           \/ \E e \in Executors : Execute(e)
           \/ \E r \in Removers : Remove(r)
    PROVE  UNCHANGED fileVars
<1>. USE ProcsAssumption DEF IndInv, RegistrationInv, Unregistered, LockInv, Critical, PlaceInv, RegistrarPCs, Ended,
         Procs, At, fileVars
<1>1. ASSUME NEW e \in Executors, Execute(e) PROVE UNCHANGED fileVars
  <2>1. pc[e] \notin {"marking", "starting", "recording"}
    OBVIOUS
  <2>. QED  BY <1>1, <2>1 DEF Execute, OpenForExecution, LockForExecution, LoadForExecution, CheckRecords,
                          MarkStarted, Launch, RecordResult
<1>2. ASSUME NEW r \in Removers, Remove(r) PROVE UNCHANGED fileVars
  <2>1. pc[r] \notin {"cancelling", "removing"}
    OBVIOUS
  <2>. QED  BY <1>2, <2>1 DEF Remove, LockForRemoval, LoadForRemoval, InspectTask, SaveCancellation,
                          DeleteTask, RemoveAll
<1>. QED  BY <1>1, <1>2

LEMMA PromiseStep ==
    ASSUME IndInv, PromiseInv, [Next]_vars
    PROVE  PromiseInv'
<1>. USE ProcsAssumption DEF IndInv, TypeOK, PromiseInv, ToldInv, FailedInv, MarkingInv, Ended, Procs,
         At, Goto, Finish, fileVars, historyVars
<1>1. CASE TimePasses \/ UNCHANGED vars
  BY <1>1 DEF TimePasses, vars, Loadable
<1>2. CASE Fire \/ \E e \in Executors : ExtraStart(e)
  BY <1>2 DEF Fire, ExtraStart, StartChild, Loadable
<1>3. CASE Register
  <2>. USE DEF RegistrationInv, Unregistered
  <2>1. CASE MakeDir \/ MakeLockFile \/ LockNewJob \/ CheckAt
    BY <2>1 DEF MakeDir, MakeLockFile, LockNewJob, LockFree, Take, CheckAt
  <2>2. CASE SaveRequest
    BY <2>2 DEF SaveRequest, CreateJSON, CreateJSONFails
  <2>3. CASE CreateTask
    BY <2>3 DEF CreateTask, TaskCreated, TaskRefused, TaskUncertain, Registered, Retain, Loadable
  <2>4. CASE ReadBack \/ Recheck \/ ReturnRegistered
    BY <2>4 DEF ReadBack, Recheck, ReturnRegistered, Retain, Loadable
  <2>5. CASE Discard
    BY <2>5 DEF Discard, UnlinkOne, RemoveDir
  <2>. QED  BY <1>3, <2>1, <2>2, <2>3, <2>4, <2>5 DEF Register
<1>4. ASSUME NEW e \in Executors, Execute(e) \/ AgentEnds(e) PROVE PromiseInv'
  <2>1. pc[Registrar] = pc'[Registrar] /\ UNCHANGED <<report, task>> /\ pc[e] # "idle"
    BY <1>4 DEF Execute, OpenForExecution, LockForExecution, LoadForExecution, CheckRecords,
                MarkStarted, Launch, RecordResult, AgentEnds
  <2>2. ToldInv'
    BY <1>4, <2>1, Untouched DEF Loadable, AgentEnds
  <2>3. FailedInv'
    BY <2>1
  <2>4. MarkingInv'
    BY <1>4 DEF Execute, OpenForExecution, LockForExecution, LoadForExecution, CheckRecords,
                MarkStarted, Launch, RecordResult, AgentEnds, CreateJSON, CreateJSONFails
  <2>. QED  BY <2>2, <2>3, <2>4
<1>5. ASSUME NEW r \in Removers, Remove(r) PROVE PromiseInv'
  <2>1. /\ \A p \in {Registrar} \cup Executors : pc'[p] = pc[p]
        /\ UNCHANGED report
        /\ task = "absent" => task' = "absent"
    BY <1>5 DEF Remove, LockForRemoval, LoadForRemoval, InspectTask, SaveCancellation, DeleteTask,
                TaskDeleted, TaskDeletionFailed, RemoveAll
  <2>2. ToldInv'
    BY <1>5, <2>1, Untouched DEF Loadable
  <2>3. FailedInv'
    BY <2>1
  <2>4. MarkingInv'
    <3>1. CASE SaveCancellation(r)
      BY <3>1, <2>1 DEF SaveCancellation, LockInv, Critical
    <3>2. CASE ~SaveCancellation(r)
      BY <1>5, <2>1, <3>2 DEF Remove, LockForRemoval, LoadForRemoval, InspectTask, DeleteTask, RemoveAll,
                              UnlinkOne, RemoveDir
    <3>. QED  BY <3>1, <3>2
  <2>. QED  BY <2>2, <2>3, <2>4
<1>6. ASSUME NEW l \in Listers, List(l) PROVE PromiseInv'
  <2>1. \A p \in {Registrar} \cup Executors : pc'[p] = pc[p]
    BY <1>6 DEF List, ListLoad, ListStarted, ListResult, ListCancelled, ListTask
  <2>2. Looking(l)
    BY <1>6 DEF List, ListLoad, ListStarted, ListResult, ListCancelled, ListTask
  <2>. QED  BY <2>1, <2>2 DEF Looking, Loadable
<1>7. ASSUME NEW p \in Mortals, Crash(p) PROVE PromiseInv'
  BY <1>7 DEF Crash, Loadable
<1>. QED  BY <1>1, <1>2, <1>3, <1>4, <1>5, <1>6, <1>7 DEF Next

LEMMA PromiseInvariance == Spec => [](IndInv /\ PromiseInv)
BY InitInv, StepInv, PromiseInit, PromiseStep, PTL DEF Spec

-----------------------------------------------------------------------------
(* The job's life *)

Moves == {"removing", "starting", "running"}
Fresh == pc[Registrar] \in {"idle", "mklock", "locking", "saving"}

\* A step that moves one process between places where nothing shows, and leaves the
\* files alone, leaves the job's life alone.
LEMMA QuietStep ==
    ASSUME TypeOK, NEW p \in Procs, NEW q, pc' = [pc EXCEPT ![p] = q], {pc[p], q} \cap Moves = {},
           UNCHANGED <<files, damaged>>, Loadable \/ (Fresh <=> Fresh')
    PROVE  life' = life
<1>. USE ProcsAssumption DEF TypeOK, Procs, Moves
<1>1. Some(Removers, "removing")' <=> Some(Removers, "removing")
  BY DEF Some
<1>2. /\ Some(Executors, "starting")' <=> Some(Executors, "starting")
      /\ Some(Executors, "running")' <=> Some(Executors, "running")
  BY DEF Some
<1>3. Loadable' <=> Loadable
  BY DEF Loadable
<1>. QED  BY <1>1, <1>2, <1>3 DEF life, Fresh

\* While register runs the job is new, reserved or gone, and its step tells the user only
\* what is so.
Early == IF Loadable THEN "reserved" ELSE IF Fresh THEN "new" ELSE "removed"

LEMMA RegisterStep ==
    ASSUME IndInv, PromiseInv, Register
    PROVE  Promise!Next \/ UNCHANGED <<life, report>>
<1>. USE ProcsAssumption DEF IndInv, TypeOK, PromiseInv, ToldInv, RegistrationInv, Unregistered, Procs, Ended,
         At, Goto, Finish, fileVars, historyVars
<1>1. pc[Registrar] \in RegistrarPCs \ Ended
  BY DEF Register, MakeDir, MakeLockFile, LockNewJob, SaveRequest, CheckAt, CreateTask, ReadBack, Recheck,
         ReturnRegistered, Discard, RegistrarPCs
<1>2. ~Some(Removers, "removing") /\ ~Some(Executors, "starting") /\ ~Some(Executors, "running")
  BY <1>1 DEF Some, LockInv, Critical, RegistrarPCs
<1>3. pc' \in [Procs -> PCs] /\ \A p \in Procs \ {Registrar} : pc'[p] = pc[p]
  <2>1. \E q \in RegistrarPCs : pc' = [pc EXCEPT ![Registrar] = q] \/ pc' = pc
    BY DEF Register, MakeDir, MakeLockFile, LockNewJob, SaveRequest, CheckAt, CreateTask, ReadBack, Recheck,
           ReturnRegistered, Retain, Discard, RegistrarPCs
  <2>. QED  BY <2>1 DEF PCs
<1>4. ~Some(Removers, "removing")' /\ ~Some(Executors, "starting")' /\ ~Some(Executors, "running")'
  BY <1>2, <1>3 DEF Some
<1>5. files \subseteq {"lock", "request"} /\ report = "none"
  BY <1>1
<1>6. files' \subseteq {"lock", "request"}
  <2>1. \/ UNCHANGED files \/ files' = {"lock"} \/ files' = files \cup {"request"}
        \/ UnlinkOne \/ RemoveDir
    BY DEF Register, MakeDir, MakeLockFile, LockNewJob, SaveRequest, CreateJSON, CreateJSONFails, CheckAt,
           CreateTask, ReadBack, Recheck, ReturnRegistered, Discard
  <2>. QED  BY <1>5, <2>1 DEF UnlinkOne, RemoveDir
<1>7. life = Early
  BY <1>2, <1>5 DEF life, Early, Fresh
<1>8. life' = Early'
  BY <1>4, <1>6 DEF life, Early, Fresh
<1>9. CASE MakeDir \/ MakeLockFile \/ LockNewJob
  <2>1. ~Loadable /\ ~Loadable' /\ life = "new"
    BY <1>7, <1>9 DEF MakeDir, MakeLockFile, LockNewJob, Loadable, Early, Fresh
  <2>2. \/ life' = "new" /\ report' = report
        \/ life' = "removed" /\ report' \in {report, "failed"}
    BY <1>8, <1>9, <2>1 DEF MakeDir, MakeLockFile, LockNewJob, Early, Fresh
  <2>. QED  BY <1>5, <2>1, <2>2 DEF Promise!Next, Promise!Discard, Promise!Refuse, Promise!Advance
<1>10. CASE SaveRequest
  <2>1. life = "new" /\ report' = report
    BY <1>7, <1>10 DEF SaveRequest, Loadable, Early, Fresh
  <2>2. life' \in {"reserved", "removed"}
    BY <1>3, <1>8, <1>10 DEF SaveRequest, Early, Fresh
  <2>. QED  BY <1>5, <2>1, <2>2 DEF Promise!Next, Promise!Discard, Promise!Reserve, Promise!Advance
<1>11. CASE CheckAt \/ CreateTask \/ ReadBack \/ Recheck \/ ReturnRegistered
  <2>1. Loadable /\ Loadable'
    BY <1>11 DEF CheckAt, CreateTask, ReadBack, Recheck, ReturnRegistered, Retain, Loadable
  <2>2. life = "reserved" /\ life' = "reserved"
    BY <1>7, <1>8, <2>1 DEF Early
  <2>3. report' \in {report, "retained", "registered"}
    BY <1>11 DEF CheckAt, CreateTask, ReadBack, Recheck, ReturnRegistered, Retain
  <2>. QED  BY <1>5, <2>2, <2>3 DEF Promise!Next, Promise!Confirm
<1>12. CASE Discard
  <2>1. life \in {"reserved", "removed"}
    BY <1>7, <1>12 DEF Discard, Early, Fresh
  <2>2. CASE UnlinkOne /\ UNCHANGED <<pc, holder, report>>
    <3>1. life' \in {"reserved", "removed"} /\ (life = "removed" => life' = "removed")
      BY <1>7, <1>8, <1>12, <2>2 DEF Discard, UnlinkOne, Early, Fresh, Loadable
    <3>. QED  BY <1>5, <2>1, <2>2, <3>1 DEF Promise!Next, Promise!Discard, Promise!Advance
  <2>3. CASE RemoveDir \/ UNCHANGED fileVars
    <3>1. Loadable' <=> Loadable
      BY <2>3 DEF RemoveDir, Loadable
    <3>2. ~Fresh /\ ~Fresh'
      BY <1>3, <1>12 DEF Discard, Fresh
    <3>3. life' = life
      BY <1>7, <1>8, <3>1, <3>2 DEF Early
    <3>4. report' \in {report, "failed"}
      BY <1>12 DEF Discard
    <3>. QED  BY <1>5, <2>1, <3>3, <3>4 DEF Promise!Next, Promise!Refuse
  <2>. QED  BY <1>12, <2>2, <2>3 DEF Discard
<1>. QED  BY <1>9, <1>10, <1>11, <1>12 DEF Register

\* A child's step is hidden, or it claims, launches, ends or gives up the run; nobody else
\* is launching or removing meanwhile.
LEMMA ExecuteStep ==
    ASSUME IndInv, PromiseInv, NEW e \in Executors, Execute(e) \/ AgentEnds(e)
    PROVE  Promise!Next \/ UNCHANGED <<life, report>>
<1>. USE ProcsAssumption DEF IndInv, TypeOK, PromiseInv, Procs, At, Goto, Finish, fileVars, historyVars
<1>1. UNCHANGED report /\ ~Fresh /\ pc'[Registrar] = pc[Registrar]
  <2>1. pc[e] # "idle"
    BY DEF Execute, OpenForExecution, LockForExecution, LoadForExecution, CheckRecords, MarkStarted, Launch,
           RecordResult, AgentEnds
  <2>2. ~Fresh
    BY <2>1 DEF RegistrationInv, Unregistered, Fresh
  <2>3. UNCHANGED report /\ pc'[Registrar] = pc[Registrar]
    BY DEF Execute, OpenForExecution, LockForExecution, LoadForExecution, CheckRecords, MarkStarted, Launch,
           RecordResult, AgentEnds
  <2>. QED  BY <2>2, <2>3
<1>2. ~Fresh'
  BY <1>1 DEF Fresh
<1>3. CASE OpenForExecution(e) \/ LockForExecution(e) \/ LoadForExecution(e) \/ CheckRecords(e)
  <2>1. /\ \E q \in {"done", "waiting", "loading", "checking", "marking"} : pc' = [pc EXCEPT ![e] = q]
        /\ pc[e] \in {"opening", "waiting", "loading", "checking"}
        /\ UNCHANGED <<files, damaged>>
    BY <1>3 DEF OpenForExecution, LockForExecution, LoadForExecution, CheckRecords
  <2>2. PICK q : pc' = [pc EXCEPT ![e] = q] /\ q \notin Moves
    BY <2>1 DEF Moves
  <2>3. {pc[e], q} \cap Moves = {} /\ UNCHANGED <<files, damaged>> /\ (Fresh <=> Fresh')
    BY <1>1, <1>2, <2>1, <2>2 DEF Moves
  <2>4. TypeOK /\ e \in Procs
    OBVIOUS
  <2>5. life' = life
    BY <2>2, <2>3, <2>4, QuietStep
  <2>. QED  BY <1>1, <2>5
<1>4. ASSUME pc[e] \in {"marking", "starting", "running", "recording"}
      PROVE  /\ ~Some(Removers, "removing") /\ ~Some(Removers, "removing")'
             /\ \A d \in Executors \ {e} : pc[d] \notin {"starting", "running"} /\ pc'[d] = pc[d]
  <2>1. \A p \in Procs \ {e} : pc[p] \notin Critical
    BY <1>4 DEF LockInv, Critical
  <2>2. \A p \in Procs \ {e} : pc'[p] = pc[p]
    BY DEF Execute, OpenForExecution, LockForExecution, LoadForExecution, CheckRecords, MarkStarted, Launch,
           RecordResult, AgentEnds
  <2>. QED  BY <2>1, <2>2 DEF Some, Critical
<1>5. CASE MarkStarted(e)
  <2>1. pc[e] = "marking" /\ "cancelled" \notin files
    BY <1>5 DEF MarkStarted, MarkingInv
  <2>2. ~Some(Executors, "starting") /\ ~Some(Executors, "running")
    BY <1>4, <2>1 DEF Some
  <2>3. report # "failed"
    BY <2>1 DEF FailedInv
  <2>4. /\ files' \in {files, files \cup {"started"}}
        /\ Loadable' <=> Loadable
    BY <1>5 DEF MarkStarted, CreateJSON, CreateJSONFails, Loadable
  <2>5. CASE ~Loadable
    BY <1>1, <1>2, <2>4, <2>5 DEF life, Fresh
  <2>6. CASE Loadable /\ CreateJSON("started") /\ Goto(e, "starting")
    <3>1. life = "reserved"
      BY <1>4, <2>1, <2>2, <2>6 DEF life, CreateJSON
    <3>2. Some(Executors, "starting")'
      BY <2>6 DEF Some
    <3>3. life' = "claimed"
      BY <1>4, <2>1, <2>4, <2>6, <3>2 DEF life
    <3>. QED  BY <1>1, <2>3, <3>1, <3>3 DEF Promise!Next, Promise!Claim, Promise!Advance
  <2>7. CASE Loadable /\ Goto(e, "done")
    <3>1. ~Some(Executors, "starting")' /\ ~Some(Executors, "running")'
      BY <1>4, <2>1, <2>7 DEF Some
    <3>2. life = IF "started" \in files THEN "ended" ELSE "reserved"
      BY <1>4, <2>1, <2>2, <2>7 DEF life
    <3>3. life' = IF "started" \in files' THEN "ended" ELSE "reserved"
      BY <1>4, <2>1, <2>4, <2>7, <3>1 DEF life
    <3>. QED  BY <1>1, <2>4, <3>2, <3>3 DEF Promise!Next, Promise!Forfeit, Promise!Advance
  <2>. QED  BY <1>5, <2>5, <2>6, <2>7 DEF MarkStarted
<1>6. CASE Launch(e)
  <2>1. pc[e] = "starting" /\ pc'[e] \in {"running", "recording"} /\ "started" \in files
    BY <1>6 DEF Launch, ChildInv
  <2>2. /\ files \subseteq files'
        /\ "cancelled" \in files' => "cancelled" \in files
        /\ Loadable' <=> Loadable
    BY <1>6 DEF Launch, Loadable
  <2>3. CASE ~Loadable \/ "cancelled" \in files
    BY <1>1, <1>2, <2>2, <2>3 DEF life, Fresh
  <2>4. CASE Loadable /\ "cancelled" \notin files
    <3>1. life = "claimed"
      BY <1>4, <2>1, <2>4 DEF life, Some
    <3>2. life' = IF pc'[e] = "running" THEN "running" ELSE "ended"
      BY <1>4, <2>1, <2>2, <2>4 DEF life, Some
    <3>. QED  BY <1>1, <2>1, <3>1, <3>2
                 DEF Promise!Next, Promise!Launch, Promise!Forfeit, Promise!Advance
  <2>. QED  BY <2>3, <2>4
<1>7. CASE AgentEnds(e)
  <2>1. pc[e] = "running" /\ pc'[e] = "recording" /\ "started" \in files /\ UNCHANGED <<files, damaged>>
    BY <1>7 DEF AgentEnds, ChildInv
  <2>2. CASE ~Loadable \/ "cancelled" \in files
    BY <1>1, <1>2, <2>1, <2>2 DEF life, Fresh, Loadable
  <2>3. CASE Loadable /\ "cancelled" \notin files
    <3>1. life = "running"
      BY <1>4, <2>1, <2>3 DEF life, Some
    <3>2. life' = "ended"
      BY <1>4, <2>1, <2>3 DEF life, Some, Loadable
    <3>. QED  BY <1>1, <3>1, <3>2 DEF Promise!Next, Promise!End, Promise!Advance
  <2>. QED  BY <2>2, <2>3
<1>8. CASE RecordResult(e)
  <2>1. pc[e] = "recording" /\ pc'[e] = "done" /\ files' \in {files, files \cup {"result"}}
        /\ (Loadable' <=> Loadable)
    BY <1>8 DEF RecordResult, CreateJSON, CreateJSONFails, Loadable
  <2>2. \A label \in {"starting", "running"} : Some(Executors, label)' <=> Some(Executors, label)
    BY <1>4, <2>1 DEF Some
  <2>3. life' = life
    BY <1>1, <1>2, <1>4, <2>1, <2>2 DEF life, Fresh
  <2>. QED  BY <1>1, <2>3
<1>. QED  BY <1>3, <1>5, <1>6, <1>7, <1>8 DEF Execute

\* A remover's step is hidden, or it cancels the job or removes a cancelled one.
LEMMA RemoveStep ==
    ASSUME IndInv, PromiseInv, NEW r \in Removers, Remove(r), ~torn'
    PROVE  Promise!Next \/ UNCHANGED <<life, report>>
<1>. USE ProcsAssumption DEF IndInv, TypeOK, PromiseInv, Procs, At, Goto, Finish, fileVars, historyVars
<1>1. UNCHANGED report /\ pc'[Registrar] = pc[Registrar] /\ (Fresh <=> Fresh')
  BY DEF Remove, LockForRemoval, LoadForRemoval, InspectTask, SaveCancellation, DeleteTask, RemoveAll, Fresh
<1>2. CASE LockForRemoval(r) \/ LoadForRemoval(r) \/ InspectTask(r)
  <2>1. /\ \E q \in {"done", "loading", "inspecting", "cancelling"} : pc' = [pc EXCEPT ![r] = q]
        /\ pc[r] \in {"idle", "loading", "inspecting"}
        /\ UNCHANGED <<files, damaged>>
    BY <1>2 DEF LockForRemoval, LoadForRemoval, InspectTask
  <2>2. PICK q : pc' = [pc EXCEPT ![r] = q] /\ q \notin Moves
    BY <2>1 DEF Moves
  <2>3. {pc[r], q} \cap Moves = {}
    BY <2>1, <2>2 DEF Moves
  <2>4. TypeOK /\ r \in Procs
    OBVIOUS
  <2>5. life' = life
    BY <1>1, <2>1, <2>2, <2>3, <2>4, QuietStep
  <2>. QED  BY <1>1, <2>5
<1>3. ASSUME pc[r] \in {"cancelling", "deleting", "removing"}
      PROVE  /\ ~Fresh /\ ~Fresh'
             /\ \A label \in {"starting", "running"} : ~Some(Executors, label) /\ ~Some(Executors, label)'
             /\ \A d \in Removers \ {r} : pc[d] # "removing" /\ pc'[d] # "removing"
  <2>1. \A p \in Procs \ {r} : pc[p] \notin Critical
    BY <1>3 DEF LockInv, Critical
  <2>2. \A p \in Procs \ {r} : pc'[p] = pc[p]
    BY DEF Remove, LockForRemoval, LoadForRemoval, InspectTask, SaveCancellation, DeleteTask, RemoveAll
  <2>3. ~Fresh
    BY <1>3 DEF Fresh, RegistrationInv, Unregistered, Ended
  <2>. QED  BY <1>1, <2>1, <2>2, <2>3 DEF Some, Critical
<1>4. CASE SaveCancellation(r)
  <2>1. /\ pc[r] = "cancelling" /\ pc'[r] \in {"deleting", "done"}
        /\ files' \in {files, files \cup {"cancelled"}}
        /\ Loadable' <=> Loadable
    BY <1>4 DEF SaveCancellation, CreateJSON, CreateJSONFails, Loadable
  <2>2. ~Some(Removers, "removing") /\ ~Some(Removers, "removing")'
    BY <1>3, <2>1 DEF Some
  <2>3. life = IF ~Loadable THEN "removed" ELSE IF "cancelled" \in files THEN "cancelled"
               ELSE IF "started" \in files THEN "ended" ELSE "reserved"
    BY <1>3, <2>1, <2>2 DEF life, Fresh
  <2>4. life' = IF ~Loadable THEN "removed" ELSE IF "cancelled" \in files' THEN "cancelled"
                ELSE IF "started" \in files' THEN "ended" ELSE "reserved"
    BY <1>3, <2>1, <2>2 DEF life, Fresh
  <2>. QED  BY <1>1, <2>1, <2>3, <2>4 DEF Promise!Next, Promise!Cancel, Promise!Advance
<1>5. CASE DeleteTask(r)
  <2>1. pc[r] = "deleting" /\ "cancelled" \in files /\ UNCHANGED <<files, damaged>>
    BY <1>5 DEF DeleteTask, RemovalInv
  <2>2. life' = life
    BY <1>3, <2>1 DEF life, Fresh, Loadable
  <2>. QED  BY <1>1, <2>2
<1>6. CASE RemoveAll(r)
  <2>1. pc[r] = "removing" /\ Some(Removers, "removing")
    BY <1>6 DEF RemoveAll, Some
  <2>2. life = IF Loadable /\ "cancelled" \in files THEN "cancelled" ELSE "removed"
    BY <1>3, <2>1 DEF life, Fresh
  <2>3. CASE UnlinkOne /\ UNCHANGED <<pc, holder, torn>>
    <3>1. Some(Removers, "removing")'
      BY <2>1, <2>3 DEF Some
    <3>2. life' = IF Loadable' /\ "cancelled" \in files' THEN "cancelled" ELSE "removed"
      BY <1>3, <2>1, <3>1 DEF life, Fresh
    <3>3. files' \subseteq files /\ (Loadable' => Loadable)
      BY <2>3 DEF UnlinkOne, Loadable
    <3>. QED  BY <1>1, <2>2, <3>2, <3>3 DEF Promise!Next, Promise!Remove, Promise!Advance
  <2>4. CASE RemoveDir /\ Finish(r) /\ UNCHANGED torn
    <3>1. ~Loadable /\ ~Loadable'
      BY <2>4 DEF RemoveDir, Loadable
    <3>. QED  BY <1>1, <1>3, <2>1, <3>1 DEF life, Fresh
  <2>5. CASE UNCHANGED fileVars /\ Finish(r) /\ StopRemoving(r)
    <3>1. "request" \notin files \/ "cancelled" \in files
      BY <2>1, <2>5 DEF StopRemoving
    <3>2. life' = IF Loadable THEN "cancelled" ELSE "removed"
      BY <1>3, <2>1, <2>5, <3>1 DEF life, Fresh, Loadable
    <3>3. life = IF Loadable THEN "cancelled" ELSE "removed"
      BY <2>2, <3>1 DEF Loadable
    <3>. QED  BY <1>1, <3>2, <3>3
  <2>. QED  BY <1>6, <2>3, <2>4, <2>5 DEF RemoveAll
<1>. QED  BY <1>2, <1>4, <1>5, <1>6 DEF Remove

\* A killed registration discards the job or leaves it reserved; a killed child ends the run.
LEMMA CrashStep ==
    ASSUME IndInv, PromiseInv, NEW p \in Procs, Crash(p), ~torn'
    PROVE  Promise!Next \/ UNCHANGED <<life, report>>
<1>. USE ProcsAssumption DEF IndInv, TypeOK, PromiseInv, At, fileVars
<1>1. /\ pc' = [pc EXCEPT ![p] = "dead"] /\ pc[p] \notin {"idle", "done", "dead"}
      /\ UNCHANGED <<files, damaged, report>>
  BY DEF Crash, Ended
<1>2. Loadable' <=> Loadable
  BY <1>1 DEF Loadable
<1>3. CASE p = Registrar
  <2>1. report = "none"
    BY <1>1, <1>3 DEF ToldInv, Ended
  <2>2. ~Fresh' /\ pc'[Registrar] = "dead"
    BY <1>1, <1>3 DEF Fresh
  <2>3. \A label \in Moves : \A P \in {Executors, Removers} : Some(P, label)' <=> Some(P, label)
    BY <1>1, <1>3 DEF Some, Procs
  <2>4. CASE Loadable
    BY <1>1, <1>2, <2>3, <2>4 DEF life, Moves
  <2>5. CASE ~Loadable
    <3>1. life \in {"new", "removed"} /\ life' = "removed"
      BY <1>2, <2>2, <2>5 DEF life, Fresh
    <3>. QED  BY <1>1, <2>1, <3>1 DEF Promise!Next, Promise!Discard, Promise!Advance
  <2>. QED  BY <2>4, <2>5
<1>4. CASE p # Registrar /\ pc[p] \notin Moves
  <2>1. Fresh <=> Fresh'
    BY <1>1, <1>4 DEF Fresh, Procs
  <2>2. {pc[p], "dead"} \cap Moves = {}
    BY <1>4 DEF Moves
  <2>3. life' = life
    BY <1>1, <2>1, <2>2, QuietStep
  <2>. QED  BY <1>1, <2>3
<1>5. CASE p # Registrar /\ pc[p] \in Moves
  <2>1. \A q \in Procs \ {p} : pc[q] \notin Moves /\ pc'[q] = pc[q]
    BY <1>1, <1>5 DEF LockInv, Critical, Moves
  <2>2. ~Fresh /\ ~Fresh'
    BY <1>1, <1>5 DEF Fresh, RegistrationInv, Unregistered, PlaceInv, ListerPCs, Moves, Procs, Ended
  <2>3. \A label \in Moves : ~Some(Executors, label)' /\ ~Some(Removers, label)'
    BY <1>1, <2>1 DEF Some, Procs, Moves
  <2>4. CASE ~Loadable \/ "cancelled" \in files
    BY <1>1, <1>2, <2>2, <2>4 DEF life, Fresh
  <2>5. CASE Loadable /\ "cancelled" \notin files
    <3>1. pc[p] # "removing"
      BY <1>1, <2>5 DEF Crash, StopRemoving, Loadable
    <3>2. p \in Executors /\ "started" \in files /\ ~Some(Removers, "removing")
      BY <1>5, <2>1, <3>1 DEF PlaceInv, RemoverPCs, ListerPCs, Ended, Moves, Procs, ChildInv, Some
    <3>3. life = IF pc[p] = "starting" THEN "claimed" ELSE "running"
      BY <1>5, <2>1, <2>5, <3>1, <3>2 DEF life, Some, Moves, Procs
    <3>4. life' = "ended"
      BY <1>1, <1>2, <2>3, <2>5, <3>2 DEF life, Moves
    <3>. QED  BY <1>1, <3>3, <3>4 DEF Promise!Next, Promise!End, Promise!Forfeit, Promise!Advance
  <2>. QED  BY <2>4, <2>5
<1>. QED  BY <1>3, <1>4, <1>5

\* JobStore implements JobPromise, unless a removal breaks off between the records and
\* the request (persist.go:240-437): whoever is killed and however the steps of the
\* registration, its children, removals and lists interleave, the job runs at most once,
\* never after a cancellation or a failure that was reported, and success is said only of
\* a job that is reserved.
THEOREM PromiseIsKept == Spec => KeepsPromise
<1>1. Init => Promise!Init
  BY DEF Init, Promise!Init, life, Loadable, Procs
<1>2. IndInv /\ PromiseInv /\ [Next]_vars => [Promise!Next \/ torn']_<<life, report>>
  <2>. SUFFICES ASSUME IndInv, PromiseInv, [Next]_vars, ~torn'
                PROVE  Promise!Next \/ UNCHANGED <<life, report>>
    OBVIOUS
  <2>1. CASE TimePasses \/ UNCHANGED vars
    BY <2>1 DEF TimePasses, vars, fileVars, life, Loadable, Some
  <2>2. CASE Fire \/ \E e \in Executors : ExtraStart(e)
    <3>1. PICK e \in Executors : StartChild(e)
      BY <2>2, ProcsAssumption DEF Fire, ExtraStart
    <3>2. /\ pc' = [pc EXCEPT ![e] = "opening"] /\ {pc[e], "opening"} \cap Moves = {}
          /\ UNCHANGED <<files, damaged, report>> /\ e \in Procs
      BY <3>1 DEF StartChild, At, Goto, Moves, fileVars, Procs
    <3>3. TypeOK /\ (Fresh <=> Fresh')
      BY <3>2, ProcsAssumption DEF IndInv, TypeOK, Fresh
    <3>. QED  BY <3>2, <3>3, QuietStep
  <2>3. CASE \E l \in Listers : List(l)
    <3>1. PICK l \in Listers : List(l)
      BY <2>3
    <3>2. PICK q \in ListerPCs : pc' = [pc EXCEPT ![l] = q]
      BY <3>1 DEF List, ListLoad, ListStarted, ListResult, ListCancelled, ListTask, Goto, ListerPCs, Ended
    <3>3. UNCHANGED <<files, damaged, report>> /\ l \in Procs /\ l # Registrar
      BY <3>1, ProcsAssumption DEF List, ListLoad, ListStarted, ListResult, ListCancelled, ListTask,
                                   Looking, fileVars, Procs
    <3>4. {pc[l], q} \cap Moves = {}
      BY <3>2 DEF IndInv, PlaceInv, ListerPCs, Ended, Moves
    <3>5. TypeOK /\ (Fresh <=> Fresh')
      BY <3>2, <3>3, ProcsAssumption DEF IndInv, TypeOK, Fresh, Procs
    <3>. QED  BY <3>2, <3>3, <3>4, <3>5, QuietStep
  <2>4. CASE \E p \in Mortals : Crash(p)
    BY <2>4, CrashStep, ProcsAssumption
  <2>. QED  BY <2>1, <2>2, <2>3, <2>4, RegisterStep, ExecuteStep, RemoveStep DEF Next
<1>. QED  BY <1>1, <1>2, PromiseInvariance, PTL DEF KeepsPromise, Spec

-----------------------------------------------------------------------------
(* Removals that break off, and what the code keeps when none does *)

\* A removal breaks off only after the OS task is gone: however it left the files, the OS
\* starts no further child, and only children started before it can still launch
\* (persist.go:432-436).
THEOREM NoStartAfterTear ==
    Spec => [][torn => \A e \in Executors : pc[e] = "idle" => pc'[e] = "idle"]_vars
<1>1. Init => TornInv
  BY DEF Init, TornInv
<1>2. IndInv /\ TornInv /\ [Next]_vars => TornInv'
  BY HistoryStep
<1>3. ASSUME IndInv, TornInv, [Next]_vars, torn, NEW e \in Executors, pc[e] = "idle"
      PROVE  pc'[e] = "idle"
  <2>. USE <1>3, ProcsAssumption DEF IndInv, TypeOK, TornInv, Procs, At, Goto, Finish
  <2>1. CASE TimePasses \/ Fire \/ UNCHANGED vars
    BY <2>1 DEF TimePasses, Fire, vars
  <2>2. CASE Register
    BY <2>2 DEF Register, MakeDir, MakeLockFile, LockNewJob, SaveRequest, CheckAt, CreateTask, ReadBack,
                Recheck, ReturnRegistered, Retain, Discard
  <2>3. ASSUME NEW d \in Executors, Execute(d) \/ ExtraStart(d) \/ AgentEnds(d) PROVE pc'[e] = "idle"
    BY <2>3 DEF Execute, OpenForExecution, LockForExecution, LoadForExecution, CheckRecords, MarkStarted,
                Launch, RecordResult, ExtraStart, AgentEnds
  <2>4. ASSUME NEW r \in Removers, Remove(r) PROVE pc'[e] = "idle"
    BY <2>4 DEF Remove, LockForRemoval, LoadForRemoval, InspectTask, SaveCancellation, DeleteTask, RemoveAll
  <2>5. ASSUME NEW l \in Listers, List(l) PROVE pc'[e] = "idle"
    BY <2>5 DEF List, ListLoad, ListStarted, ListResult, ListCancelled, ListTask
  <2>6. ASSUME NEW p \in Mortals, Crash(p) PROVE pc'[e] = "idle"
    BY <2>6 DEF Crash
  <2>. QED  BY <2>1, <2>2, <2>3, <2>4, <2>5, <2>6 DEF Next
<1>4. IndInv /\ TornInv /\ [Next]_vars =>
         (torn => \A e \in Executors : pc[e] = "idle" => pc'[e] = "idle")
  BY <1>3
<1>. QED  BY <1>1, <1>2, <1>4, Invariance, PTL DEF Spec

\* No file operation fails and no remover is killed.
WholeRemovals == ~DiskFails /\ Mortals \cap Removers = {}

\* Then no removal stops between the records and the request.
LEMMA NoTear == ASSUME WholeRemovals, IndInv, ~torn, [Next]_vars PROVE ~torn'
<1>. USE ProcsAssumption DEF historyVars
<1>1. CASE TimePasses \/ Fire \/ UNCHANGED vars
  BY <1>1 DEF TimePasses, Fire, StartChild, vars
<1>2. CASE Register
  BY <1>2 DEF Register, MakeDir, MakeLockFile, LockNewJob, SaveRequest, CheckAt, CreateTask, ReadBack,
              Recheck, ReturnRegistered, Discard
<1>3. ASSUME NEW e \in Executors, Execute(e) \/ ExtraStart(e) \/ AgentEnds(e) PROVE UNCHANGED torn
  BY <1>3 DEF Execute, OpenForExecution, LockForExecution, LoadForExecution, CheckRecords, MarkStarted,
              Launch, RecordResult, ExtraStart, StartChild, AgentEnds
<1>4. ASSUME NEW r \in Removers, Remove(r) PROVE UNCHANGED torn
  BY <1>4 DEF WholeRemovals, Remove, LockForRemoval, LoadForRemoval, InspectTask, SaveCancellation,
              DeleteTask, RemoveAll
<1>5. ASSUME NEW l \in Listers, List(l) PROVE UNCHANGED torn
  BY <1>5 DEF List, ListLoad, ListStarted, ListResult, ListCancelled, ListTask, Looking
<1>6. ASSUME NEW p \in Mortals, Crash(p) PROVE ~torn'
  <2>1. p \in Procs /\ p \notin Removers /\ StopRemoving(p)
    BY <1>6 DEF WholeRemovals, Crash
  <2>2. pc[p] # "removing"
    BY <2>1 DEF IndInv, PlaceInv, Procs, RegistrarPCs, ExecutorPCs, ListerPCs, Ended
  <2>. QED  BY <2>1, <2>2, StopFacts
<1>. QED  BY <1>1, <1>2, <1>3, <1>4, <1>5, <1>6 DEF Next

LEMMA NeverTorn == ASSUME WholeRemovals PROVE Spec => []~torn
<1>1. Init => ~torn
  BY DEF Init
<1>2. IndInv /\ ~torn /\ [Next]_vars => ~torn'
  BY NoTear
<1>. QED  BY <1>1, <1>2, Invariance, PTL DEF Spec

\* Then docs/VERIFICATION.md:130 is right: a job whose cancellation was saved is never
\* launched.  The run jobstore_torn shows the one way around it.
THEOREM CancellationIsRetained ==
    ASSUME WholeRemovals
    PROVE  Spec => CancellationRetained
<1>1. CancelExcludesStart /\ []~torn => CancellationRetained
  BY PTL DEF CancelExcludesStart, CancellationRetained
<1>. QED  BY <1>1, NeverTorn, CancelExcludes, PTL

\* And the job store implements JobPromise without a reservation.
THEOREM PromiseInFull ==
    ASSUME WholeRemovals
    PROVE  Spec => Promise!Spec
<1>1. Promise!Init /\ [][Promise!Next \/ torn']_<<life, report>> /\ []~torn => Promise!Spec
  BY PTL DEF Promise!Spec, Promise!pvars
<1>. QED  BY <1>1, NeverTorn, PromiseIsKept, PTL DEF KeepsPromise

-----------------------------------------------------------------------------
(* What follows from the promise *)

LEMMA EachStepIsOnward == Promise!Next => Promise!Onward
BY DEF Promise!Next, Promise!Advance, Promise!Reserve, Promise!Claim, Promise!Launch, Promise!End,
       Promise!Forfeit, Promise!Cancel, Promise!Remove, Promise!Discard, Promise!Confirm,
       Promise!Refuse, Promise!Onward, Promise!Stage

\* A job's life has one direction, whoever runs and whoever is killed: what was launched is
\* not launched again, what was cancelled is not reserved again (persist.go:317-331, 422-436),
\* until a removal breaks off.
THEOREM OneWayLife == Spec => [][Promise!Onward \/ torn']_<<life, report>>
BY EachStepIsOnward, PromiseIsKept, PTL DEF KeepsPromise

\* Nothing puts it back when no removal breaks off.
THEOREM OneWayLifeInFull ==
    ASSUME WholeRemovals
    PROVE  Spec => Promise!LifeIsOneWay
<1>1. Promise!Spec => Promise!LifeIsOneWay
  BY EachStepIsOnward, PTL DEF Promise!Spec, Promise!LifeIsOneWay
<1>. QED  BY <1>1, PromiseInFull, PTL

\* What the user was told to have failed leaves no task behind, and no child of the job ever
\* starts (persist.go:275-279).
THEOREM FailedIsOver == Spec => [](report = "failed" => task = "absent" /\ \A e \in Executors : pc[e] = "idle")
<1>1. PromiseInv => FailedInv
  BY DEF PromiseInv
<1>. QED  BY <1>1, PromiseInvariance, PTL DEF FailedInv

-----------------------------------------------------------------------------
(* The one start is not wasted *)

\* Nobody is turned away, so what README.md:50-51 says is kept where execution waits
\* (persist_lock_execution_unix.go:11-13).
THEOREM UnixTurnsNobodyAway ==
    ASSUME WaitsForLock
    PROVE  Spec => []TimedRunNotTurnedAway
<1>1. Init => turnedAway = {}
  BY DEF Init
<1>2. turnedAway = {} /\ [Next]_vars => (turnedAway = {})'
  <2>. SUFFICES ASSUME turnedAway = {}, [Next]_vars PROVE UNCHANGED turnedAway
    OBVIOUS
  <2>. USE DEF historyVars
  <2>1. CASE TimePasses \/ Fire \/ UNCHANGED vars
    BY <2>1 DEF TimePasses, Fire, StartChild, vars
  <2>2. CASE Register
    BY <2>2 DEF Register, MakeDir, MakeLockFile, LockNewJob, SaveRequest, CheckAt, CreateTask, ReadBack,
                Recheck, ReturnRegistered, Discard
  <2>3. ASSUME NEW e \in Executors, Execute(e) \/ ExtraStart(e) \/ AgentEnds(e) PROVE UNCHANGED turnedAway
    BY <2>3 DEF Execute, OpenForExecution, LockForExecution, LoadForExecution, CheckRecords, MarkStarted,
                Launch, RecordResult, ExtraStart, StartChild, AgentEnds
  <2>4. ASSUME NEW r \in Removers, Remove(r) PROVE UNCHANGED turnedAway
    BY <2>4 DEF Remove, LockForRemoval, LoadForRemoval, InspectTask, SaveCancellation, DeleteTask, RemoveAll
  <2>5. ASSUME NEW l \in Listers, List(l) PROVE UNCHANGED turnedAway
    BY <2>5 DEF List, ListLoad, ListStarted, ListResult, ListCancelled, ListTask, Looking
  <2>6. ASSUME NEW p \in Mortals, Crash(p) PROVE UNCHANGED turnedAway
    BY <2>6 DEF Crash
  <2>. QED  BY <2>1, <2>2, <2>3, <2>4, <2>5, <2>6 DEF Next
<1>3. turnedAway = {} => TimedRunNotTurnedAway
  BY DEF TimedRunNotTurnedAway
<1>. QED  BY <1>1, <1>2, <1>3, PTL DEF Spec

\* What the trigger's child may come to nothing for.
Excused == \/ launched # {} \/ cancelSaved
           \/ TimedRun \in turnedAway
           \/ \E e \in Executors : pc[e] = "dead"

\* From the saved request on, and as long as there is a task or a child, the job is whole,
\* unless it is being removed.
Whole    == dirMade /\ {"lock", "request"} \subseteq files /\ "request" \notin damaged
Expected == \/ task # "absent"
            \/ pc[Registrar] \in {"checkAt", "creating", "readback", "recheck", "return"}
            \/ \E e \in Executors : pc[e] # "idle"
WholeInv == /\ pc[Registrar] = "saving" => dirMade /\ "lock" \in files
            /\ Expected => Whole \/ cancelSaved

\* Without an excuse the only record can be the start record of a child that will launch.
RecordsInv ==
    ~Excused => /\ {"cancelled", "stdout", "stderr"} \cap files = {}
                /\ "started" \in files => \E e \in Executors : pc[e] = "starting"

\* The trigger's child has seen the time; who is past the launch was launched, or could
\* not be because another had been.
TimedInv ==
    /\ pc[TimedRun] # "idle" => sawDue[TimedRun]
    /\ pc[TimedRun] = "done" => Excused
    /\ \A e \in Executors : pc[e] \in {"running", "recording"} => Excused
    /\ \A r \in Removers : pc[r] \in {"deleting", "removing"} => cancelSaved

StartInv == WholeInv /\ RecordsInv /\ TimedInv

LEMMA StartInit == Init => StartInv
BY ProcsAssumption DEF Init, StartInv, WholeInv, Expected, RecordsInv, TimedInv, Procs

LEMMA ExcusedStays == IndInv /\ [Next]_vars /\ Excused => Excused'
<1>. SUFFICES ASSUME IndInv, [Next]_vars, Excused PROVE Excused'
  OBVIOUS
<1>. USE ProcsAssumption DEF IndInv, TypeOK, Excused, historyVars, Procs, At, Goto, Finish
<1>1. CASE TimePasses \/ Fire \/ UNCHANGED vars
  BY <1>1 DEF TimePasses, Fire, StartChild, vars
<1>2. CASE Register
  BY <1>2 DEF Register, MakeDir, MakeLockFile, LockNewJob, SaveRequest, CheckAt, CreateTask, ReadBack,
              Recheck, ReturnRegistered, Retain, Discard
<1>3. ASSUME NEW e \in Executors, Execute(e) \/ ExtraStart(e) \/ AgentEnds(e) PROVE Excused'
  BY <1>3 DEF Execute, OpenForExecution, LockForExecution, LoadForExecution, CheckRecords, MarkStarted,
              Launch, RecordResult, ExtraStart, StartChild, AgentEnds
<1>4. ASSUME NEW r \in Removers, Remove(r) PROVE Excused'
  BY <1>4 DEF Remove, LockForRemoval, LoadForRemoval, InspectTask, SaveCancellation, DeleteTask, RemoveAll
<1>5. ASSUME NEW l \in Listers, List(l) PROVE Excused'
  BY <1>5 DEF List, ListLoad, ListStarted, ListResult, ListCancelled, ListTask, Looking
<1>6. ASSUME NEW p \in Mortals, Crash(p) PROVE Excused'
  BY <1>6 DEF Crash
<1>. QED  BY <1>1, <1>2, <1>3, <1>4, <1>5, <1>6 DEF Next

LEMMA StartStep ==
    ASSUME ~DiskFails, IndInv, PromiseInv, StartInv, [Next]_vars
    PROVE  StartInv'
<1>. USE ProcsAssumption DEF IndInv, TypeOK, PlaceInv, StartInv, WholeInv, Expected, Whole, RecordsInv, TimedInv,
         Procs, At, Goto, Finish, fileVars, historyVars
<1>0. Excused => Excused'
  BY ExcusedStays
<1>1. CASE TimePasses \/ UNCHANGED vars
  BY <1>0, <1>1 DEF TimePasses, vars, Excused
<1>2. CASE Fire
  BY <1>0, <1>2 DEF Fire, StartChild, Excused
<1>3. CASE Register
  <2>. USE <1>0 DEF RegistrationInv, Unregistered, Excused
  <2>1. CASE MakeDir \/ MakeLockFile \/ LockNewJob \/ CheckAt
    BY <2>1 DEF MakeDir, MakeLockFile, LockNewJob, LockFree, Take, CheckAt
  <2>2. CASE SaveRequest
    BY <2>2 DEF SaveRequest, CreateJSON, CreateJSONFails
  <2>3. CASE CreateTask
    BY <2>3 DEF CreateTask, TaskCreated, TaskRefused, TaskUncertain, Registered, Retain, Loadable
  <2>4. CASE ReadBack \/ Recheck \/ ReturnRegistered
    BY <2>4 DEF ReadBack, Recheck, ReturnRegistered, Retain, Loadable
  <2>5. CASE Discard
    BY <2>5 DEF Discard, UnlinkOne, RemoveDir
  <2>. QED  BY <1>3, <2>1, <2>2, <2>3, <2>4, <2>5 DEF Register
<1>4. ASSUME NEW e \in Executors, ExtraStart(e) PROVE StartInv'
  BY <1>0, <1>4 DEF ExtraStart, StartChild, Excused
<1>5. ASSUME NEW e \in Executors, Execute(e) \/ AgentEnds(e) PROVE StartInv'
  <2>. USE <1>0
  <2>1. CASE OpenForExecution(e) \/ LockForExecution(e)
    BY <2>1 DEF OpenForExecution, LockForExecution, Excused
  <2>2. CASE LoadForExecution(e)
    BY <2>2 DEF LoadForExecution, Loadable, Excused
  <2>3. CASE CheckRecords(e)
    BY <2>3 DEF CheckRecords, LockInv, Critical, Excused
  <2>4. CASE MarkStarted(e)
    BY <2>4 DEF MarkStarted, CreateJSON, CreateJSONFails, LockInv, Critical, Excused
  <2>5. CASE Launch(e)
    BY <2>5 DEF Launch, LockInv, Critical, Excused
  <2>6. CASE AgentEnds(e)
    BY <2>6 DEF AgentEnds, Excused
  <2>7. CASE RecordResult(e)
    BY <2>7 DEF RecordResult, CreateJSON, CreateJSONFails, Excused
  <2>. QED  BY <1>5, <2>1, <2>2, <2>3, <2>4, <2>5, <2>6, <2>7 DEF Execute
<1>6. ASSUME NEW r \in Removers, Remove(r) PROVE StartInv'
  <2>. USE <1>0
  <2>1. CASE LockForRemoval(r) \/ LoadForRemoval(r) \/ InspectTask(r)
    BY <2>1 DEF LockForRemoval, LoadForRemoval, InspectTask, Excused
  <2>2. CASE SaveCancellation(r)
    BY <2>2 DEF SaveCancellation, CreateJSON, CreateJSONFails, Excused
  <2>3. CASE DeleteTask(r)
    BY <2>3 DEF DeleteTask, TaskDeleted, TaskDeletionFailed, Excused
  <2>4. CASE RemoveAll(r)
    BY <2>4 DEF RemoveAll, UnlinkOne, RemoveDir, LockInv, Critical, Excused
  <2>. QED  BY <1>6, <2>1, <2>2, <2>3, <2>4 DEF Remove
<1>7. ASSUME NEW l \in Listers, List(l) PROVE StartInv'
  <2>1. \A p \in Procs \ Listers : pc'[p] = pc[p]
    BY <1>7 DEF List, ListLoad, ListStarted, ListResult, ListCancelled, ListTask
  <2>2. Looking(l)
    BY <1>7 DEF List, ListLoad, ListStarted, ListResult, ListCancelled, ListTask
  <2>. QED  BY <2>1, <2>2 DEF Looking, Excused
<1>8. ASSUME NEW p \in Mortals, Crash(p) PROVE StartInv'
  BY <1>0, <1>8 DEF Crash, Excused
<1>. QED  BY <1>1, <1>2, <1>3, <1>4, <1>5, <1>6, <1>7, <1>8 DEF Next

\* The child that the trigger starts does not come to nothing: when it is done, the agent has
\* been launched, or the job was cancelled, or a child was killed, or, on Windows alone, it
\* met the lock and gave up (persist.go:305-331, persist_lock_execution_*.go).  This is the
\* part of RegisteredJobStarts that is not about progress.
THEOREM StartIsUsed ==
    ASSUME ~DiskFails
    PROVE  Spec => [](pc[TimedRun] = "done" => Excused)
<1>1. IndInv /\ PromiseInv /\ StartInv /\ [Next]_vars => StartInv'
  BY StartStep
<1>2. StartInv => (pc[TimedRun] = "done" => Excused)
  BY DEF StartInv, TimedInv
<1>. QED  BY <1>1, <1>2, StartInit, PromiseInvariance, PTL DEF Spec

=============================================================================
