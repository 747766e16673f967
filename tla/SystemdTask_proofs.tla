-------------------------- MODULE SystemdTask_proofs --------------------------
(***************************************************************************)
(* Theorems about the Linux backend: it implements the contract of a task  *)
(* scheduler and keeps its hands off other files, whether or not a write   *)
(* may stop half-way.                                                      *)
(***************************************************************************)
EXTENDS SystemdTask, TLAPS

CreateSteps == {"service", "timer", "undo", "reload", "enable"}
ReadSteps   == {"readService", "readTimer", "showService", "showTimer"}
DeleteSteps == {"halves", "disable", "removeTimer", "removeService", "reloadAgain"}

NamesInv ==
    /\ unit \in [Units -> UnitStates]
    /\ timer \in {"inactive", "waiting", "running", "elapsed"}
    /\ at \in Steps /\ found \subseteq Units
AnswerInv ==
    answer \in [to : Operations \cup {"none"},
                is : {"ok", "missing", "refused", "uncertain", "error", "none"}]

\* Which operation is at which step.
CallInv ==
    /\ at \in {"new", "idle"} => caller = "none"
    /\ at \in CreateSteps => caller = "Create"
    /\ at \in ReadSteps => caller \in {"Read", "ReadForRemoval", "Delete"}
    /\ at \in DeleteSteps => caller = "Delete"

\* Create builds both files before the manager hears of them.
CreateInv ==
    /\ at \in {"new", "service"} => unit["service"] \in {"none", "foreign"}
    /\ at \in {"new", "service", "timer"} => unit["timer"] \in {"none", "foreign"}
    /\ at \in {"timer", "undo", "reload", "enable"} => unit["service"] = "exact"
    /\ at = "undo" => unit["timer"] = "foreign"
    /\ at \in {"reload", "enable"} => unit["timer"] = "exact"
    /\ at \in {"new"} \cup CreateSteps => ~enabled /\ timer = "inactive"

\* What has been verified stays so until the operation is over.
ReadInv ==
    /\ at \in {"readTimer", "showService", "showTimer"} => unit["service"] = "exact"
    /\ at \in {"showService", "showTimer"} => unit["timer"] = "exact"

\* Delete has verified what it removes, and the manager has let go of it by then.
DeleteInv ==
    /\ at \in {"disable", "removeTimer"} =>
          /\ unit["timer"] = "exact"
          /\ unit["service"] = IF "service" \in found THEN "exact" ELSE "none"
    /\ at = "removeService" => unit["service"] = "exact" /\ unit["timer"] = "none"
    /\ at = "reloadAgain" => unit["service"] = "none" /\ unit["timer"] = "none"
    /\ at \in {"removeTimer", "removeService", "reloadAgain"} => ~enabled /\ timer = "inactive"

\* The manager has a timer only from both files, and only while it runs itself.
ManagerInv ==
    /\ enabled \/ timer # "inactive" => /\ unit["service"] \in {"exact", "changed"}
                                        /\ unit["timer"] \in {"exact", "changed"}
    /\ timer \in {"running", "elapsed"} => due
    /\ ~up => timer = "inactive" /\ at \in {"new", "idle"}

TaskInv == NamesInv /\ AnswerInv /\ CallInv /\ CreateInv /\ ReadInv /\ DeleteInv /\ ManagerInv

LEMMA TaskInit == ASSUME Init PROVE TaskInv
BY DEF Init, TaskInv, NamesInv, AnswerInv, Units, UnitStates, Steps, Operations, NoAnswer, CallInv, CreateInv,
       ReadInv, DeleteInv, ManagerInv, CreateSteps, ReadSteps, DeleteSteps

LEMMA NamesStep == ASSUME NamesInv, [Next]_vars PROVE NamesInv'
<1>. USE DEF NamesInv, Units, UnitStates, Steps, Operations, NoAnswer, CreateSteps, ReadSteps, DeleteSteps, manager, disk
<1>1. CASE Call("Create") \/ Call("Read") \/ Call("ReadForRemoval") \/ CallDelete
  BY <1>1 DEF CallDelete, Call
<1>2. CASE WriteService
  BY <1>2 DEF WriteService, WriteUnit, WriteFails, Fails, Return, Go
<1>3. CASE WriteTimer
  BY <1>3 DEF WriteTimer, WriteUnit, WriteFails, Return, Go
<1>4. CASE UndoService
  BY <1>4 DEF UndoService, RemoveUnit, Fails, Return
<1>5. CASE Reload
  BY <1>5 DEF Reload, Fails, Return, Go
<1>6. CASE Enable
  BY <1>6 DEF Enable, Fails, Return, Started
<1>7. CASE CheckFile("service", "readService", "readTimer")
  BY <1>7 DEF CheckFile, MissingUnit, Fails, Return, Go
<1>8. CASE CheckFile("timer", "readTimer", "showService")
  BY <1>8 DEF CheckFile, MissingUnit, Fails, Return, Go
<1>9. CASE ShowService
  BY <1>9 DEF ShowService, Fails, Return, Go
<1>10. CASE ShowTimer
  BY <1>10 DEF ShowTimer, Fails, Return
<1>11. CASE FindHalves
  BY <1>11 DEF FindHalves, Fails, Return
<1>12. CASE Disable
  BY <1>12 DEF Disable, Fails, Return, Go
<1>13. CASE RemoveTimer
  BY <1>13 DEF RemoveTimer, RemoveUnit, Fails, Return, Go
<1>14. CASE RemoveService
  BY <1>14 DEF RemoveService, RemoveUnit, Fails, Return, Go
<1>15. CASE ReloadAgain
  BY <1>15 DEF ReloadAgain, Fails, Return
<1>16. CASE TimePasses \/ TimerFires \/ ServiceEnds \/ Settle
  BY <1>16 DEF TimePasses, TimerFires, ServiceEnds, Settle
<1>17. CASE Killed
  BY <1>17 DEF Killed, CutShort
<1>18. CASE MachineStops
  BY <1>18 DEF MachineStops, CutShort
<1>19. CASE MachineStarts
  BY <1>19 DEF MachineStarts, Started
<1>20. CASE Interfere
  BY <1>20 DEF Interfere, RemoveUnit
<1>21. CASE UNCHANGED vars
  BY <1>21 DEF vars
<1>. QED  BY <1>1, <1>2, <1>3, <1>4, <1>5, <1>6, <1>7, <1>8, <1>9, <1>10, <1>11, <1>12, <1>13, <1>14,
             <1>15, <1>16, <1>17, <1>18, <1>19, <1>20, <1>21 DEF Next, Work, Create, ReadUnits, Delete

LEMMA AnswerStep == ASSUME NamesInv, CallInv, AnswerInv, [Next]_vars PROVE AnswerInv'
<1>. USE DEF NamesInv, CallInv, AnswerInv, Units, UnitStates, Steps, Operations, NoAnswer, CreateSteps, ReadSteps, DeleteSteps, manager, disk
<1>1. CASE Call("Create") \/ Call("Read") \/ Call("ReadForRemoval") \/ CallDelete
  BY <1>1 DEF CallDelete, Call
<1>2. CASE WriteService
  BY <1>2 DEF WriteService, WriteUnit, WriteFails, Fails, Return, Go
<1>3. CASE WriteTimer
  BY <1>3 DEF WriteTimer, WriteUnit, WriteFails, Return, Go
<1>4. CASE UndoService
  BY <1>4 DEF UndoService, RemoveUnit, Fails, Return
<1>5. CASE Reload
  BY <1>5 DEF Reload, Fails, Return, Go
<1>6. CASE Enable
  BY <1>6 DEF Enable, Fails, Return, Started
<1>7. CASE CheckFile("service", "readService", "readTimer")
  BY <1>7 DEF CheckFile, MissingUnit, Fails, Return, Go
<1>8. CASE CheckFile("timer", "readTimer", "showService")
  BY <1>8 DEF CheckFile, MissingUnit, Fails, Return, Go
<1>9. CASE ShowService
  BY <1>9 DEF ShowService, Fails, Return, Go
<1>10. CASE ShowTimer
  BY <1>10 DEF ShowTimer, Fails, Return
<1>11. CASE FindHalves
  BY <1>11 DEF FindHalves, Fails, Return
<1>12. CASE Disable
  BY <1>12 DEF Disable, Fails, Return, Go
<1>13. CASE RemoveTimer
  BY <1>13 DEF RemoveTimer, RemoveUnit, Fails, Return, Go
<1>14. CASE RemoveService
  BY <1>14 DEF RemoveService, RemoveUnit, Fails, Return, Go
<1>15. CASE ReloadAgain
  BY <1>15 DEF ReloadAgain, Fails, Return
<1>16. CASE TimePasses \/ TimerFires \/ ServiceEnds \/ Settle
  BY <1>16 DEF TimePasses, TimerFires, ServiceEnds, Settle
<1>17. CASE Killed
  BY <1>17 DEF Killed, CutShort
<1>18. CASE MachineStops
  BY <1>18 DEF MachineStops, CutShort
<1>19. CASE MachineStarts
  BY <1>19 DEF MachineStarts, Started
<1>20. CASE Interfere
  BY <1>20 DEF Interfere, RemoveUnit
<1>21. CASE UNCHANGED vars
  BY <1>21 DEF vars
<1>. QED  BY <1>1, <1>2, <1>3, <1>4, <1>5, <1>6, <1>7, <1>8, <1>9, <1>10, <1>11, <1>12, <1>13, <1>14,
             <1>15, <1>16, <1>17, <1>18, <1>19, <1>20, <1>21 DEF Next, Work, Create, ReadUnits, Delete

LEMMA CallStep == ASSUME NamesInv, CallInv, [Next]_vars PROVE CallInv'
<1>. USE DEF NamesInv, CallInv, Units, UnitStates, Steps, Operations, NoAnswer, CreateSteps, ReadSteps, DeleteSteps, manager, disk
<1>1. CASE Call("Create") \/ Call("Read") \/ Call("ReadForRemoval") \/ CallDelete
  BY <1>1 DEF CallDelete, Call
<1>2. CASE WriteService
  BY <1>2 DEF WriteService, WriteUnit, WriteFails, Fails, Return, Go
<1>3. CASE WriteTimer
  BY <1>3 DEF WriteTimer, WriteUnit, WriteFails, Return, Go
<1>4. CASE UndoService
  BY <1>4 DEF UndoService, RemoveUnit, Fails, Return
<1>5. CASE Reload
  BY <1>5 DEF Reload, Fails, Return, Go
<1>6. CASE Enable
  BY <1>6 DEF Enable, Fails, Return, Started
<1>7. CASE CheckFile("service", "readService", "readTimer")
  BY <1>7 DEF CheckFile, MissingUnit, Fails, Return, Go
<1>8. CASE CheckFile("timer", "readTimer", "showService")
  BY <1>8 DEF CheckFile, MissingUnit, Fails, Return, Go
<1>9. CASE ShowService
  BY <1>9 DEF ShowService, Fails, Return, Go
<1>10. CASE ShowTimer
  BY <1>10 DEF ShowTimer, Fails, Return
<1>11. CASE FindHalves
  BY <1>11 DEF FindHalves, Fails, Return
<1>12. CASE Disable
  BY <1>12 DEF Disable, Fails, Return, Go
<1>13. CASE RemoveTimer
  BY <1>13 DEF RemoveTimer, RemoveUnit, Fails, Return, Go
<1>14. CASE RemoveService
  BY <1>14 DEF RemoveService, RemoveUnit, Fails, Return, Go
<1>15. CASE ReloadAgain
  BY <1>15 DEF ReloadAgain, Fails, Return
<1>16. CASE TimePasses \/ TimerFires \/ ServiceEnds \/ Settle
  BY <1>16 DEF TimePasses, TimerFires, ServiceEnds, Settle
<1>17. CASE Killed
  BY <1>17 DEF Killed, CutShort
<1>18. CASE MachineStops
  BY <1>18 DEF MachineStops, CutShort
<1>19. CASE MachineStarts
  BY <1>19 DEF MachineStarts, Started
<1>20. CASE Interfere
  BY <1>20 DEF Interfere, RemoveUnit
<1>21. CASE UNCHANGED vars
  BY <1>21 DEF vars
<1>. QED  BY <1>1, <1>2, <1>3, <1>4, <1>5, <1>6, <1>7, <1>8, <1>9, <1>10, <1>11, <1>12, <1>13, <1>14,
             <1>15, <1>16, <1>17, <1>18, <1>19, <1>20, <1>21 DEF Next, Work, Create, ReadUnits, Delete

LEMMA FilesStep == ASSUME TaskInv, [Next]_vars PROVE CreateInv' /\ ReadInv' /\ DeleteInv' /\ ManagerInv'
<1>. USE DEF TaskInv, NamesInv, CallInv, CreateInv, ReadInv,
             DeleteInv, ManagerInv, Units, UnitStates, Steps, Operations, NoAnswer,
             CreateSteps, ReadSteps, DeleteSteps, manager, disk
<1>1. CASE Call("Create") \/ Call("Read") \/ Call("ReadForRemoval") \/ CallDelete
  BY <1>1 DEF CallDelete, Call
<1>2. CASE WriteService
  BY <1>2 DEF WriteService, WriteUnit, WriteFails, Fails, Return, Go
<1>3. CASE WriteTimer
  BY <1>3 DEF WriteTimer, WriteUnit, WriteFails, Return, Go
<1>4. CASE UndoService
  BY <1>4 DEF UndoService, RemoveUnit, Fails, Return
<1>5. CASE Reload
  BY <1>5 DEF Reload, Fails, Return, Go
<1>6. CASE Enable
  <2>1. at = "enable" /\ at' = "idle" /\ caller' = "none" /\ up' = up /\ due' = due /\ unit' = unit
    BY <1>6 DEF Enable, Fails, Return
  <2>2. timer' \in {"waiting", "elapsed"} \cup {timer} /\ (timer' = "elapsed" => due \/ timer = "elapsed")
    BY <1>6 DEF Enable, Started
  <2>. QED  BY <2>1, <2>2
<1>7. CASE CheckFile("service", "readService", "readTimer")
  BY <1>7 DEF CheckFile, MissingUnit, Fails, Return, Go
<1>8. CASE CheckFile("timer", "readTimer", "showService")
  BY <1>8 DEF CheckFile, MissingUnit, Fails, Return, Go
<1>9. CASE ShowService
  BY <1>9 DEF ShowService, Fails, Return, Go
<1>10. CASE ShowTimer
  BY <1>10 DEF ShowTimer, Fails, Return
<1>11. CASE FindHalves
  BY <1>11 DEF FindHalves, Fails, Return
<1>12. CASE Disable
  BY <1>12 DEF Disable, Fails, Return, Go
<1>13. CASE RemoveTimer
  BY <1>13 DEF RemoveTimer, RemoveUnit, Fails, Return, Go
<1>14. CASE RemoveService
  BY <1>14 DEF RemoveService, RemoveUnit, Fails, Return, Go
<1>15. CASE ReloadAgain
  BY <1>15 DEF ReloadAgain, Fails, Return
<1>16. CASE TimePasses \/ TimerFires \/ ServiceEnds \/ Settle
  BY <1>16 DEF TimePasses, TimerFires, ServiceEnds, Settle
<1>17. CASE Killed
  BY <1>17 DEF Killed, CutShort
<1>18. CASE MachineStops
  BY <1>18 DEF MachineStops, CutShort
<1>19. CASE MachineStarts
  BY <1>19 DEF MachineStarts, Started
<1>20. CASE Interfere
  BY <1>20 DEF Interfere, RemoveUnit
<1>21. CASE UNCHANGED vars
  BY <1>21 DEF vars
<1>. QED  BY <1>1, <1>2, <1>3, <1>4, <1>5, <1>6, <1>7, <1>8, <1>9, <1>10, <1>11, <1>12, <1>13, <1>14,
             <1>15, <1>16, <1>17, <1>18, <1>19, <1>20, <1>21 DEF Next, Work, Create, ReadUnits, Delete

LEMMA TaskInvariance == Spec => []TaskInv
<1>1. Init => TaskInv
  BY TaskInit
<1>2. TaskInv /\ [Next]_vars => TaskInv'
  BY NamesStep, AnswerStep, CallStep, FilesStep DEF TaskInv
<1>. QED  BY <1>1, <1>2, PTL DEF Spec

FlagsInv == due \in BOOLEAN /\ up \in BOOLEAN /\ calm \in BOOLEAN /\ dropIn \in BOOLEAN /\ enabled \in BOOLEAN

LEMMA FlagsStep == ASSUME FlagsInv, [Next]_vars PROVE FlagsInv'
<1>. USE DEF FlagsInv, manager, disk
<1>1. CASE Call("Create") \/ Call("Read") \/ Call("ReadForRemoval") \/ CallDelete
  BY <1>1 DEF CallDelete, Call
<1>2. CASE WriteService \/ WriteTimer \/ UndoService \/ Reload
  BY <1>2 DEF WriteService, WriteTimer, UndoService, Reload
<1>3. CASE Enable
  BY <1>3 DEF Enable
<1>4. CASE ReadUnits
  BY <1>4 DEF ReadUnits, CheckFile, ShowService, ShowTimer
<1>5. CASE Disable
  BY <1>5 DEF Disable
<1>6. CASE FindHalves \/ RemoveTimer \/ RemoveService \/ ReloadAgain
  BY <1>6 DEF FindHalves, RemoveTimer, RemoveService, ReloadAgain
<1>7. CASE TimePasses \/ TimerFires \/ ServiceEnds \/ Settle
  BY <1>7 DEF TimePasses, TimerFires, ServiceEnds, Settle
<1>8. CASE Killed \/ MachineStops \/ MachineStarts
  BY <1>8 DEF Killed, MachineStops, MachineStarts
<1>9. CASE Interfere
  <2>1. dropIn' = dropIn \/ dropIn' = ~dropIn
    BY <1>9 DEF Interfere
  <2>2. dropIn' \in BOOLEAN
    BY <2>1
  <2>. QED  BY <1>9, <2>2 DEF Interfere, RemoveUnit
<1>10. CASE UNCHANGED vars
  BY <1>10 DEF vars
<1>. QED  BY <1>1, <1>2, <1>3, <1>4, <1>5, <1>6, <1>7, <1>8, <1>9, <1>10 DEF Next, Work, Create, Delete

\* Every variable of the Linux backend keeps its type.
THEOREM TypeCorrect == Spec => []TypeOK
<1>1. Init => FlagsInv
  BY DEF Init, FlagsInv
<1>2. FlagsInv /\ [Next]_vars => FlagsInv'
  BY FlagsStep
<1>3. TaskInv /\ FlagsInv => TypeOK
  <2>. SUFFICES ASSUME TaskInv, FlagsInv PROVE TypeOK
    OBVIOUS
  <2>1. caller \in Operations \cup {"none"}
    BY DEF TaskInv, NamesInv, CallInv, Steps, CreateSteps, ReadSteps, DeleteSteps, Operations
  <2>2. due \in BOOLEAN /\ up \in BOOLEAN /\ calm \in BOOLEAN /\ dropIn \in BOOLEAN /\ enabled \in BOOLEAN
    BY DEF FlagsInv
  <2>. QED  BY <2>1, <2>2 DEF TaskInv, NamesInv, AnswerInv, TypeOK
<1>. QED  BY <1>1, <1>2, <1>3, TaskInvariance, PTL DEF Spec

-----------------------------------------------------------------------------
(* Files of others *)

\* What Delete removes it has verified, and Create takes back only what it wrote: a unit file
\* of another, or one that was changed, stays (persist_task_linux.go:97-137).
THEOREM OthersAreKept == Spec => OthersKept
<1>1. ASSUME TaskInv, Next, NEW u \in Units, unit[u] \in {"changed", "foreign"}
      PROVE  unit'[u] = unit[u]
  <2>. USE <1>1 DEF TaskInv, NamesInv, CreateInv, DeleteInv, Units, disk
  <2>1. CASE WriteService \/ WriteTimer
    BY <2>1 DEF WriteService, WriteTimer, WriteUnit, WriteFails
  <2>2. CASE UndoService \/ RemoveTimer \/ RemoveService
    BY <2>2 DEF UndoService, RemoveTimer, RemoveService, RemoveUnit
  <2>3. CASE Interfere
    BY <2>3 DEF Interfere, RemoveUnit
  <2>4. CASE Reload \/ Enable \/ FindHalves \/ Disable \/ ReloadAgain
    BY <2>4 DEF Reload, Enable, FindHalves, Disable, ReloadAgain
  <2>5. CASE ReadUnits
    BY <2>5 DEF ReadUnits, CheckFile, ShowService, ShowTimer
  <2>6. CASE Call("Create") \/ Call("Read") \/ Call("ReadForRemoval") \/ CallDelete
    BY <2>6 DEF CallDelete, Call
  <2>7. CASE TimePasses \/ TimerFires \/ ServiceEnds \/ Settle
    BY <2>7 DEF TimePasses, TimerFires, ServiceEnds, Settle
  <2>8. CASE Killed \/ MachineStops \/ MachineStarts
    BY <2>8 DEF Killed, MachineStops, MachineStarts
  <2>. QED  BY <2>1, <2>2, <2>3, <2>4, <2>5, <2>6, <2>7, <2>8 DEF Next, Work, Create, Delete
<1>2. TaskInv /\ [Next]_vars => [\A u \in Units : unit[u] \in {"changed", "foreign"} => unit'[u] = unit[u]]_vars
  BY <1>1
<1>. QED  BY <1>2, TaskInvariance, PTL DEF Spec, OthersKept

-----------------------------------------------------------------------------
(* The contract of a backend *)

\* The task of the contract, with the two files written out.
LEMMA TaskIs ==
    ASSUME NamesInv
    PROVE  /\ timer = "waiting" => task = "armed"
           /\ timer # "waiting" /\ enabled /\ ~due => task = "latent"
           /\ timer # "waiting" /\ (~enabled \/ due) =>
                 task = IF \/ unit["service"] \in {"exact", "partial", "changed"}
                           \/ unit["timer"] \in {"exact", "partial", "changed"}
                           \/ enabled \/ timer # "inactive"
                        THEN "dormant" ELSE "absent"
BY DEF task, OnDisk, Units, NamesInv

LEMMA TaskBecomes ==
    ASSUME NamesInv'
    PROVE  /\ timer' = "waiting" => task' = "armed"
           /\ timer' # "waiting" /\ enabled' /\ ~due' => task' = "latent"
           /\ timer' # "waiting" /\ (~enabled' \/ due') =>
                 task' = IF \/ unit'["service"] \in {"exact", "partial", "changed"}
                            \/ unit'["timer"] \in {"exact", "partial", "changed"}
                            \/ enabled' \/ timer' # "inactive"
                         THEN "dormant" ELSE "absent"
BY DEF task, OnDisk, Units, NamesInv

LEMMA TaskStays == ASSUME UNCHANGED <<due, unit, enabled, timer>> PROVE task' = task
BY DEF task, OnDisk

\* A step of an operation is one of the contract's: it moves the task as that operation
\* may, and either goes on or answers what fits.
LEMMA WorkKeepsContract ==
    ASSUME TaskInv, NamesInv', Work
    PROVE  Contract!Work \/ UNCHANGED Contract!cvars
<1>. USE TaskIs, TaskBecomes, TaskStays DEF TaskInv, NamesInv, CallInv, CreateInv, ReadInv, DeleteInv,
             ManagerInv, CreateSteps, ReadSteps, DeleteSteps, Units, manager, disk, Contract!Work,
             Contract!Operations, Contract!Return, Contract!Verdicts, Contract!Fits, Contract!Moves,
             Contract!cvars
<1>1. CASE WriteService
  BY <1>1 DEF WriteService, WriteUnit, WriteFails, Fails, Return, Go, Contract!Creating
<1>2. CASE WriteTimer
  BY <1>2 DEF WriteTimer, WriteUnit, WriteFails, Return, Go, Contract!Creating
<1>3. CASE UndoService
  BY <1>3 DEF UndoService, RemoveUnit, Fails, Return, Contract!Creating
<1>4. CASE Reload
  BY <1>4 DEF Reload, Fails, Return, Go, Contract!Creating
<1>5. CASE Enable
  BY <1>5 DEF Enable, Fails, Return, Started, Contract!Creating
<1>6. CASE CheckFile("service", "readService", "readTimer")
  BY <1>6 DEF CheckFile, MissingUnit, Fails, Return, Go, Contract!Deleting
<1>7. CASE CheckFile("timer", "readTimer", "showService")
  BY <1>7 DEF CheckFile, MissingUnit, Fails, Return, Go, Contract!Deleting
<1>8. CASE ShowService
  BY <1>8 DEF ShowService, Fails, Return, Go, Contract!Deleting
<1>9. CASE ShowTimer
  BY <1>9 DEF ShowTimer, Ready, Fails, Return, Contract!Deleting
<1>10. CASE FindHalves
  BY <1>10 DEF FindHalves, Fails, Return, Contract!Deleting
<1>11. CASE Disable
  BY <1>11 DEF Disable, Fails, Return, Go, Contract!Deleting, Contract!Down
<1>12. CASE RemoveTimer
  BY <1>12 DEF RemoveTimer, RemoveUnit, Fails, Return, Go, Contract!Deleting
<1>13. CASE RemoveService
  BY <1>13 DEF RemoveService, RemoveUnit, Fails, Return, Go, Contract!Deleting
<1>14. CASE ReloadAgain
  BY <1>14 DEF ReloadAgain, Fails, Return, Contract!Deleting
<1>. QED  BY <1>1, <1>2, <1>3, <1>4, <1>5, <1>6, <1>7, <1>8, <1>9, <1>10, <1>11, <1>12, <1>13, <1>14
          DEF Work, Create, ReadUnits, Delete

LEMMA WorldKeepsContract ==
    ASSUME TaskInv, NamesInv', Next, ~Work
    PROVE  Contract!Next \/ UNCHANGED Contract!cvars
<1>. USE TaskIs, TaskBecomes, TaskStays DEF TaskInv, NamesInv, CallInv, CreateInv, ManagerInv, CreateSteps,
             Units, manager, disk, Contract!cvars, Contract!Next
<1>1. CASE Call("Create") \/ Call("Read") \/ Call("ReadForRemoval") \/ CallDelete
  BY <1>1 DEF CallDelete, Call, NoAnswer, Contract!Call, Contract!Operations, Contract!NoAnswer
<1>2. CASE TimePasses
  <2>1. ~due /\ due' = TRUE /\ UNCHANGED <<enabled, timer, unit, caller, answer>>
    BY <1>2 DEF TimePasses
  <2>2. task' = IF task = "latent" THEN "dormant" ELSE task
    BY <2>1
  <2>. QED  BY <2>1, <2>2 DEF Contract!TimePasses
<1>3. CASE TimerFires
  BY <1>3 DEF TimerFires, Contract!Fire
<1>4. CASE ServiceEnds \/ Settle
  BY <1>4 DEF ServiceEnds, Settle
<1>5. CASE Killed
  BY <1>5 DEF Killed, CutShort, NoAnswer, Contract!Cut, Contract!NoAnswer
<1>6. CASE MachineStops
  BY <1>6 DEF MachineStops, CutShort, NoAnswer, Contract!Cut, Contract!SwitchOff, Contract!GoesDown,
              Contract!Down, Contract!NoAnswer
<1>7. CASE MachineStarts
  BY <1>7 DEF MachineStarts, Started, Contract!Boot
<1>8. CASE Interfere
  BY <1>8 DEF Interfere, Contract!SwitchOff, Contract!GoesDown, Contract!Down
<1>. QED  BY <1>1, <1>2, <1>3, <1>4, <1>5, <1>6, <1>7, <1>8 DEF Next

\* The Linux backend implements what the job store relies on, whatever fails or is cut short
\* between the two files, the link and the manager (persist_task_linux.go).
THEOREM ContractIsKept == Spec => KeepsContract
<1>1. Init => Contract!Init
  BY DEF Init, Contract!Init, Contract!NoAnswer, NoAnswer, task, OnDisk, Units
<1>2. TaskInv /\ TaskInv' /\ [Next]_vars => [Contract!Next]_(Contract!cvars)
  <2>1. CASE UNCHANGED vars
    BY <2>1 DEF vars, Contract!cvars, task, OnDisk
  <2>. QED  BY <2>1, WorkKeepsContract, WorldKeepsContract DEF Contract!Next, TaskInv
<1>. QED  BY <1>1, <1>2, TaskInvariance, PTL DEF Spec, KeepsContract, Contract!Spec

\* What the Linux backend has refused for certain, or deleted, does not come back: the job
\* store may remove the payload on the strength of its answer (persist_task_linux.go:42-149).
THEOREM GoneIsGone == Spec => []Contract!GoneStaysGone
BY ContractIsKept, Contract!GoneIsGone DEF KeepsContract

\* Its trigger fires once: when the time has come and the task is not armed, nothing arms it
\* again.
THEOREM OneStart == Spec => Contract!FiresOnce
BY ContractIsKept, Contract!OneStart DEF KeepsContract

===============================================================================
