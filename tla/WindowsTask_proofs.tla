------------------------- MODULE WindowsTask_proofs -------------------------
(***************************************************************************)
(* Theorems about WindowsTask: its type invariant, that Read accepts the   *)
(* job's own task alone, that another's task stays, and that the backend   *)
(* implements TaskContract.                                                *)
(***************************************************************************)
EXTENDS WindowsTask, TLAPS

Known == {NoTask, Foreign, taskXML} \cup Edited

-----------------------------------------------------------------------------
(* Task definitions *)

LEMMA WantIsFunction == DOMAIN Want = Names /\ DOMAIN OSDefault = Names
  BY DEF Names, OSDefault, Want

\* The kinds of definition are told apart by "rest".
LEMMA Rests ==
    /\ NoTask.rest = "none" /\ Foreign.rest = "foreign" /\ taskXML.rest = "exact"
    /\ \A t \in Edited : t.rest \in {"changed", "exact"}
  BY DEF NoTask, Foreign, taskXML, Edited

\* No setting is called omitted.
LEMMA Settings ==
    \A t \in Known : /\ t = [rest |-> t.rest, set |-> t.set]
                     /\ DOMAIN t.set = Names /\ t.set = [n \in Names |-> t.set[n]]
                     /\ \A n \in Names : t.set[n] # "omitted"
<1> SUFFICES ASSUME NEW t \in Known
             PROVE  /\ t = [rest |-> t.rest, set |-> t.set]
                    /\ DOMAIN t.set = Names /\ t.set = [n \in Names |-> t.set[n]]
                    /\ \A n \in Names : t.set[n] # "omitted"
  OBVIOUS
<1>1. Want = [n \in Names |-> Want[n]] /\ \A n \in Names : Want[n] # "omitted"
  BY DEF Names, Want
<1> DEFINE AllChanges == UNION {Changes(n) : n \in Names}
<1>0. Edited = [rest : {"changed"}, set : {Want}] \cup [rest : {"exact"}, set : AllChanges]
  BY DEF Edited
<1>2. t.set = Want \/ t.set \in AllChanges
  <2> HIDE DEF AllChanges
  <2>1. t \in Edited => t.set = Want \/ t.set \in AllChanges
    BY <1>0
  <2> QED
    BY <2>1 DEF Known, NoTask, Foreign, taskXML
<1>3. t = [rest |-> t.rest, set |-> t.set]
  BY <1>0 DEF Known, NoTask, Foreign, taskXML
<1>4. CASE t.set = Want
  BY <1>1, <1>3, <1>4, WantIsFunction
<1>5. CASE t.set \in AllChanges
  <2>1. PICK n \in Names : t.set \in Changes(n)
    BY <1>5
  <2>2. PICK v \in {"other", "PT72H", "true"} : t.set = [Want EXCEPT ![n] = v]
    BY <2>1 DEF Changes
  <2> QED
    BY <1>1, <1>3, <2>2, WantIsFunction
<1> QED
  BY <1>2, <1>4, <1>5

\* What is exported and validated is the job's own definition, whatever is omitted.
LEMMA ValidatedIsWanted ==
    ASSUME NEW t \in Known, NEW xml \in Exports(t), validateTaskXML(xml)
    PROVE  t = taskXML
<1>1. xml.rest = t.rest
  <2>1. CASE xml = t
    BY <2>1
  <2>2. CASE xml = [t EXCEPT !.set = [n \in Names |->
                IF t.set[n] = OSDefault[n] THEN "omitted" ELSE t.set[n]]]
    BY <2>2, Settings
  <2> QED
    BY <2>1, <2>2 DEF Exports
<1>2. \A n \in Names : taskValue(xml, n) = t.set[n]
  <2> SUFFICES ASSUME NEW n \in Names PROVE taskValue(xml, n) = t.set[n]
    OBVIOUS
  <2>1. CASE xml = t
    BY <2>1, Settings DEF taskValue
  <2>2. CASE xml = [t EXCEPT !.set = [k \in Names |->
                IF t.set[k] = OSDefault[k] THEN "omitted" ELSE t.set[k]]]
    <3>1. xml.set = [k \in Names |-> IF t.set[k] = OSDefault[k] THEN "omitted" ELSE t.set[k]]
      BY <2>2, Settings
    <3>2. xml.set[n] = IF t.set[n] = OSDefault[n] THEN "omitted" ELSE t.set[n]
      BY <3>1
    <3> QED
      BY <3>2, Settings DEF taskValue
  <2> QED
    BY <2>1, <2>2 DEF Exports
<1>3. \A n \in Names : t.set[n] = Want[n]
  BY <1>2 DEF validateTaskXML
<1>4. Want = [n \in Names |-> Want[n]]
  BY DEF Names, Want
<1>5. t.set = Want
  BY <1>3, <1>4, Settings
<1> QED
  BY <1>1, <1>5, Settings DEF validateTaskXML, taskXML

\* The job's own definition is switched on; no task is not, and another's is not ours.
LEMMA OwnTask ==
    /\ taskXML # NoTask /\ taskXML # Foreign /\ NoTask # Foreign
    /\ taskXML \in Known /\ NoTask \in Known /\ Foreign \in Known
    /\ NoTask \notin Edited /\ Foreign \notin Edited
    /\ taskXML.set.Enabled = "true" /\ taskXML.set.Trigger = "true"
<1>1. taskXML.set = Want
  BY DEF taskXML
<1> QED
  BY <1>1, Rests DEF Known, Want

-----------------------------------------------------------------------------
(* The invariant *)

NamesInv ==
    /\ due \in BOOLEAN /\ up \in BOOLEAN /\ spent \in BOOLEAN /\ saved \in BOOLEAN /\ calm \in BOOLEAN
    /\ registered \in Known
    /\ step \in {"new", "idle", "run", "decode"}
    /\ caller \in {"none", "Create", "Read", "Delete"}
    /\ answer \in [to : {"none", "Create", "Read", "Delete"},
                   is : {"ok", "missing", "refused", "uncertain", "error", "none"}]

\* An operation runs while its user is signed in.
CallInv ==
    /\ step \in {"new", "idle"} => caller = "none"
    /\ step \in {"run", "decode"} => caller # "none" /\ up

\* What was missed, or has fired, was due.
SpentInv == spent => due

\* The job has no task before Create's call.
CreateInv == step = "new" \/ (caller = "Create" /\ step = "run") => registered \in {NoTask, Foreign}

\* What PowerShell's answer says of the task is so until it is read.
ReplyInv ==
    LET result == decodeTaskResponse
    IN  step = "decode" =>
          /\ caller = "Create" =>
                /\ result = "S_OK" => registered = taskXML
                /\ result \notin {"S_OK", "unknown"} => registered \in {NoTask, Foreign}
          /\ caller = "Read" /\ result = "S_OK" => reply.xml \in Exports(registered)
          /\ caller = "Delete" /\ result = "S_OK" => registered = NoTask
          /\ caller \in {"Read", "Delete"} /\ taskNotFound(result) => registered = NoTask

\* Nobody deletes a task that Read did not accept.
OwnerInv ==
    caller = "Delete" \/ answer \in {[to |-> "Read", is |-> "ok"], [to |-> "Read", is |-> "missing"]}
        => registered # Foreign

TaskInv == NamesInv /\ CallInv /\ SpentInv /\ CreateInv /\ ReplyInv /\ OwnerInv

LEMMA TaskInit == Init => TaskInv
<1> SUFFICES ASSUME Init PROVE TaskInv
  OBVIOUS
<1> USE DEF Init
<1>1. NamesInv
  BY OwnTask DEF NamesInv, NoAnswer
<1>2. CallInv /\ SpentInv /\ CreateInv /\ ReplyInv
  BY DEF CallInv, SpentInv, CreateInv, ReplyInv
<1>3. answer.to = "none"
  BY DEF NoAnswer
<1>4. OwnerInv
  BY <1>3 DEF OwnerInv
<1> QED
  BY <1>1, <1>2, <1>4 DEF TaskInv

\* An answer that is "ok", or "missing", to Read is given by Verdict.
LEMMA VerdictType ==
    ASSUME NEW op \in {"Create", "Read", "Delete"}, NEW result
    PROVE  /\ Verdict(op, result) \in {"ok", "missing", "refused", "uncertain", "error"}
           /\ op = "Create" => /\ Verdict(op, result) \in {"ok", "refused", "uncertain"}
                               /\ Verdict(op, result) = "ok" => result = "S_OK"
                               /\ Verdict(op, result) = "refused" => result \notin {"S_OK", "unknown"}
           /\ op # "Create" => /\ Verdict(op, result) \in {"ok", "missing", "error"}
                               /\ Verdict(op, result) = "missing" => taskNotFound(result)
                               /\ Verdict(op, result) = "ok" => result = "S_OK"
           /\ op = "Read" /\ Verdict(op, result) = "ok" => validateTaskXML(reply.xml)
  BY DEF Verdict, createResult

\* PowerShell's answer to a call that succeeded, or failed with hr.
LEMMA PrintsResult ==
    ASSUME NEW hr, NEW xml, Prints(hr, xml)
    PROVE  /\ decodeTaskResponse' \in {hr, "unknown"}
           /\ decodeTaskResponse' = "S_OK" => hr = "S_OK" /\ reply'.xml = xml
  BY DEF Prints, decodeTaskResponse, NoReply

LEMMA SilentResult == reply' = [NoReply EXCEPT !.failed = TRUE] => decodeTaskResponse' = "unknown"
  BY DEF decodeTaskResponse, NoReply

LEMMA PerformStep == TaskInv /\ Perform => TaskInv'
<1> SUFFICES ASSUME TaskInv, Perform PROVE TaskInv'
  OBVIOUS
<1> USE DEF TaskInv
<1>0. /\ step = "run" /\ step' = "decode" /\ UNCHANGED <<due, up, saved, caller, answer, calm>>
  BY DEF Perform
<1>1. up /\ caller \in {"Create", "Read", "Delete"}
  BY <1>0 DEF CallInv, NamesInv
<1>2. ReplyInv' /\ registered' \in Known /\ spent' \in BOOLEAN /\ SpentInv'
        /\ (caller = "Delete" \/ caller = "Read" => registered' \in {registered, NoTask})
  <2> DEFINE Same == UNCHANGED <<registered, spent>>
  <2>a. ASSUME Same, decodeTaskResponse' = "unknown"
        PROVE  ReplyInv'
    BY <2>a DEF ReplyInv, taskNotFound, NotFound
  <2>b. Same => registered' \in Known /\ spent' \in BOOLEAN /\ SpentInv'
    BY <1>0 DEF NamesInv, SpentInv
  <2>1. CASE /\ caller = "Create" /\ registered = NoTask
             /\ registered' = taskXML /\ spent' = due /\ Prints("S_OK", NoTask)
    BY <1>0, <2>1, PrintsResult, OwnTask DEF ReplyInv, SpentInv, NamesInv
  <2>2. CASE caller = "Create" /\ registered # NoTask /\ Prints("ERROR_ALREADY_EXISTS", NoTask) /\ Same
    BY <1>0, <2>2, <2>b, PrintsResult DEF ReplyInv, CreateInv
  <2>3. CASE caller = "Read" /\ registered # NoTask
             /\ (\E xml \in Exports(registered) : Prints("S_OK", xml)) /\ Same
    <3>1. PICK xml \in Exports(registered) : Prints("S_OK", xml)
      BY <2>3
    <3>2. \/ decodeTaskResponse' \in {"S_OK", "unknown"} /\ reply'.xml \in Exports(registered)
          \/ decodeTaskResponse' = "unknown"
      BY <3>1, PrintsResult
    <3>3. Exports(registered)' = Exports(registered)
      BY <2>3 DEF Exports
    <3> QED
      BY <1>0, <2>3, <2>b, <3>2, <3>3 DEF ReplyInv, taskNotFound, NotFound
  <2>4. CASE /\ caller = "Delete" /\ registered # NoTask
             /\ registered' = NoTask /\ spent' = FALSE /\ Prints("S_OK", NoTask)
    BY <1>0, <2>4, PrintsResult, OwnTask DEF ReplyInv, SpentInv, NamesInv
  <2>5. CASE caller # "Create" /\ registered = NoTask /\ (\E hr \in NotFound : Prints(hr, NoTask)) /\ Same
    <3>1. decodeTaskResponse' # "S_OK"
      BY <2>5, PrintsResult DEF NotFound
    <3> QED
      BY <1>0, <1>1, <2>5, <2>b, <3>1 DEF ReplyInv
  <2>6. CASE Prints("E_ACCESSDENIED", NoTask) /\ Same
    <3>1. decodeTaskResponse' \in {"E_ACCESSDENIED", "unknown"}
      BY <2>6, PrintsResult
    <3> QED
      BY <1>0, <2>6, <2>b, <3>1 DEF ReplyInv, CreateInv, taskNotFound, NotFound
  <2>7. CASE reply' = [NoReply EXCEPT !.failed = TRUE] /\ Same
    BY <2>7, <2>a, <2>b, SilentResult
  <2> QED
    BY <2>1, <2>2, <2>3, <2>4, <2>5, <2>6, <2>7 DEF Perform
<1>3. NamesInv' /\ CallInv' /\ CreateInv'
  BY <1>0, <1>1, <1>2 DEF NamesInv, CallInv, CreateInv
<1>4. OwnerInv'
  <2>1. answer' \notin {[to |-> "Read", is |-> "ok"], [to |-> "Read", is |-> "missing"]}
          \/ registered # Foreign
    BY <1>0 DEF OwnerInv
  <2>2. caller = "Create" /\ registered' = Foreign => registered = Foreign
    BY OwnTask DEF Perform
  <2> QED
    BY <1>0, <1>1, <1>2, <2>1, <2>2, OwnTask DEF OwnerInv
<1> QED
  BY <1>2, <1>3, <1>4

\* Read says "ok" of the job's own definition alone, and "missing" of none.
LEMMA ReadIsTrue ==
    ASSUME TaskInv, step = "decode", caller = "Read"
    PROVE  /\ Verdict(caller, decodeTaskResponse) = "ok" => registered = taskXML
           /\ Verdict(caller, decodeTaskResponse) = "missing" => registered = NoTask
<1>1. Verdict(caller, decodeTaskResponse) = "ok" =>
          decodeTaskResponse = "S_OK" /\ validateTaskXML(reply.xml)
  BY VerdictType
<1>2. Verdict(caller, decodeTaskResponse) = "missing" => taskNotFound(decodeTaskResponse)
  BY VerdictType
<1>3. decodeTaskResponse = "S_OK" => reply.xml \in Exports(registered)
  BY DEF TaskInv, ReplyInv
<1>4. taskNotFound(decodeTaskResponse) => registered = NoTask
  BY DEF TaskInv, ReplyInv
<1> QED
  BY <1>1, <1>2, <1>3, <1>4, ValidatedIsWanted DEF TaskInv, NamesInv

LEMMA TaskStep == TaskInv /\ [Next]_vars => TaskInv'
<1> SUFFICES ASSUME TaskInv, [Next]_vars PROVE TaskInv'
  OBVIOUS
<1>0. NamesInv /\ CallInv /\ SpentInv /\ CreateInv /\ ReplyInv /\ OwnerInv
  BY DEF TaskInv
<1>1. ASSUME NEW op \in {"Create", "Read", "Delete"}, Call(op),
             op = "Delete" => answer \in {[to |-> "Read", is |-> "ok"], [to |-> "Read", is |-> "missing"]}
      PROVE  TaskInv'
  <2>1. /\ step' = "run" /\ caller' = op /\ answer' = NoAnswer /\ up
        /\ step = IF op = "Create" THEN "new" ELSE "idle"
        /\ UNCHANGED <<due, up, registered, spent, saved, calm>>
    BY <1>1 DEF Call
  <2>2. NamesInv' /\ CallInv' /\ SpentInv' /\ CreateInv' /\ ReplyInv'
    BY <1>0, <2>1 DEF NamesInv, CallInv, SpentInv, CreateInv, ReplyInv, NoAnswer
  <2>3. answer'.to = "none"
    BY <2>1 DEF NoAnswer
  <2>4. OwnerInv'
    BY <1>0, <1>1, <2>1, <2>3 DEF OwnerInv
  <2> QED
    BY <2>2, <2>4 DEF TaskInv
<1>2. CASE CallDelete
  <2>1. answer \in {[to |-> "Read", is |-> "ok"], [to |-> "Read", is |-> "missing"]}
    BY <1>0, <1>2 DEF CallDelete, NamesInv
  <2> QED
    BY <1>1, <1>2, <2>1 DEF CallDelete
<1>3. CASE Perform
  BY <1>3, PerformStep
<1>4. CASE Return
  <2>1. /\ step = "decode" /\ step' = "idle" /\ caller' = "none"
        /\ answer' = [to |-> caller, is |-> Verdict(caller, decodeTaskResponse)]
        /\ saved' \in BOOLEAN /\ UNCHANGED <<due, up, registered, spent, reply, calm>>
    BY <1>4, <1>0 DEF Return, NamesInv
  <2>2. caller \in {"Create", "Read", "Delete"}
    BY <1>0, <2>1 DEF NamesInv, CallInv
  <2>3. NamesInv' /\ CallInv' /\ SpentInv' /\ CreateInv' /\ ReplyInv'
    BY <1>0, <2>1, <2>2, VerdictType DEF NamesInv, CallInv, SpentInv, CreateInv, ReplyInv
  <2>4. OwnerInv'
    BY <2>1, <2>2, ReadIsTrue, OwnTask DEF OwnerInv
  <2> QED
    BY <2>3, <2>4 DEF TaskInv
<1>5. CASE TimePasses \/ Fires \/ SignIn \/ Settle \/ UNCHANGED vars
  <2>1. UNCHANGED <<registered, step, caller, answer, reply>>
    BY <1>5 DEF TimePasses, Fires, SignIn, Settle, callVars, vars
  <2>2. UNCHANGED decodeTaskResponse /\ Exports(registered)' = Exports(registered)
    BY <2>1 DEF decodeTaskResponse, Exports
  <2>3. NamesInv' /\ CallInv' /\ SpentInv'
    <3>1. CASE TimePasses
      BY <1>0, <3>1 DEF NamesInv, CallInv, SpentInv, TimePasses, callVars
    <3>2. CASE Fires
      BY <1>0, <3>2 DEF NamesInv, CallInv, SpentInv, Fires, callVars
    <3>3. CASE SignIn
      BY <1>0, <3>3 DEF NamesInv, CallInv, SpentInv, SignIn, callVars
    <3>5. CASE Settle
      BY <1>0, <3>5 DEF NamesInv, CallInv, SpentInv, Settle, callVars
    <3>4. CASE UNCHANGED vars
      BY <1>0, <3>4 DEF NamesInv, CallInv, SpentInv, callVars, vars
    <3> QED
      BY <1>5, <3>1, <3>2, <3>3, <3>4, <3>5
  <2>4. CreateInv' /\ ReplyInv' /\ OwnerInv'
    BY <1>0, <2>1, <2>2 DEF CreateInv, ReplyInv, OwnerInv
  <2> QED
    BY <2>3, <2>4 DEF TaskInv
<1>6. CASE Killed \/ SignOut
  <2>1. /\ step' = (IF step = "new" THEN "new" ELSE "idle") /\ caller' = "none" /\ answer' = NoAnswer
        /\ UNCHANGED <<due, registered, saved, calm>>
    BY <1>6 DEF Killed, SignOut, CutShort
  <2>2. up' \in BOOLEAN /\ spent' \in BOOLEAN /\ SpentInv'
    <3>1. CASE Killed
      BY <1>0, <3>1 DEF NamesInv, SpentInv, Killed
    <3>2. CASE SignOut
      <4>1. up' = FALSE /\ due' = due /\ spent' = (spent \/ (due /\ registered # NoTask))
        BY <3>2 DEF SignOut
      <4> QED
        BY <1>0, <4>1 DEF NamesInv, SpentInv
    <3> QED
      BY <1>6, <3>1, <3>2
  <2>3. NamesInv' /\ CallInv' /\ CreateInv' /\ ReplyInv'
    BY <1>0, <2>1, <2>2 DEF NamesInv, CallInv, CreateInv, ReplyInv, NoAnswer
  <2>4. answer'.to = "none"
    BY <2>1 DEF NoAnswer
  <2>5. OwnerInv'
    BY <2>1, <2>4 DEF OwnerInv
  <2> QED
    BY <2>2, <2>3, <2>5 DEF TaskInv
<1>7. CASE Interfere
  <2>1. /\ step = "idle" /\ registered' \in Edited \cup {NoTask}
        /\ spent' = (spent /\ registered' # NoTask) /\ UNCHANGED <<due, up, saved, step, caller, answer, calm>>
    BY <1>7 DEF Interfere, callVars
  <2>2. registered' \in Known /\ registered' # Foreign
    BY <2>1, OwnTask DEF Known
  <2>3. NamesInv' /\ CallInv' /\ SpentInv' /\ CreateInv' /\ ReplyInv' /\ OwnerInv'
    BY <1>0, <2>1, <2>2 DEF NamesInv, CallInv, SpentInv, CreateInv, ReplyInv, OwnerInv
  <2> QED
    BY <2>3 DEF TaskInv
<1>8. ASSUME Call("Create") \/ Call("Read") PROVE TaskInv'
  BY <1>1, <1>8
<1> QED
  BY <1>2, <1>3, <1>4, <1>5, <1>6, <1>7, <1>8 DEF Next, Work

LEMMA TaskInvariance == Spec => []TaskInv
  BY TaskInit, TaskStep, PTL DEF Spec

\* Every variable keeps within its values (WindowsTask.TypeOK).
THEOREM TypeCorrect == Spec => []TypeOK
<1>1. TaskInv => TypeOK
  BY DEF TaskInv, NamesInv, Known, TypeOK
<1> QED
  BY <1>1, TaskInvariance, PTL

-----------------------------------------------------------------------------
(* What Read accepts, and what Delete leaves *)

\* Read accepts no task but the job's own, unchanged, whichever of its values the
\* export leaves out (WindowsTask.AcceptedIsWanted; persist_task.go:83-95, 178-191).
THEOREM OwnIsAccepted == Spec => AcceptedIsWanted
<1> DEFINE Accepts == (answer' = [to |-> "Read", is |-> "ok"] /\ answer' # answer) => (registered = taskXML)
<1>1. TaskInv /\ [Next]_vars => [Accepts]_vars
  <2> SUFFICES ASSUME TaskInv, Next, answer' = [to |-> "Read", is |-> "ok"], answer' # answer
               PROVE  registered = taskXML
    OBVIOUS
  <2>1. answer'.to = "Read" /\ answer'.is = "ok" /\ NoAnswer.to = "none"
    BY DEF NoAnswer
  <2>2. answer' # NoAnswer
    BY <2>1
  <2>3. Return
    BY <2>2 DEF Next, Work, Call, CallDelete, Perform, TimePasses, Fires, Killed, SignOut, SignIn,
           Interfere, Settle, CutShort, callVars
  <2>4. step = "decode" /\ answer' = [to |-> caller, is |-> Verdict(caller, decodeTaskResponse)]
    BY <2>3 DEF Return
  <2>5. caller = "Read" /\ Verdict(caller, decodeTaskResponse) = "ok"
    BY <2>1, <2>4
  <2> QED
    BY <2>4, <2>5, ReadIsTrue
<1> QED
  BY <1>1, TaskInvariance, PTL DEF Spec, AcceptedIsWanted

\* A task of this name that is another's stays, although Delete deletes by name
\* (WindowsTask.OthersKept; persist_task_windows.go:75-92).
THEOREM OthersAreKept == Spec => OthersKept
<1> DEFINE Keeps == (registered.rest = "foreign") => UNCHANGED registered
<1>1. TaskInv /\ [Next]_vars => [Keeps]_vars
  <2> SUFFICES ASSUME TaskInv, Next, registered.rest = "foreign" PROVE UNCHANGED registered
    OBVIOUS
  <2>1. registered # NoTask /\ registered # taskXML
    BY Rests
  <2>2. caller # "Delete"
    <3>1. registered \notin Edited
      BY Rests
    <3>2. registered = Foreign
      BY <2>1, <3>1 DEF TaskInv, NamesInv, Known
    <3> QED
      BY <3>2 DEF TaskInv, OwnerInv
  <2> QED
    BY <2>1, <2>2 DEF Next, Work, Call, CallDelete, Perform, Return, TimePasses, Fires, Killed, SignOut,
           SignIn, Interfere, Settle, callVars
<1> QED
  BY <1>1, TaskInvariance, PTL DEF Spec, OthersKept

-----------------------------------------------------------------------------
(* The contract of a backend *)

\* The task of the contract, case by case.
LEMMA TaskIs ==
    ASSUME NamesInv
    PROVE  /\ registered \in {NoTask, Foreign} => task = "absent"
           /\ registered \notin {NoTask, Foreign} /\ (spent \/ ~Enabled) => task = "dormant"
           /\ registered \notin {NoTask, Foreign} /\ ~spent /\ Enabled => task = IF up THEN "armed" ELSE "latent"
           /\ registered = taskXML => Enabled
  BY Rests, OwnTask DEF NamesInv, Known, task, Ours, Enabled

LEMMA TaskBecomes ==
    ASSUME NamesInv'
    PROVE  /\ registered' \in {NoTask, Foreign} => task' = "absent"
           /\ registered' \notin {NoTask, Foreign} /\ (spent' \/ ~Enabled') => task' = "dormant"
           /\ registered' \notin {NoTask, Foreign} /\ ~spent' /\ Enabled' =>
                 task' = IF up' THEN "armed" ELSE "latent"
           /\ registered' = taskXML => Enabled'
  BY Rests, OwnTask DEF NamesInv, Known, task, Ours, Enabled

LEMMA TaskStays == UNCHANGED <<up, registered, spent>> => task' = task
  BY DEF task, Ours, Enabled

\* PowerShell's call is one of the contract's steps, or changes nothing it sees.
LEMMA PerformKeepsContract ==
    ASSUME TaskInv, NamesInv', Perform
    PROVE  Contract!Work \/ Contract!SwitchOff \/ UNCHANGED Contract!cvars
<1>0. /\ step = "run" /\ UNCHANGED <<due, up, saved, caller, answer, calm>>
  BY DEF Perform
<1>1. CASE UNCHANGED <<registered, spent>>
  BY <1>0, <1>1, TaskStays DEF Contract!cvars
<1>2. CASE caller = "Create" /\ registered = NoTask /\ registered' = taskXML /\ spent' = due
  <2>1. up /\ task = "absent" /\ task' = IF due THEN "dormant" ELSE "armed"
    BY <1>0, <1>2, TaskIs, TaskBecomes, OwnTask DEF TaskInv, CallInv
  <2> QED
    BY <1>0, <1>2, <2>1 DEF Contract!Work, Contract!Operations, Contract!Moves, Contract!Creating
<1>3. CASE caller = "Delete" /\ registered # NoTask /\ registered' = NoTask
  <2>1. registered # Foreign /\ up
    BY <1>0, <1>3 DEF TaskInv, OwnerInv, CallInv
  <2>2. task \in {"armed", "dormant"} /\ task' = "absent"
    BY <1>0, <1>3, <2>1, TaskIs, TaskBecomes DEF TaskInv
  <2> QED
    BY <1>0, <2>2 DEF Contract!SwitchOff, Contract!GoesDown
<1> QED
  BY <1>1, <1>2, <1>3 DEF Perform

\* What an operation answers fits the task.
LEMMA ReturnKeepsContract ==
    ASSUME TaskInv, NamesInv', Return
    PROVE  Contract!Work
<1> PICK op, verdict : op = caller /\ verdict = Verdict(caller, decodeTaskResponse)
  OBVIOUS
<1>0. /\ step = "decode" /\ caller' = "none" /\ answer' = [to |-> op, is |-> verdict]
      /\ UNCHANGED <<due, up, registered, spent>> /\ task' = task
  BY TaskStays DEF Return
<1>1. op \in {"Create", "Read", "Delete"} /\ up
  BY <1>0 DEF TaskInv, CallInv, NamesInv
<1>2. registered = taskXML => task = "armed" \/ (task = "dormant" /\ due)
  BY <1>1, TaskIs, OwnTask DEF TaskInv, SpentInv
<1>3. registered \in {NoTask, Foreign} => task = "absent"
  BY TaskIs DEF TaskInv
<1>4. verdict \in Contract!Verdicts
  BY <1>1, VerdictType DEF Contract!Verdicts
<1>5. Contract!Fits(op, verdict)'
  <2>1. CASE op = "Create"
    <3>1. \/ verdict = "ok" /\ registered = taskXML
          \/ verdict = "refused" /\ registered \in {NoTask, Foreign}
          \/ verdict = "uncertain"
      BY <1>0, <1>1, <2>1, VerdictType DEF TaskInv, ReplyInv
    <3> QED
      BY <1>0, <1>2, <1>3, <2>1, <3>1 DEF Contract!Fits
  <2>2. CASE op = "Read"
    <3>1. \/ verdict = "ok" /\ registered = taskXML
          \/ verdict = "missing" /\ registered = NoTask
          \/ verdict = "error"
      BY <1>0, <1>1, <2>2, VerdictType, ReadIsTrue
    <3> QED
      BY <1>0, <1>2, <1>3, <2>2, <3>1 DEF Contract!Fits
  <2>3. CASE op = "Delete"
    <3>1. (verdict \in {"ok", "missing"} /\ registered = NoTask) \/ verdict = "error"
      BY <1>0, <1>1, <2>3, VerdictType DEF TaskInv, ReplyInv
    <3> QED
      BY <1>0, <1>3, <2>3, <3>1 DEF Contract!Fits
  <2> QED
    BY <1>1, <2>1, <2>2, <2>3
<1>6. Contract!Return(op)
  BY <1>0, <1>4, <1>5 DEF Contract!Return
<1>7. Contract!Moves(op)
  BY <1>0 DEF Contract!Moves, Contract!Creating, Contract!Deleting
<1> QED
  BY <1>0, <1>1, <1>6, <1>7 DEF Contract!Work, Contract!Operations

LEMMA WorldKeepsContract ==
    ASSUME TaskInv, NamesInv', Next, ~Work
    PROVE  Contract!Next \/ UNCHANGED Contract!cvars
<1>0. NamesInv /\ CallInv /\ SpentInv
  BY DEF TaskInv
<1>1. CASE Call("Create") \/ Call("Read") \/ CallDelete
  <2>1. PICK op \in {"Create", "Read", "Delete"} : Call(op)
    BY <1>1 DEF CallDelete
  <2>2. caller = "none"
    BY <1>0, <2>1 DEF Call, CallInv
  <2> QED
    BY <2>1, <2>2, TaskStays DEF Call, NoAnswer, Contract!Next, Contract!Call, Contract!Operations,
       Contract!NoAnswer
<1>2. CASE TimePasses
  <2>1. /\ ~due /\ due' = TRUE /\ spent' = (spent \/ (registered # NoTask /\ ~up))
        /\ UNCHANGED <<up, registered, caller, answer>>
    BY <1>2 DEF TimePasses, callVars
  <2>2. Enabled' = Enabled
    BY <2>1 DEF Enabled
  <2>3. CASE registered \in {NoTask, Foreign}
    <3>1. task = "absent" /\ task' = "absent"
      BY <1>0, <2>1, <2>3, TaskIs, TaskBecomes
    <3> QED
      BY <2>1, <3>1 DEF Contract!Next, Contract!TimePasses
  <2>4. CASE registered \notin {NoTask, Foreign} /\ (spent \/ ~Enabled)
    <3>1. spent' \/ ~Enabled'
      BY <2>1, <2>2, <2>4
    <3>2. task = "dormant" /\ task' = "dormant"
      BY <1>0, <2>1, <2>4, <3>1, TaskIs, TaskBecomes
    <3> QED
      BY <2>1, <3>2 DEF Contract!Next, Contract!TimePasses
  <2>5. CASE registered \notin {NoTask, Foreign} /\ ~spent /\ Enabled
    <3>1. spent' = ~up
      BY <1>0, <2>1, <2>5 DEF NamesInv
    <3>2. /\ task = IF up THEN "armed" ELSE "latent"
          /\ task' = IF up THEN "armed" ELSE "dormant"
      BY <1>0, <2>1, <2>2, <2>5, <3>1, TaskIs, TaskBecomes
    <3> QED
      BY <2>1, <3>2 DEF Contract!Next, Contract!TimePasses
  <2> QED
    BY <2>3, <2>4, <2>5
<1>3. CASE Fires
  <2>1. /\ due /\ up /\ ~spent /\ spent' /\ registered \notin {NoTask, Foreign}
        /\ UNCHANGED <<due, up, registered, caller, answer>>
    BY <1>3, Rests DEF Fires, callVars
  <2>2. task' = "dormant" /\ task \in {"armed", "dormant"}
    BY <1>0, <2>1, TaskIs, TaskBecomes
  <2> QED
    BY <2>1, <2>2 DEF Contract!Next, Contract!Fire, Contract!cvars
<1>4. CASE Killed
  BY <1>4, TaskStays DEF Killed, CutShort, NoAnswer, Contract!Next, Contract!Cut, Contract!NoAnswer
<1>5. CASE SignOut
  <2>1. /\ up /\ ~up' /\ spent' = (spent \/ (due /\ registered # NoTask))
        /\ caller' = "none" /\ answer' = NoAnswer /\ UNCHANGED <<due, registered>>
    BY <1>5 DEF SignOut, CutShort
  <2>2. Enabled' = Enabled
    BY <2>1 DEF Enabled
  <2>3. \/ task' = task
        \/ task = "armed" /\ task' = IF due THEN "dormant" ELSE "latent"
    BY <1>0, <2>1, <2>2, TaskIs, TaskBecomes DEF NamesInv
  <2> QED
    BY <2>1, <2>3 DEF NoAnswer, Contract!Next, Contract!Cut, Contract!GoesDown, Contract!Down,
       Contract!NoAnswer
<1>6. CASE SignIn
  <2>1. ~up /\ up' /\ UNCHANGED <<due, registered, spent, caller, answer>>
    BY <1>6 DEF SignIn, callVars
  <2>2. Enabled' = Enabled
    BY <2>1 DEF Enabled
  <2>3. task' = task \/ (task = "latent" /\ task' = "armed")
    BY <1>0, <2>1, <2>2, TaskIs, TaskBecomes
  <2> QED
    BY <2>1, <2>3 DEF Contract!Next, Contract!Boot, Contract!cvars
<1>7. CASE Interfere
  <2>1. /\ registered = taskXML /\ registered' \in Edited \cup {NoTask}
        /\ spent' = (spent /\ registered' # NoTask) /\ UNCHANGED <<due, up, caller, answer>>
    BY <1>7 DEF Interfere, callVars
  <2>2. task # "absent"
    BY <1>0, <2>1, TaskIs, OwnTask
  <2>3. task' = task \/ task' \in {"dormant", "absent"}
    BY <1>0, <2>1, TaskIs, TaskBecomes, OwnTask DEF NamesInv
  <2> QED
    BY <2>1, <2>2, <2>3 DEF Contract!Next, Contract!SwitchOff, Contract!GoesDown, Contract!cvars
<1>8. CASE Settle
  BY <1>8, TaskStays DEF Settle, callVars, Contract!cvars
<1> QED
  BY <1>1, <1>2, <1>3, <1>4, <1>5, <1>6, <1>7, <1>8 DEF Next

\* However PowerShell breaks off, the Windows backend implements what the job store relies on
\* (WindowsTask.KeepsContract; persist_task_windows.go:64-107, 146-166).
THEOREM ContractIsKept == Spec => KeepsContract
<1>1. Init => Contract!Init
  BY Rests DEF Init, NoAnswer, task, Ours, Contract!Init, Contract!NoAnswer
<1>2. TaskInv /\ TaskInv' /\ [Next]_vars => [Contract!Next]_(Contract!cvars)
  <2> SUFFICES ASSUME TaskInv, TaskInv', [Next]_vars PROVE [Contract!Next]_(Contract!cvars)
    OBVIOUS
  <2>1. CASE UNCHANGED vars
    BY <2>1, TaskStays DEF vars, callVars, Contract!cvars
  <2>2. CASE Work
    BY <2>2, PerformKeepsContract, ReturnKeepsContract DEF Work, TaskInv, Contract!Next
  <2>3. CASE Next /\ ~Work
    BY <2>3, WorldKeepsContract DEF TaskInv
  <2> QED
    BY <2>1, <2>2, <2>3
<1> QED
  BY <1>1, <1>2, TaskInvariance, PTL DEF Spec, KeepsContract, Contract!Spec

\* What the Windows backend has refused for certain, or deleted, does not come back: the job
\* store may remove the payload on the strength of its answer (persist_task_windows.go:64-107).
THEOREM GoneIsGone == Spec => []Contract!GoneStaysGone
BY ContractIsKept, Contract!GoneIsGone DEF KeepsContract

\* Its trigger fires once: when the time has come and the task is not armed, nothing arms it
\* again.
THEOREM OneStart == Spec => Contract!FiresOnce
BY ContractIsKept, Contract!OneStart DEF KeepsContract

=============================================================================
