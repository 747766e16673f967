---------------------------- MODULE TaskContract ----------------------------
(***************************************************************************)
(* What the job store relies on of a taskScheduler (persist_task.go:20-35, *)
(* as persist.go:273-284, 415-435 and 471 use it), for one task: what each *)
(* answer of Create, Read, ReadForRemoval and Delete says about the task,  *)
(* and how the task can change while one of them runs or is cut short.     *)
(***************************************************************************)
EXTENDS TLAPS

CONSTANT
    MissingMeansOff     \* whether a Read that finds no definition of the task has
                        \* shown that nothing will fire

VARIABLES
    due,        \* the scheduled time has come
    task,       \* "absent", "dormant" (it starts no child by itself), "latent"
                \* (it will be armed at the next boot) or "armed"
    calling,    \* the operation under way, or "none"
    answer      \* what the last operation that returned said

cvars == <<due, task, calling, answer>>

Operations == {"Create", "Read", "ReadForRemoval", "Delete"}
Verdicts   == {"ok", "missing", "refused", "uncertain", "error"}
NoAnswer   == [to |-> "none", is |-> "none"]

Init ==
    /\ due = FALSE
    /\ task = "absent"
    /\ calling = "none"
    /\ answer = NoAnswer

\* What may be answered.  Create: success, a definite refusal that lets register
\* remove its payload, or doubt.  Delete: success and "missing" both let remove
\* go on to the payload.
Fits(op, verdict) ==
    \/ /\ op \in {"Create", "Read"} /\ verdict = "ok"
       /\ task = "armed" \/ (task = "dormant" /\ due)
    \/ op = "ReadForRemoval" /\ verdict = "ok" /\ task # "absent"
    \/ /\ op \in {"Read", "ReadForRemoval"} /\ verdict = "missing"
       /\ MissingMeansOff => task \in {"absent", "dormant"}
    \/ op = "Create" /\ verdict = "refused" /\ task = "absent"
    \/ op = "Create" /\ verdict = "uncertain"
    \/ op = "Delete" /\ verdict \in {"ok", "missing"} /\ task = "absent"
    \/ op # "Create" /\ verdict = "error"

\* A time that comes while the task is not armed is missed.
TimePasses == /\ due' = TRUE
              /\ task' = IF task = "latent" THEN "dormant" ELSE task
              /\ UNCHANGED <<calling, answer>>

Call(op) == /\ calling = "none" /\ calling' = op /\ answer' = NoAnswer
            /\ UNCHANGED <<due, task>>

\* The last step of an operation may change the task and answer at once.
Return(op) ==
    /\ calling = op /\ calling' = "none"
    /\ \E verdict \in Verdicts :
          /\ Fits(op, verdict)'
          /\ answer' = [to |-> op, is |-> verdict]

\* An armed task that is taken down may be armed again later, if there is time.
Down == {"dormant"} \cup (IF due THEN {} ELSE {"latent"})

\* Create builds the task up, or takes back what it had built; Delete takes it
\* down, and removes it only when it is not armed.  Neither Read changes it.
Creating == \/ task' = task
            \/ /\ task # "armed"
               /\ task' \in {"absent", "dormant"} \cup (IF due THEN {} ELSE {"latent", "armed"})
Deleting == \/ task' = task
            \/ task = "armed" /\ task' \in Down
            \/ task = "latent" /\ task' \in {"dormant", "absent"}
            \/ task = "dormant" /\ task' = "absent"
Moves(op) == CASE op = "Create" -> Creating
               [] op = "Delete" -> Deleting
               [] OTHER         -> task' = task

Work == \E op \in Operations :
           /\ calling = op /\ Moves(op) /\ UNCHANGED due
           /\ Return(op) \/ UNCHANGED <<calling, answer>>

\* The trigger fires.
Fire == task = "armed" /\ due /\ task' = "dormant" /\ UNCHANGED <<due, calling, answer>>

\* The user switches the task off or removes its definition, or the machine goes
\* down; and comes up again.
GoesDown  == task # "absent" /\ task' \in {"dormant", "absent"}
                                        \cup (IF task = "armed" THEN Down ELSE {})
SwitchOff == GoesDown /\ UNCHANGED <<due, calling, answer>>
Boot == task = "latent" /\ task' = "armed" /\ UNCHANGED <<due, calling, answer>>

\* The caller goes down with it, or is killed: there is no answer.
Cut == /\ task' = task \/ GoesDown
       /\ calling' = "none" /\ answer' = NoAnswer
       /\ UNCHANGED due

Next == \/ TimePasses \/ (\E op \in Operations : Call(op)) \/ Work
        \/ Fire \/ SwitchOff \/ Boot \/ Cut

Spec == Init /\ [][Next]_cvars

-----------------------------------------------------------------------------
(* What follows from the contract. *)

\* A registration that was refused for certain and a deletion that is finished leave
\* nothing that could start a child, from then on: neither the time, nor a boot, nor the
\* user's own switches bring a task back (persist.go:275-279, 432-436 remove the payload
\* on the strength of it).
Gone == \/ answer = [to |-> "Create", is |-> "refused"]
        \/ answer.to = "Delete" /\ answer.is \in {"ok", "missing"}
GoneStaysGone == Gone => task = "absent"

\* One time, one start: a task that has fired, or that was not armed when its time came,
\* is not armed again, by whatever fails, boots or is repeated after it.
Over == due /\ task # "armed"
FiresOnce == [][Over => Over']_cvars

\* A time that has come finds nothing to be armed later, and a call forgets the last answer.
ContractInv == /\ due => task # "latent"
               /\ calling # "none" => answer = NoAnswer
               /\ GoneStaysGone

LEMMA ContractInit == Init => ContractInv
BY DEF Init, ContractInv, GoneStaysGone, Gone, NoAnswer

LEMMA ContractStep == ContractInv /\ [Next]_cvars => ContractInv' /\ (Over => Over')
<1>. SUFFICES ASSUME ContractInv, [Next]_cvars PROVE ContractInv' /\ (Over => Over')
  OBVIOUS
<1>. USE DEF ContractInv, GoneStaysGone, Gone, Over, NoAnswer, cvars
<1>1. CASE TimePasses
  BY <1>1 DEF TimePasses
<1>2. ASSUME NEW op \in Operations, Call(op) PROVE ContractInv' /\ (Over => Over')
  BY <1>2 DEF Call
<1>3. CASE Work
  <2>1. PICK op \in Operations : /\ calling = op /\ Moves(op) /\ UNCHANGED due
                                 /\ Return(op) \/ UNCHANGED <<calling, answer>>
    BY <1>3 DEF Work
  <2>2. due => task' # "latent" /\ (task # "armed" => task' # "armed")
    BY <2>1 DEF Moves, Creating, Deleting, Down
  <2>3. calling # "none"
    BY <2>1 DEF Operations
  <2>4. CASE Return(op)
    <3>1. PICK verdict \in Verdicts : Fits(op, verdict)' /\ answer' = [to |-> op, is |-> verdict]
      BY <2>4 DEF Return
    <3>2. Gone' => task' = "absent"
      BY <3>1 DEF Fits
    <3>. QED  BY <2>1, <2>2, <2>4, <3>2 DEF Return
  <2>5. CASE UNCHANGED <<calling, answer>>
    BY <2>1, <2>2, <2>3, <2>5
  <2>. QED  BY <2>1, <2>4, <2>5
<1>4. CASE Fire \/ Boot \/ UNCHANGED cvars
  BY <1>4 DEF Fire, Boot
<1>5. CASE SwitchOff
  BY <1>5 DEF SwitchOff, GoesDown, Down
<1>6. CASE Cut
  BY <1>6 DEF Cut, GoesDown, Down
<1>. QED  BY <1>1, <1>2, <1>3, <1>4, <1>5, <1>6 DEF Next

\* Any scheduler that keeps the contract leaves nothing behind what it says is gone.
THEOREM GoneIsGone == Spec => []GoneStaysGone
<1>1. ContractInv => GoneStaysGone
  BY DEF ContractInv
<1>. QED  BY <1>1, ContractInit, ContractStep, PTL DEF Spec

\* Any scheduler that keeps the contract fires at most once.
THEOREM OneStart == Spec => FiresOnce
BY ContractInit, ContractStep, PTL DEF Spec, FiresOnce

=============================================================================
