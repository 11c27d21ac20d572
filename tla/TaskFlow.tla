------------------------------ MODULE TaskFlow ------------------------------
(***************************************************************************)
(* What a grid promises to the owner of a workload, without any network:   *)
(* its tasks are drawn in order, from the last number to the first; each   *)
(* is executed once, comes back once, and makes room for the next.  So do  *)
(* the tasks that the owner has been given on top of its workload.  In the *)
(* end all of them are back.                                               *)
(***************************************************************************)
EXTENDS Naturals

CONSTANTS
  Owners,
  Total,       \* how many tasks the workload of each owner has
  Task,        \* owner -> number in 1 .. Total -> task
  Given,       \* the tasks that an owner has on top of its workload
  Window       \* how many tasks of the workload an owner begins with

VARIABLES
  begun,       \* owners that have sent their first tasks
  left,        \* tasks not drawn yet: the numbers 1 .. left
  sent,        \* tasks on their way to be executed
  executed     \* tasks on their way back

vars == <<begun, left, sent, executed>>

Tasks(o) == {Task[o][n] : n \in 1 .. Total[o]} \cup Given[o]

Init ==
  /\ begun = {}
  /\ left = Total
  /\ sent = Given
  /\ executed = [o \in Owners |-> {}]

(* The window is filled, unless there is too little left. *)
Begin(o) ==
  LET k == IF left[o] < Window[o] THEN left[o] ELSE Window[o] IN
  /\ o \notin begun
  /\ begun' = begun \cup {o}
  /\ left' = [left EXCEPT ![o] = @ - k]
  /\ sent' = [sent EXCEPT ![o] = @ \cup {Task[o][left[o] - i] : i \in 0 .. k - 1}]
  /\ UNCHANGED executed

Execute(o, task) ==
  /\ task \in sent[o]
  /\ sent' = [sent EXCEPT ![o] = @ \ {task}]
  /\ executed' = [executed EXCEPT ![o] = @ \cup {task}]
  /\ UNCHANGED <<begun, left>>

(* A task is back and the next one, if any, takes its place. *)
Return(o, task) ==
  /\ task \in executed[o]
  /\ executed' = [executed EXCEPT ![o] = @ \ {task}]
  /\ IF left[o] > 0
       THEN /\ sent' = [sent EXCEPT ![o] = @ \cup {Task[o][left[o]]}]
            /\ left' = [left EXCEPT ![o] = @ - 1]
       ELSE UNCHANGED <<sent, left>>
  /\ UNCHANGED begun

Next ==
  \E o \in Owners :
    \/ Begin(o)
    \/ \E task \in Tasks(o) : Execute(o, task) \/ Return(o, task)

(* Each owner begins, and its tasks keep moving whatever the others do. *)
Fairness ==
  \A o \in Owners :
    /\ WF_vars(Begin(o))
    /\ \A task \in Tasks(o) : WF_vars(Execute(o, task)) /\ WF_vars(Return(o, task))

(* What may be done to the tasks, and that it is done. *)
Safety == Init /\ [][Next]_vars

Spec == Safety /\ Fairness

=============================================================================
