-------------------------------- MODULE Grid --------------------------------
(***************************************************************************)
(* A simulated grid: masters, machines, links and switches that exchange   *)
(* TASK_ARRIVAL events.  Every step is the delivery of one event to the    *)
(* service it is addressed to (the dispatcher of simulator/rootsim.cpp).   *)
(*                                                                         *)
(* Every master has sent itself a TASK_SCHEDULER_INIT at time 0 when it    *)
(* was initialised, as the callbacks given to registerMaster do in every   *)
(* program under test/.                                                    *)
(***************************************************************************)
EXTENDS Link, Switch, Machine, Master

vars == <<engineVars, linkVars, switchVars, machineVars, masterVars>>

TypeOK ==
  EngineTypeOK /\ LinkTypeOK /\ SwitchTypeOK /\ MachineTypeOK /\ MasterTypeOK

Init ==
  /\ BuilderInit
  /\ inits = Masters
  /\ now = 0
  /\ fault = Running
  /\ LinkInit /\ SwitchInit /\ MachineInit /\ MasterInit

-----------------------------------------------------------------------------
SchedulerInit ==
  /\ \E m \in Masters : MasterOnSchedulerInit(m)
  /\ UNCHANGED <<linkVars, switchVars, machineVars>>

LinkArrival ==
  \E e \in pending :
    /\ e.to \in Links /\ Ready(e)
    /\ LinkOnTaskArrival(e.to, e)
    /\ UNCHANGED <<switchVars, machineVars, masterVars>>

SwitchArrival ==
  \E e \in pending :
    /\ e.to \in Switches /\ Ready(e)
    /\ SwitchOnTaskArrival(e.to, e)
    /\ UNCHANGED <<linkVars, machineVars, masterVars>>

MachineArrival ==
  \E e \in pending :
    /\ e.to \in Machines /\ Ready(e)
    /\ MachineOnTaskArrival(e.to, e)
    /\ UNCHANGED <<linkVars, switchVars, masterVars>>

MasterArrival ==
  \E e \in pending :
    /\ e.to \in Masters /\ Ready(e)
    /\ MasterOnTaskArrival(e.to, e)
    /\ UNCHANGED <<linkVars, switchVars, machineVars>>

(* The TASK_ARRIVAL case of the dispatcher: the service that e is addressed to
   handles it. *)
Dispatch(e) ==
  \/ /\ e.to \in Links /\ LinkOnTaskArrival(e.to, e)
     /\ UNCHANGED <<switchVars, machineVars, masterVars>>
  \/ /\ e.to \in Switches /\ SwitchOnTaskArrival(e.to, e)
     /\ UNCHANGED <<linkVars, machineVars, masterVars>>
  \/ /\ e.to \in Machines /\ MachineOnTaskArrival(e.to, e)
     /\ UNCHANGED <<linkVars, switchVars, masterVars>>
  \/ /\ e.to \in Masters /\ MasterOnTaskArrival(e.to, e)
     /\ UNCHANGED <<linkVars, switchVars, machineVars>>

Next ==
  SchedulerInit \/ LinkArrival \/ SwitchArrival \/ MachineArrival \/ MasterArrival

Spec == Init /\ [][Next]_vars

(* The simulator runs until its queue is empty (RootsimRun). *)
FairSpec == Spec /\ WF_vars(Next)
=============================================================================
