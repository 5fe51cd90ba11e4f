-------------------------------- MODULE Tasks --------------------------------
(***************************************************************************)
(* A connection task whole: the loop that waits on its cancellation token  *)
(* (CancelToken) and, in its other branches, on requests, the socket and   *)
(* timers, with bounded channels to and from the session task              *)
(* (ServerPipes).  Other tasks may wait on the same token.                 *)
(*                                                                         *)
(* The branches of the select are polled in order, the token first: what a *)
(* loop does with the channels it does past its two looks at the flag, and *)
(* a task that leaves the loop still has events to send, which take the    *)
(* session task's help.                                                    *)
(***************************************************************************)
EXTENDS CancelToken, ServerPipes

CONSTANT ConnectionTask     \* of the tasks on the token, the connection's

ASSUME TasksAssumption == ConnectionTask \in Task

tasksVars == <<vars, pipesVars>>

TasksInit == Init /\ PipesInit

-----------------------------------------------------------------------------
(* The connection task.                                                    *)

StaysInLoop == task'[ConnectionTask] # "stopped" /\ UNCHANGED pipesVars

\* A loop that ends by its condition skips handle_cancelled.
ChecksLoopCondition ==
    /\ LoopCondition(ConnectionTask)
    /\ \/ StaysInLoop
       \/ task'[ConnectionTask] = "stopped" /\ HandleCancelled /\ unsent' = 0

PollsToken ==
    /\ FirstLook(ConnectionTask) \/ SecondLook(ConnectionTask) \/ Notified(ConnectionTask)
    /\ \/ StaysInLoop
       \/ task'[ConnectionTask] = "stopped" /\ HandleCancelled

CreatesNotified == CreateNotified(ConnectionTask) /\ UNCHANGED pipesVars

TakesRequest == OtherBranch(ConnectionTask) /\ HandleRequest

FindsNoRequest == task[ConnectionTask] = "wait" /\ PollRequests /\ UNCHANGED vars

TakesSocketOrTimer == OtherBranch(ConnectionTask) /\ HandleSocketOrTimer

\* The handler of a request sends no event.
ReturnsToLoop ==
    /\ HandlerReturns(ConnectionTask)
    /\ \/ FinishSocketOrTimer
       \/ connection = "select" /\ UNCHANGED pipesVars

Sends == (SendEvent \/ DropRequests \/ SendDropped) /\ UNCHANGED vars

\* Packets and timers may fail to come: a poll of the requests that finds
\* none need not lead to anything.
ConnectionProgress ==
    \/ ChecksLoopCondition \/ PollsToken \/ CreatesNotified
    \/ TakesRequest \/ TakesSocketOrTimer \/ ReturnsToLoop \/ Sends

-----------------------------------------------------------------------------
SessionTask == SessionStep /\ UNCHANGED vars

OtherTask(t) == TaskStep(t) /\ UNCHANGED pipesVars

TasksNext ==
    \/ ConnectionProgress \/ FindsNoRequest
    \/ SessionTask
    \/ \E t \in Task \ {ConnectionTask} :
          OtherTask(t) \/ (OtherBranch(t) /\ UNCHANGED pipesVars)
    \/ \E g \in Guard : (Swap(g) \/ NotifyWaiters(g)) /\ UNCHANGED pipesVars

\* Tasks are polled, and the destructor of a guard runs to its end.  That a
\* store of the flag becomes visible is not assumed, nor that a packet comes.
Fairness ==
    /\ WF_tasksVars(ConnectionProgress)
    /\ WF_tasksVars(SessionTask)
    /\ \A t \in Task \ {ConnectionTask} : WF_tasksVars(OtherTask(t))
    /\ \A g \in Guard : WF_tasksVars(NotifyWaiters(g) /\ UNCHANGED pipesVars)

TasksSpec == TasksInit /\ [][TasksNext]_tasksVars

FairTasksSpec == TasksSpec /\ Fairness

-----------------------------------------------------------------------------
\* Every handler gets to send all it has to send, and a connection task that
\* has left its loop gets to say Dropped, and is heard.
HandlersFinish ==
    /\ connection = "sending" ~> connection = "select"
    /\ session = "sending" ~> session = "select"
    /\ connection = "closing" ~> session = "stopped"

\* A cancelled token stops every task that waits on it, the connection task
\* also when a handler of it is waiting for room in the channel.
EveryTaskStops == \A t \in Task : is_cancelled ~> task[t] = "stopped"
=============================================================================
