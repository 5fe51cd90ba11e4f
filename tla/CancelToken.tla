---------------------------- MODULE CancelToken ----------------------------
(***************************************************************************)
(* The cancellation token of the crate `cancel`, which every task of the   *)
(* system is stopped with, and the loop that waits on it.                  *)
(*                                                                         *)
(* A waiter goes through five points that other threads can come between:  *)
(* the loop condition, the first look at the flag, the creation of the     *)
(* Notified future, the second look, and the wait.  A guard that is        *)
(* dropped swaps the flag, and notifies if it was the first to do so.      *)
(*                                                                         *)
(* Notify is tokio's: notify_waiters wakes every Notified future created   *)
(* before the call, polled or not, and none created after it; it is        *)
(* modelled by the number of calls, which a future remembers from its      *)
(* creation.  The flag is read with Acquire and swapped with Release, so a *)
(* thread may read a value that is out of date, unless it has synchronised *)
(* with the guard: by finding its call counted.                            *)
(***************************************************************************)
EXTENDS Naturals

CONSTANTS
    Task,          \* tasks that run a loop until they are cancelled
    Guard          \* guards and clones of the token that may cancel it

VARIABLES
    is_cancelled,  \* the flag
    calls,         \* calls of notify_waiters so far
    task,          \* where each task is
    created,       \* calls that had been made when its future was created
    guard          \* where each guard is

vars == <<is_cancelled, calls, task, created, guard>>

TaskPlace == {"top", "select", "create", "recheck", "wait", "handler", "stopped"}
GuardPlace == {"held", "notify", "dropped"}

Init ==
    /\ is_cancelled = FALSE
    /\ calls = 0
    /\ task = [t \in Task |-> "top"]
    /\ created = [t \in Task |-> 0]
    /\ guard = [g \in Guard |-> "held"]

-----------------------------------------------------------------------------
Goes(t, from, to) == task[t] = from /\ task' = [task EXCEPT ![t] = to]

\* What a load of the flag may return: a thread that has not synchronised
\* with the guard may still find it unset.
Reads(synchronised) == {is_cancelled} \cup (IF synchronised THEN {} ELSE {FALSE})

\* A look at the flag: a task that finds it set stops, the other moves on.
Look(t, from, to, synchronised) ==
    /\ \E value \in Reads(synchronised) : Goes(t, from, IF value THEN "stopped" ELSE to)
    /\ UNCHANGED <<is_cancelled, calls, created, guard>>

\* while !cancel_token.is_cancelled()
LoopCondition(t) == Look(t, "top", "select", FALSE)

\* The first look of Inner::cancelled.
FirstLook(t) == Look(t, "select", "create", FALSE)

\* self.cancelled_notification.notified()
CreateNotified(t) ==
    /\ Goes(t, "create", "recheck")
    /\ created' = [created EXCEPT ![t] = calls]
    /\ UNCHANGED <<is_cancelled, calls, guard>>

\* Mutant of SecondLook: the flag is not looked at again.
NoSecondLook(t) ==
    Goes(t, "recheck", "wait") /\ UNCHANGED <<is_cancelled, calls, created, guard>>

SecondLook(t) == Look(t, "recheck", "wait", created[t] > 0)

\* notified.await returns, and with it the branch of the select.
Notified(t) ==
    /\ calls # created[t]
    /\ Goes(t, "wait", "stopped")
    /\ UNCHANGED <<is_cancelled, calls, created, guard>>

\* Another branch of the select is ready: the future is dropped, and the
\* handler runs.
OtherBranch(t) ==
    Goes(t, "wait", "handler") /\ UNCHANGED <<is_cancelled, calls, created, guard>>

HandlerReturns(t) ==
    Goes(t, "handler", "top") /\ UNCHANGED <<is_cancelled, calls, created, guard>>

TaskStep(t) ==
    \/ LoopCondition(t) \/ FirstLook(t) \/ CreateNotified(t) \/ SecondLook(t)
    \/ Notified(t) \/ HandlerReturns(t)

-----------------------------------------------------------------------------
\* Mutant of Swap: the guard that finds the flag set notifies.
SwapInverted(g) ==
    /\ guard[g] = "held"
    /\ is_cancelled' = TRUE
    /\ guard' = [guard EXCEPT ![g] = IF is_cancelled THEN "notify" ELSE "dropped"]
    /\ UNCHANGED <<calls, task, created>>

\* Mutant of Swap: a plain store, after which every guard notifies.
Store(g) ==
    /\ guard[g] = "held"
    /\ is_cancelled' = TRUE
    /\ guard' = [guard EXCEPT ![g] = "notify"]
    /\ UNCHANGED <<calls, task, created>>

Swap(g) ==
    /\ guard[g] = "held"
    /\ is_cancelled' = TRUE
    /\ guard' = [guard EXCEPT ![g] = IF is_cancelled THEN "dropped" ELSE "notify"]
    /\ UNCHANGED <<calls, task, created>>

NotifyWaiters(g) ==
    /\ guard[g] = "notify"
    /\ calls' = calls + 1
    /\ guard' = [guard EXCEPT ![g] = "dropped"]
    /\ UNCHANGED <<is_cancelled, task, created>>

Next ==
    \/ \E t \in Task : TaskStep(t) \/ OtherBranch(t)
    \/ \E g \in Guard : Swap(g) \/ NotifyWaiters(g)

Spec == Init /\ [][Next]_vars

-----------------------------------------------------------------------------
\* Every variable has its type, and notify_waiters is called at most once,
\* however many guards are dropped.
TypeOK ==
    /\ is_cancelled \in BOOLEAN
    /\ calls \in {0, 1}
    /\ task \in [Task -> TaskPlace]
    /\ created \in [Task -> {0, 1}]
    /\ guard \in [Guard -> GuardPlace]

\* No wake-up is lost: a task that waits on a cancelled token has one coming,
\* whichever steps of cancelled() the guard came between ("we are on the
\* waiter list before it becomes true"), and even if both its looks at the
\* flag were out of date.
NoLostWakeup ==
    \A t \in Task :
        task[t] = "wait" /\ is_cancelled =>
            calls # created[t] \/ \E g \in Guard : guard[g] = "notify"

=============================================================================
