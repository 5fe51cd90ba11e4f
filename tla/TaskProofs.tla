---------------------------- MODULE TaskProofs ----------------------------
(***************************************************************************)
(* What the tasks of a connection rely on to run and to stop: no task      *)
(* misses the cancellation of its token (CancelToken), and the tasks at    *)
(* the two ends of a connection's channels never wait for each other       *)
(* (ServerPipes).  The two modules have no variable in common; each has    *)
(* its proof, and a whole connection task (Tasks) is shown to do what both *)
(* allow.                                                                  *)
(***************************************************************************)
EXTENDS Tasks, TLAPS

-----------------------------------------------------------------------------
(***************************************************************************)
(* No wake-up of a cancellation token is lost, for any number of tasks and *)
(* of guards.                                                              *)
(*                                                                         *)
(* The property is not inductive: it says nothing of a task that is about  *)
(* to wait.  What carries it is that a task only waits on a future created *)
(* before the call of notify_waiters, and that the flag is set exactly     *)
(* when that call has been made or is being made.                          *)
(***************************************************************************)
\* The call has been made, or one guard is about to make it, if the flag is
\* set and only then.
CallFollowsFlag ==
    /\ calls = 1 => is_cancelled
    /\ \A g \in Guard : guard[g] = "notify" => is_cancelled /\ calls = 0
    /\ \A g, h \in Guard : guard[g] = "notify" /\ guard[h] = "notify" => g = h
    /\ is_cancelled => calls = 1 \/ \E g \in Guard : guard[g] = "notify"

\* Futures remember calls that were made, and those that are waited on were
\* created before the call.
CreatedBeforeCall ==
    \A t \in Task :
        /\ created[t] <= calls
        /\ task[t] = "wait" => created[t] = 0

IInv == TypeOK /\ CallFollowsFlag /\ CreatedBeforeCall

-----------------------------------------------------------------------------
\* A look at the flag moves one task and reads TRUE if it has synchronised.
LEMMA LookMoves ==
    ASSUME TypeOK, NEW t \in Task, NEW from, NEW to \in TaskPlace, NEW b \in BOOLEAN,
           Look(t, from, to, b)
    PROVE  /\ task' \in [Task -> TaskPlace]
           /\ \A u \in Task : u # t => task'[u] = task[u]
           /\ task'[t] \in {"stopped", to}
           /\ b /\ is_cancelled => task'[t] = "stopped"
           /\ UNCHANGED <<is_cancelled, calls, created, guard>>
<1>1. PICK value \in Reads(b) : Goes(t, from, IF value THEN "stopped" ELSE to)
      BY DEF Look
<1>2. value \in BOOLEAN /\ (b => value = is_cancelled)
      BY <1>1 DEF Reads, TypeOK
<1>3. /\ task' = [task EXCEPT ![t] = IF value THEN "stopped" ELSE to]
      /\ UNCHANGED <<is_cancelled, calls, created, guard>>
      BY <1>1 DEF Goes, Look
<1> QED  BY <1>2, <1>3 DEF TypeOK, TaskPlace

\* The invariant holds initially.
LEMMA TokenInit == Init => IInv
<1> SUFFICES ASSUME Init PROVE IInv
    OBVIOUS
<1>1. TypeOK
      BY DEF Init, TypeOK, TaskPlace, GuardPlace
<1>2. CallFollowsFlag
      BY DEF Init, CallFollowsFlag
<1>3. CreatedBeforeCall
  <2> SUFFICES ASSUME NEW t \in Task
               PROVE  created[t] <= calls /\ (task[t] = "wait" => created[t] = 0)
      BY DEF CreatedBeforeCall
  <2>1. calls = 0 /\ created[t] = 0 /\ task[t] = "top"
        BY DEF Init
  <2> QED  BY <2>1
<1> QED  BY <1>1, <1>2, <1>3 DEF IInv

\* A task's look at the flag keeps the invariant, unless it would take a
\* future of a later time to the wait.
LEMMA LookKeeps ==
    ASSUME IInv, NEW t \in Task, NEW from, NEW to \in TaskPlace, NEW b \in BOOLEAN,
           Look(t, from, to, b),
           to = "wait" => (b <=> created[t] > 0)
    PROVE  IInv'
<1>1. /\ task' \in [Task -> TaskPlace]
      /\ \A u \in Task : u # t => task'[u] = task[u]
      /\ task'[t] \in {"stopped", to}
      /\ b /\ is_cancelled => task'[t] = "stopped"
      /\ UNCHANGED <<is_cancelled, calls, created, guard>>
      BY LookMoves DEF IInv
<1>2. TypeOK' /\ CallFollowsFlag'
      BY <1>1 DEF IInv, TypeOK, CallFollowsFlag
<1>3. CreatedBeforeCall'
  <2> SUFFICES ASSUME NEW u \in Task
               PROVE  created'[u] <= calls' /\ (task'[u] = "wait" => created'[u] = 0)
      BY DEF CreatedBeforeCall
  <2>1. CASE u # t \/ to # "wait"
      BY <2>1, <1>1 DEF IInv, CreatedBeforeCall
  <2>2. CASE u = t /\ to = "wait"
    <3>1. created[t] \in {0, 1} /\ created[t] <= calls /\ calls \in {0, 1}
          BY DEF IInv, TypeOK, CreatedBeforeCall
    <3>2. created[t] = 1 => is_cancelled
          BY <3>1 DEF IInv, CallFollowsFlag
    <3> QED  BY <2>2, <3>1, <3>2, <1>1
  <2> QED  BY <2>1, <2>2
<1> QED  BY <1>2, <1>3 DEF IInv

\* The other steps of a task keep it.
LEMMA TaskKeeps ==
    ASSUME IInv, NEW t \in Task, TaskStep(t) \/ OtherBranch(t)
    PROVE  IInv'
<1>1. CASE LoopCondition(t)
      BY <1>1, LookKeeps DEF LoopCondition, TaskPlace
<1>2. CASE FirstLook(t)
      BY <1>2, LookKeeps DEF FirstLook, TaskPlace
<1>3. CASE SecondLook(t)
  <2>1. (created[t] > 0) \in BOOLEAN /\ "wait" \in TaskPlace
        BY DEF TaskPlace
  <2> QED  BY <1>3, <2>1, LookKeeps DEF SecondLook
<1>4. CASE CreateNotified(t)
      BY <1>4 DEF CreateNotified, Goes, IInv, TypeOK, CallFollowsFlag, CreatedBeforeCall,
                  TaskPlace
<1>5. CASE Notified(t) \/ OtherBranch(t) \/ HandlerReturns(t)
      BY <1>5 DEF Notified, OtherBranch, HandlerReturns, Goes, IInv, TypeOK,
                  CallFollowsFlag, CreatedBeforeCall, TaskPlace
<1> QED  BY <1>1, <1>2, <1>3, <1>4, <1>5 DEF TaskStep

\* The first guard to be dropped sets the flag and will notify; the others
\* change nothing.
LEMMA SwapKeeps ==
    ASSUME IInv, NEW g \in Guard, Swap(g)
    PROVE  IInv'
<1>1. TypeOK' /\ CreatedBeforeCall'
      BY DEF Swap, IInv, TypeOK, CreatedBeforeCall, GuardPlace
<1>2. CallFollowsFlag'
  <2>1. CASE is_cancelled
        BY <2>1 DEF Swap, IInv, TypeOK, CallFollowsFlag
  <2>2. CASE ~ is_cancelled
    <3>1. calls = 0 /\ \A h \in Guard : guard[h] # "notify"
          BY <2>2 DEF IInv, TypeOK, CallFollowsFlag
    <3> QED  BY <2>2, <3>1 DEF Swap, IInv, TypeOK, CallFollowsFlag
  <2> QED  BY <2>1, <2>2
<1> QED  BY <1>1, <1>2 DEF IInv

\* The call is the first.
LEMMA NotifyKeeps ==
    ASSUME IInv, NEW g \in Guard, NotifyWaiters(g)
    PROVE  IInv'
<1>1. calls = 0 /\ is_cancelled /\ calls' = 1
      BY DEF NotifyWaiters, IInv, CallFollowsFlag
<1> QED  BY <1>1 DEF NotifyWaiters, IInv, TypeOK, CallFollowsFlag, CreatedBeforeCall,
                     GuardPlace

\* Every step keeps the invariant.
LEMMA TokenStep == IInv /\ [Next]_vars => IInv'
<1> SUFFICES ASSUME IInv, [Next]_vars PROVE IInv'
    OBVIOUS
<1>1. CASE UNCHANGED vars
      BY <1>1 DEF vars, IInv, TypeOK, CallFollowsFlag, CreatedBeforeCall
<1>2. CASE Next
      BY <1>2, TaskKeeps, SwapKeeps, NotifyKeeps DEF Next
<1> QED  BY <1>1, <1>2

-----------------------------------------------------------------------------
\* The flag, the calls and the places have their types, and notify_waiters is
\* called at most once, in every reachable state.
THEOREM TokenTypeCorrect == Spec => []TypeOK
<1>1. IInv => TypeOK
      BY DEF IInv
<1> QED  BY TokenInit, TokenStep, <1>1, PTL DEF Spec

\* Inner::cancelled and Inner::cancel lose no wake-up: a task that waits on a
\* cancelled token is woken by a call made or about to be made.
THEOREM TokenLosesNoWakeup == Spec => []NoLostWakeup
<1>1. IInv => NoLostWakeup
  <2> SUFFICES ASSUME IInv, NEW t \in Task, task[t] = "wait", is_cancelled
               PROVE  calls # created[t] \/ \E g \in Guard : guard[g] = "notify"
      BY DEF NoLostWakeup
  <2> QED  BY DEF IInv, CallFollowsFlag, CreatedBeforeCall
<1> QED  BY TokenInit, TokenStep, <1>1, PTL DEF Spec

-----------------------------------------------------------------------------
(***************************************************************************)
(* No deadlock between a connection task and its session task, for every   *)
(* size of the buffers and every number of messages a handler sends that   *)
(* satisfy the assumption, and while the connection task closes, if its    *)
(* connections are few.                                                    *)
(*                                                                         *)
(* NoDeadlock is not inductive.  After a poll that finds no request, the   *)
(* session task takes no more events than leave room in their channel or   *)
(* were sent since, and runs one handler for each, besides the one it was  *)
(* in.  Only if it took them all may it have run others, and the channel   *)
(* then holds no more than was sent since the poll.  That stays so when    *)
(* the connection task returns to its loop, and when it is cancelled       *)
(* there, with more events to send and no poll in between.                 *)
(***************************************************************************)
\* A bound on the events sent since a poll that found no request.
Sent ==
    IF connection = "select" THEN MaxEvents
    ELSE IF connection = "polled" THEN 0
    ELSE IF connection = "sending" THEN MaxEvents - unsent
    ELSE MaxEvents + MaxConnections - unsent

Room == EventBufferSize - events

\* What n handlers besides the one under way can send.
Allowed(n) == MaxRequests * (n + 1)

FewHandlersSincePoll ==
    ~ RequestsDropped /\ events > Sent =>
        /\ requests + left <= Allowed(Room + Sent)
        /\ session = "polled" => requests = 0

NothingLeft == session # "sending" => left = 0

PipesInv == PipesTypeOK /\ NothingLeft /\ FewHandlersSincePoll

LEMMA AllowedGrows ==
    /\ \A n \in Nat : Allowed(n) \in Nat /\ MaxRequests <= Allowed(n)
    /\ \A n \in Nat : Allowed(n + 1) = Allowed(n) + MaxRequests
    /\ \A m, n \in Nat : m <= n => Allowed(m) <= Allowed(n)
<1>1. MaxRequests \in Nat
  BY PipesAssumption
<1>2. \A n \in Nat : Allowed(n) \in Nat /\ MaxRequests <= Allowed(n)
  BY <1>1, SMTT(30) DEF Allowed
<1>3. \A n \in Nat : Allowed(n + 1) = Allowed(n) + MaxRequests
  BY <1>1, SMTT(30) DEF Allowed
<1>4. \A m, n \in Nat : m <= n => Allowed(m) <= Allowed(n)
  BY <1>1, SMTT(30) DEF Allowed
<1> QED
  BY <1>2, <1>3, <1>4

\* The bounds, without the product of the assumption.
LEMMA Bounds ==
    /\ EventBufferSize \in Nat
    /\ RequestBufferSize \in Nat \ {0}
    /\ MaxEvents \in Nat \ {0}
    /\ MaxRequests \in Nat
    /\ MaxConnections \in Nat
    /\ MaxEvents <= EventBufferSize
BY PipesAssumption

\* What the handlers of MaxEvents events send fits the request channel.
LEMMA RequestsFit == Allowed(MaxEvents - 1) <= RequestBufferSize
<1>1. MaxRequests * MaxEvents = MaxEvents * MaxRequests
  BY PipesAssumption, SMTT(30)
<1>2. MaxEvents - 1 + 1 = MaxEvents
  BY PipesAssumption
<1> QED
  BY <1>1, <1>2, PipesAssumption DEF Allowed

\* And, if the connections are few, what the handlers of the events of their
\* ends send besides.
LEMMA GoodbyesFit ==
    FewConnections => /\ Allowed(MaxEvents + MaxConnections - 1) <= RequestBufferSize
                      /\ MaxEvents + MaxConnections <= EventBufferSize
<1> SUFFICES ASSUME FewConnections
             PROVE  Allowed(MaxEvents + MaxConnections - 1) <= RequestBufferSize
  BY DEF FewConnections
<1>1. PICK n \in Nat : n = MaxEvents + MaxConnections
  BY Bounds
<1>2. n * MaxRequests <= RequestBufferSize
  BY <1>1 DEF FewConnections
<1>3. MaxRequests * n = n * MaxRequests /\ n - 1 + 1 = n
  BY Bounds, SMTT(30)
<1>4. Allowed(n - 1) = MaxRequests * n
  BY <1>3, Zenon DEF Allowed
<1>5. Allowed(MaxEvents + MaxConnections - 1) = Allowed(n - 1)
  <2>1. MaxEvents + MaxConnections - 1 = n - 1
    BY <1>1, Bounds
  <2> QED
    BY <2>1, Zenon
<1>6. MaxRequests * n <= RequestBufferSize
  BY <1>2, <1>3, Zenon
<1> QED
  BY <1>4, <1>5, <1>6, Zenon

LEMMA Ranges ==
    /\ \A e \in 0 .. EventBufferSize : EventBufferSize - e \in Nat
    /\ \A u \in 0 .. MaxEvents : MaxEvents - u \in Nat
    /\ \A u \in 0 .. MaxConnections : MaxEvents + MaxConnections - u \in Nat
    /\ \A u \in 0 .. MaxEvents : MaxEvents + MaxConnections - u \in Nat
    /\ \A r, s \in Nat : r + s \in Nat
BY Bounds

LEMMA AllowedNow ==
    ASSUME PipesTypeOK
    PROVE  /\ Room \in Nat /\ Sent \in Nat /\ Room + Sent \in Nat
           /\ Allowed(Room + Sent) \in Nat
           /\ MaxRequests <= Allowed(Room + Sent)
<1>1. Room \in Nat /\ Sent \in Nat
  BY Bounds DEF PipesTypeOK, Room, Sent
<1>2. Room + Sent \in Nat
  BY <1>1, Ranges
<1> QED
  BY <1>1, <1>2, AllowedGrows

LEMMA InNext ==
    ASSUME PipesTypeOK'
    PROVE  Room' \in Nat /\ Sent' \in Nat /\ Room' + Sent' \in Nat
<1>1. events' \in 0 .. EventBufferSize
      /\ unsent' \in 0 .. (IF connection' = "closing" THEN MaxConnections ELSE MaxEvents)
  BY DEF PipesTypeOK
<1>2. Room' \in Nat
  BY <1>1, Ranges DEF Room
<1>3. Sent' \in Nat
  <2>1. Sent' = IF connection' = "select" THEN MaxEvents
                ELSE IF connection' = "polled" THEN 0
                ELSE IF connection' = "sending" THEN MaxEvents - unsent'
                ELSE MaxEvents + MaxConnections - unsent'
    BY Zenon DEF Sent
  <2>2. CASE connection' = "closing"
    BY <1>1, <2>1, <2>2, Ranges
  <2>3. CASE connection' # "closing"
    BY <1>1, <2>1, <2>3, Ranges, Bounds
  <2> QED
    BY <2>2, <2>3
<1> QED
  BY <1>2, <1>3, Ranges

\* What may be queued, from one state to the next.
LEMMA AllowedNext ==
    ASSUME NEW r \in Nat, NEW s \in Nat, NEW q \in Nat, NEW t \in Nat
    PROVE  /\ Allowed(q + t) \in Nat
           /\ r + s <= q + t => Allowed(r + s) <= Allowed(q + t)
           /\ q + t = r + s + 1 => Allowed(q + t) = Allowed(r + s) + MaxRequests
<1>1. r + s \in Nat /\ q + t \in Nat
  OBVIOUS
<1> QED
  BY <1>1, AllowedGrows

\* At first both channels are empty and both tasks are at the top of their loops.
LEMMA PipesInvInit == PipesInit => PipesInv
BY Bounds DEF PipesInit, PipesInv, PipesTypeOK, NothingLeft, FewHandlersSincePoll, Place, Sent

\* A step of the connection task that touches no channel, after which it may
\* have more to send.
LEMMA MoreToSend ==
    ASSUME PipesInv, PipesTypeOK', ~ RequestsDropped, NEW more \in Nat, Sent' = Sent + more,
           UNCHANGED <<events, requests, session, left>>
    PROVE  NothingLeft' /\ FewHandlersSincePoll'
<1>1. NothingLeft' /\ Room' = Room
  BY DEF PipesInv, NothingLeft, Room
<1>2. Sent \in Nat /\ Room \in Nat /\ Allowed(Room + Sent) \in Nat
  BY AllowedNow DEF PipesInv
<1>4. Sent + more \in Nat /\ Room + Sent <= Room + (Sent + more)
  BY <1>2
<1>5. Allowed(Room + Sent) <= Allowed(Room + (Sent + more))
      /\ Allowed(Room + (Sent + more)) \in Nat
  BY <1>2, <1>4, AllowedNext
<1>6. ASSUME events' > Sent'
      PROVE  /\ requests' + left' <= Allowed(Room' + Sent')
             /\ session' = "polled" => requests' = 0
  <2>1. events \in Nat /\ requests \in Nat /\ left \in Nat
    BY Bounds DEF PipesInv, PipesTypeOK
  <2>2. events > Sent
    <3>1. events > Sent + more
      BY <1>6
    <3> QED
      BY <1>2, <2>1, <3>1
  <2>3. /\ requests + left <= Allowed(Room + Sent)
        /\ session = "polled" => requests = 0
    BY <2>2 DEF PipesInv, FewHandlersSincePoll
  <2>4. requests + left <= Allowed(Room + (Sent + more))
    BY <1>2, <1>5, <2>1, <2>3
  <2> QED
    BY <1>1, <2>3, <2>4
<1> QED
  BY <1>1, <1>6 DEF FewHandlersSincePoll

\* The connection task's steps: a poll finds no request, and each event it
\* sends after that takes room from the channel.
LEMMA ConnectionKeepsInv == PipesInv /\ ConnectionStep => PipesInv'
<1> SUFFICES ASSUME PipesInv, ConnectionStep PROVE PipesInv'
  OBVIOUS
<1> USE Bounds DEF PipesTypeOK, NothingLeft, FewHandlersSincePoll, Place, RequestsDropped
<1>0. PipesTypeOK /\ NothingLeft /\ FewHandlersSincePoll
  BY DEF PipesInv
<1>1. CASE HandleRequest
  <2>1. PipesTypeOK' /\ NothingLeft'
    BY <1>0, <1>1 DEF HandleRequest
  <2>2. /\ Sent' = Sent /\ Room' = Room /\ ~ RequestsDropped
        /\ events' = events /\ left' = left /\ session' = session
        /\ requests > 0 /\ requests' = requests - 1
    BY <1>1 DEF HandleRequest, Sent, Room
  <2>3. Allowed(Room + Sent) \in Nat
    BY <1>0, AllowedNow
  <2> QED
    BY <1>0, <2>1, <2>2, <2>3 DEF PipesInv
<1>2. CASE PollRequests
  <2>1. PipesTypeOK' /\ NothingLeft'
    BY <1>0, <1>2 DEF PollRequests
  <2>2. requests' = 0 /\ left' = left /\ session' = session
    BY <1>2 DEF PollRequests
  <2>3. left <= MaxRequests /\ left \in Nat
    BY <1>0
  <2>4. Room' + Sent' \in Nat
    BY <2>1, InNext
  <2>5. Allowed(Room' + Sent') \in Nat /\ MaxRequests <= Allowed(Room' + Sent')
    BY <2>4, AllowedGrows
  <2> QED
    BY <2>1, <2>2, <2>3, <2>5 DEF PipesInv
<1>3. CASE HandleSocketOrTimer
  <2>1. PipesTypeOK'
    BY <1>0, <1>3 DEF HandleSocketOrTimer
  <2>2. PICK more \in Nat : more = Sent'
    BY <2>1, InNext
  <2>4. Sent' = Sent + more /\ ~ RequestsDropped
    BY <1>3, <2>2 DEF HandleSocketOrTimer, Sent
  <2>3. UNCHANGED <<events, requests, session, left>>
    BY <1>3 DEF HandleSocketOrTimer
  <2> QED
    BY <2>1, <2>3, <2>4, MoreToSend DEF PipesInv
<1>4. CASE SendEvent
  <2>1. Room + Sent = Room' + Sent'
    BY <1>0, <1>4 DEF SendEvent, Room, Sent
  <2>2. PipesTypeOK' /\ NothingLeft'
    BY <1>0, <1>4 DEF SendEvent
  <2>3. events' > Sent' <=> events > Sent
    BY <1>0, <1>4 DEF SendEvent, Sent
  <2>4. requests' = requests /\ left' = left /\ session' = session /\ ~ RequestsDropped
    BY <1>4 DEF SendEvent
  <2> QED
    BY <1>0, <2>1, <2>2, <2>3, <2>4 DEF PipesInv
<1>5. CASE FinishSocketOrTimer
  <2>1. PipesTypeOK'
    BY <1>0, <1>5 DEF FinishSocketOrTimer
  <2>2. Sent' = Sent + 0 /\ ~ RequestsDropped
    BY <1>5 DEF FinishSocketOrTimer, Sent
  <2>3. UNCHANGED <<events, requests, session, left>>
    BY <1>5 DEF FinishSocketOrTimer
  <2> QED
    BY <2>1, <2>2, <2>3, MoreToSend DEF PipesInv
<1>6. CASE HandleCancelled
  <2>1. PipesTypeOK'
    BY <1>0, <1>6 DEF HandleCancelled
  <2>2. PICK u \in 0 .. MaxConnections : unsent' = u
    BY <1>6 DEF HandleCancelled
  <2>3. /\ MaxConnections - u \in Nat
        /\ Sent' = Sent + (MaxConnections - u)
        /\ ~ RequestsDropped
    BY <1>6, <2>2 DEF HandleCancelled, Sent
  <2>4. UNCHANGED <<events, requests, session, left>>
    BY <1>6 DEF HandleCancelled
  <2> QED
    BY <2>1, <2>3, <2>4, MoreToSend DEF PipesInv
<1>7. CASE DropRequests
  BY <1>0, <1>7 DEF DropRequests, PipesInv
<1>8. CASE SendDropped
  BY <1>0, <1>8 DEF SendDropped, PipesInv
<1> QED
  BY <1>1, <1>2, <1>3, <1>4, <1>5, <1>6, <1>7, <1>8 DEF ConnectionStep

\* The session task's steps: taking an event makes room in the channel, and
\* finding it empty means that no more than was sent since the poll is in it.
LEMMA SessionKeepsInv == PipesInv /\ SessionStep => PipesInv'
<1> SUFFICES ASSUME PipesInv, SessionStep PROVE PipesInv'
  OBVIOUS
<1> USE Bounds DEF PipesTypeOK, NothingLeft, FewHandlersSincePoll, Place
<1>9. PipesTypeOK /\ NothingLeft /\ FewHandlersSincePoll
  BY DEF PipesInv
<1>0. /\ Room \in Nat /\ Sent \in Nat
      /\ Allowed(Room + Sent) \in Nat /\ MaxRequests <= Allowed(Room + Sent)
  BY <1>9, AllowedNow
<1>1. CASE HandleConnectionEvent
  <2>1. /\ Sent' = Sent /\ Room' = Room + 1 /\ events' = events - 1 /\ events \in Nat
        /\ RequestsDropped' = RequestsDropped
    BY <1>1, <1>9 DEF HandleConnectionEvent, Sent, Room, RequestsDropped
  <2>3. PipesTypeOK' /\ NothingLeft'
    BY <1>1, <1>9 DEF HandleConnectionEvent
  <2>2. Allowed(Room' + Sent') = Allowed(Room + Sent) + MaxRequests
    <3>1. PICK r \in Nat, t \in Nat : r = Room /\ t = Sent
      BY <1>0
    <3>3. r + 1 \in Nat /\ (r + 1) + t = r + t + 1
      OBVIOUS
    <3>4. Allowed(r + t + 1) = Allowed(r + t) + MaxRequests
      BY AllowedGrows
    <3>2. Allowed((r + 1) + t) = Allowed(r + t) + MaxRequests
      BY <3>3, <3>4, Zenon
    <3> QED
      BY <2>1, <3>1, <3>2
  <2>4. requests' = requests /\ left = 0 /\ session' = "sending" /\ left' \in 0 .. MaxRequests
    BY <1>1, <1>9 DEF HandleConnectionEvent
  <2>5. ASSUME ~ RequestsDropped', events' > Sent'
        PROVE  requests' + left' <= Allowed(Room' + Sent')
    <3>1. events > Sent /\ ~ RequestsDropped
      BY <1>0, <2>1, <2>5
    <3>2. requests + left <= Allowed(Room + Sent)
      BY <1>9, <3>1
    <3> QED
      BY <1>0, <1>9, <2>2, <2>4, <3>2
  <2> QED
    BY <2>3, <2>4, <2>5 DEF PipesInv
<1>6. CASE HandleDropped
  BY <1>6, <1>9 DEF HandleDropped, RequestsDropped, PipesInv
<1>2. CASE PollEvents
  <2>1. PipesTypeOK' /\ NothingLeft' /\ events' = 0 /\ Sent' = Sent
    BY <1>2, <1>9 DEF PollEvents, Sent
  <2> QED
    BY <1>0, <2>1 DEF PipesInv
<1>3. CASE HandleOther
  <2>1. Sent' = Sent /\ Room' = Room /\ RequestsDropped' = RequestsDropped
    BY <1>3 DEF HandleOther, Sent, Room, RequestsDropped
  <2>3. PipesTypeOK' /\ NothingLeft'
    BY <1>3, <1>9 DEF HandleOther
  <2>4. /\ requests' = requests /\ events' = events
        /\ session = "polled" /\ session' = "sending" /\ left' \in 0 .. MaxRequests
    BY <1>3 DEF HandleOther
  <2>5. ASSUME ~ RequestsDropped', events' > Sent'
        PROVE  requests' + left' <= Allowed(Room' + Sent')
    <3>1. requests = 0
      BY <1>9, <2>1, <2>4, <2>5
    <3> QED
      BY <1>0, <2>1, <2>4, <3>1
  <2> QED
    BY <2>3, <2>4, <2>5 DEF PipesInv
<1>4. CASE SendGameData
  <2>1. Sent' = Sent /\ Room' = Room /\ events' = events /\ session' = "sending"
        /\ RequestsDropped' = RequestsDropped
    BY <1>4 DEF SendGameData, Sent, Room, RequestsDropped
  <2>2. PipesTypeOK' /\ NothingLeft'
    BY <1>4, <1>9 DEF SendGameData
  <2>3. ~ RequestsDropped => requests' + left' = requests + left
    BY <1>4, <1>9 DEF SendGameData
  <2> QED
    BY <1>0, <1>9, <2>1, <2>2, <2>3 DEF PipesInv
<1>5. CASE FinishHandler
  <2>1. Sent' = Sent /\ Room' = Room /\ RequestsDropped' = RequestsDropped
    BY <1>5 DEF FinishHandler, Sent, Room, RequestsDropped
  <2> QED
    BY <1>0, <1>5, <1>9, <2>1 DEF FinishHandler, PipesInv
<1> QED
  BY <1>1, <1>2, <1>3, <1>4, <1>5, <1>6 DEF SessionStep

LEMMA PipesInvariant == PipesSpec => []PipesInv
<1>1. PipesInv /\ UNCHANGED pipesVars => PipesInv'
  BY DEF PipesInv, PipesTypeOK, NothingLeft, FewHandlersSincePoll, Sent, Room, RequestsDropped,
         pipesVars
<1>2. PipesInv /\ [PipesNext]_pipesVars => PipesInv'
  BY <1>1, ConnectionKeepsInv, SessionKeepsInv DEF PipesNext
<1> QED
  BY <1>2, PipesInvInit, PTL DEF PipesSpec

\* The channels hold no more than their buffers.
THEOREM PipesTypesCorrect == PipesSpec => []PipesTypeOK
<1>1. PipesInv => PipesTypeOK
  BY DEF PipesInv
<1> QED
  BY <1>1, PipesInvariant, PTL

\* What the session task may have sent and still send fits the channel of the
\* requests, while the connection task waits in a handler, or closes and has
\* few connections.
LEMMA RoomForRequests ==
    ASSUME PipesInv, ConnectionWaits, connection = "closing" => FewConnections
    PROVE  RequestsDropped \/ requests + left <= RequestBufferSize
<1> SUFFICES ASSUME ~ RequestsDropped PROVE requests + left <= RequestBufferSize
  OBVIOUS
<1>1. connection \in {"sending", "closing"} /\ events = EventBufferSize /\ Room = 0
  BY Bounds DEF ConnectionWaits, RequestsDropped, Room
<1>2. PICK most \in Nat : most = IF connection = "sending" THEN MaxEvents - 1
                                 ELSE MaxEvents + MaxConnections - 1
  BY Bounds
<1>3. Allowed(most) <= RequestBufferSize /\ most < EventBufferSize
  BY <1>1, <1>2, Bounds, RequestsFit, GoodbyesFit
<1>4. Sent \in Nat /\ Sent <= most
  BY <1>1, <1>2, Bounds DEF PipesInv, PipesTypeOK, ConnectionWaits, Sent
<1>5. events > Sent
  BY <1>1, <1>3, <1>4, Bounds
<1>6. requests + left <= Allowed(Sent)
  BY <1>1, <1>4, <1>5 DEF PipesInv, FewHandlersSincePoll
<1>7. Allowed(Sent) <= Allowed(most) /\ Allowed(Sent) \in Nat /\ Allowed(most) \in Nat
  BY <1>4, AllowedGrows
<1>8. requests \in Nat /\ left \in Nat
  BY Bounds DEF PipesInv, PipesTypeOK
<1> QED
  BY <1>3, <1>6, <1>7, <1>8, Bounds

\* A connection task and its session task never wait for each other in a
\* handler, and not while the connections are closed either if they are few.
LEMMA NeitherWaits ==
    PipesInv => /\ connection # "closing" => NoDeadlock
                /\ FewConnections => NoDeadlock
<1> SUFFICES ASSUME PipesInv, connection = "closing" => FewConnections PROVE NoDeadlock
  OBVIOUS
<1>1. SessionWaits => /\ ~ RequestsDropped /\ requests = RequestBufferSize
                      /\ left \in Nat /\ left > 0
  BY Bounds DEF SessionWaits, PipesInv, PipesTypeOK
<1> QED
  BY <1>1, RoomForRequests, Bounds DEF NoDeadlock

\* While the connection task runs, it and its session task never wait for
\* each other, however many connections it has.
THEOREM RunningTasksNeverDeadlock == PipesSpec => [](connection # "closing" => NoDeadlock)
<1> QED
  BY NeitherWaits, PipesInvariant, PTL

\* With few connections they do not either when the connections are closed.
THEOREM PipesNeverDeadlock == FewConnections => (PipesSpec => []NoDeadlock)
<1>1. FewConnections /\ PipesInv => NoDeadlock
  BY NeitherWaits
<1>2. SUFFICES ASSUME FewConnections PROVE PipesSpec => []NoDeadlock
  OBVIOUS
<1>3. PipesInv => NoDeadlock
  BY <1>1, <1>2
<1> QED
  BY <1>3, PipesInvariant, PTL

-----------------------------------------------------------------------------
\* Every step of a connection task, of its session task and of the others on
\* the token is one CancelToken allows and one ServerPipes allows.
LEMMA StepsAllowed == TasksNext => [Next]_vars /\ [PipesNext]_pipesVars
<1> SUFFICES ASSUME TasksNext PROVE [Next]_vars /\ [PipesNext]_pipesVars
  OBVIOUS
<1> USE TasksAssumption
<1>1. CASE ConnectionProgress
  <2>1. [Next]_vars
    BY <1>1 DEF ConnectionProgress, ChecksLoopCondition, PollsToken, CreatesNotified, TakesRequest,
                TakesSocketOrTimer, ReturnsToLoop, Sends, Next, TaskStep
  <2>2. [PipesNext]_pipesVars
    BY <1>1 DEF ConnectionProgress, ChecksLoopCondition, PollsToken, CreatesNotified, TakesRequest,
                TakesSocketOrTimer, ReturnsToLoop, Sends, StaysInLoop, PipesNext, ConnectionStep
  <2> QED
    BY <2>1, <2>2
<1>2. CASE FindsNoRequest
  BY <1>2 DEF FindsNoRequest, PipesNext, ConnectionStep
<1>3. CASE SessionTask
  BY <1>3 DEF SessionTask, PipesNext
<1>4. ASSUME NEW t \in Task, OtherTask(t) \/ (OtherBranch(t) /\ UNCHANGED pipesVars)
      PROVE  [Next]_vars /\ [PipesNext]_pipesVars
  BY <1>4 DEF OtherTask, Next
<1>5. ASSUME NEW g \in Guard, (Swap(g) \/ NotifyWaiters(g)) /\ UNCHANGED pipesVars
      PROVE  [Next]_vars /\ [PipesNext]_pipesVars
  BY <1>5 DEF Next
<1> QED
  BY <1>1, <1>2, <1>3, <1>4, <1>5 DEF TasksNext

\* A connection task whole does what its parts allow.
THEOREM TasksImplementBoth == TasksSpec => Spec /\ PipesSpec
<1>1. TasksInit => Init /\ PipesInit
  BY DEF TasksInit
<1>2. [TasksNext]_tasksVars => [Next]_vars /\ [PipesNext]_pipesVars
  BY StepsAllowed DEF tasksVars
<1> QED
  BY <1>1, <1>2, PTL DEF TasksSpec, Spec, PipesSpec

\* So no wake-up of a connection task's token is lost, whatever the channels
\* do, and no cancellation makes the two tasks wait for each other, if the
\* connections are few.
THEOREM TasksAreSafe ==
    FewConnections => (TasksSpec => [](TypeOK /\ NoLostWakeup /\ PipesTypeOK /\ NoDeadlock))
BY TasksImplementBoth, TokenTypeCorrect, TokenLosesNoWakeup, PipesTypesCorrect,
   PipesNeverDeadlock, PTL
=============================================================================
