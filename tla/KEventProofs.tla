---------------------------- MODULE KEventProofs ----------------------------
(***************************************************************************)
(* Events, for any number of threads and any timeouts: the mutex excludes, *)
(* no wake-up is lost, and kevent_t keeps the promise of module Event.     *)
(***************************************************************************)
EXTENDS KEvent, TLAPS

WaiterPc == {"idle", "enter", "test", "asleep", "relock", "out"}
SetterPc == {"idle", "signal", "set", "broadcast", "clear", "unset", "unlock"}

(* Where the two kinds of thread can be.                                   *)
RolesOK ==
  /\ \A w \in Waiters : pc[w] \in WaiterPc
  /\ \A t \in Setters : pc[t] \in SetterPc

(* What is known of a wait: its timeout is one that was asked for, only a  *)
(* wait that is about to end has expired, and the deadline that            *)
(* pthread_cond_timedwait() was given is no earlier than the call and the  *)
(* timeout together.                                                       *)
WaitOK(w) ==
  /\ started[w] <= now
  /\ nanosecs[w] \in Nanosecs \cup {-1}
  /\ pc[w] = "idle" => nanosecs[w] = -1 /\ started[w] = 0
  /\ pc[w] # "idle" => nanosecs[w] \in Nanosecs
  /\ expired[w] => pc[w] \in {"relock", "out"}
  /\ (pc[w] = "asleep" /\ nanosecs[w] # -1) =>
       TimeOf(ts[w]) >= started[w] + nanosecs[w]

WaitsOK == \A w \in Waiters : WaitOK(w)

(* EventTypeOK is inductive with RolesOK alone; the promise needs WaitsOK  *)
(* as well.                                                                *)
EventInv == EventTypeOK /\ RolesOK /\ WaitsOK /\ NoLostWakeup

(* nanosecs_to_timespec() loses nothing: the deadline is the time of the   *)
(* call and the timeout together, carried into the seconds or not, and a   *)
(* timespec that pthread_cond_timedwait() accepts.                         *)
LEMMA DeadlineExact ==
  ASSUME NEW t \in Nat, NEW n \in Nat
  PROVE  /\ NanosecsToTimespec(t, n) \in Timespec
         /\ NanosecsToTimespec(t, n).nsec < NsPerSec
         /\ TimeOf(NanosecsToTimespec(t, n)) = t + n
<1> DEFINE q == t \div NsPerSec
           r == t % NsPerSec
           a == n \div NsPerSec
           b == n % NsPerSec
<1>1. NsPerSec \in Nat \ {0}
  BY KEventAssumption
<1>2. q \in Nat /\ a \in Nat /\ r \in 0 .. NsPerSec - 1 /\ b \in 0 .. NsPerSec - 1
  BY <1>1
<1>3. t = q * NsPerSec + r /\ n = a * NsPerSec + b
  BY <1>1
<1> HIDE DEF q, r, a, b
<1>4. /\ (q + a) * NsPerSec + (r + b) = t + n
      /\ (q + a + 1) * NsPerSec + (r + b - NsPerSec) = t + n
  BY <1>1, <1>2, <1>3
<1>5. NanosecsToTimespec(t, n) =
        IF r + b >= NsPerSec THEN [sec |-> q + a + 1, nsec |-> r + b - NsPerSec]
                             ELSE [sec |-> q + a, nsec |-> r + b]
  BY <1>1, <1>2 DEF NanosecsToTimespec, q, r, a, b
<1> QED
  BY <1>1, <1>2, <1>4, <1>5 DEF Timespec, TimeOf

(* The state that ke_event_init() leaves.                                  *)
LEMMA InitEvent == Init => EventInv
<1> SUFFICES ASSUME Init PROVE EventInv
  OBVIOUS
<1> USE DEF Init, Threads
<1>1. EventTypeOK
  BY KEventAssumption DEF EventTypeOK, Nobody, Timespec, NoTimespec
<1>2. RolesOK
  BY DEF RolesOK, WaiterPc, SetterPc
<1>3. WaitsOK
  BY DEF WaitsOK, WaitOK
<1>4. NoLostWakeup
  BY DEF NoLostWakeup
<1> QED
  BY <1>1, <1>2, <1>3, <1>4 DEF EventInv

(* A step of a signalling or clearing thread keeps the mutex exclusive, is *)
(* no business of the waits, and leaves the event signalled with somebody  *)
(* asleep only until it broadcasts.                                        *)
LEMMA SetterKeeps ==
  ASSUME EventInv, NEW t \in Setters,
         CallSet(t, "signal") \/ CallSet(t, "clear") \/ SetterStep(t)
  PROVE  EventInv'
<1> USE KEventAssumption DEF Threads, Nobody, Goto
<1>1. /\ EventTypeOK /\ RolesOK /\ WaitsOK /\ NoLostWakeup
      /\ t \in Threads /\ t \notin Waiters /\ t # Nobody
  BY DEF EventInv
<1>2. /\ UNCHANGED << nanosecs, ts, expired, now, started, spurious >>
      /\ pc[t] \in SetterPc /\ pc'[t] \in SetterPc
      /\ \A u \in Threads \ {t} :
           pc'[u] = pc[u] \/ (u \in Waiters /\ pc[u] = "asleep" /\ pc'[u] = "relock")
  BY <1>1 DEF CallSet, SetterStep, SignalLock, SignalSet, SignalBroadcast, ClearLock, ClearUnset,
     SetUnlock, RolesOK, SetterPc, Asleep, EventTypeOK
<1>3. EventTypeOK'
  <2>1. CASE CallSet(t, "signal") \/ CallSet(t, "clear")
    BY <1>1, <2>1 DEF CallSet, EventTypeOK
  <2>2. CASE SignalLock(t) \/ ClearLock(t)
    BY <1>1, <2>2 DEF SignalLock, ClearLock, Lock, EventTypeOK
  <2>3. CASE SignalSet(t) \/ ClearUnset(t)
    BY <1>1, <2>3, Zenon DEF SignalSet, ClearUnset, EventTypeOK
  <2>4. CASE SignalBroadcast(t)
    BY <1>1, <2>4 DEF SignalBroadcast, Asleep, EventTypeOK
  <2>5. CASE SetUnlock(t)
    BY <1>1, <2>5 DEF SetUnlock, Unlock, EventTypeOK
  <2> QED
    BY <2>1, <2>2, <2>3, <2>4, <2>5 DEF SetterStep
<1>4. RolesOK'
  BY <1>1, <1>2 DEF RolesOK, WaiterPc
<1>5. WaitsOK'
  <2> SUFFICES ASSUME NEW w \in Waiters PROVE WaitOK(w)'
    BY DEF WaitsOK
  <2>1. WaitOK(w) /\ w \in Threads \ {t}
    BY <1>1 DEF WaitsOK
  <2> QED
    BY <1>1, <1>2, <2>1 DEF WaitOK, TimeOf
<1>6. NoLostWakeup'
  <2>1. CASE SignalBroadcast(t)
    BY <1>1, <2>1 DEF SignalBroadcast, NoLostWakeup, Asleep, EventTypeOK
  <2>2. CASE SignalSet(t)
    BY <1>1, <2>2 DEF SignalSet, NoLostWakeup, EventTypeOK
  <2>3. CASE ClearUnset(t)
    BY <1>1, <2>3 DEF ClearUnset, NoLostWakeup
  <2>4. CASE /\ state' = state /\ pc[t] # "broadcast"
             /\ \A u \in Threads \ {t} : pc'[u] = pc[u]
             /\ pc'[t] # "asleep"
    BY <1>1, <2>4 DEF NoLostWakeup, Asleep
  <2> QED
    BY <1>1, <2>1, <2>2, <2>3, <2>4 DEF CallSet, SetterStep, SignalLock, ClearLock, SetUnlock, EventTypeOK
<1> QED
  BY <1>3, <1>4, <1>5, <1>6 DEF EventInv

(* A step of a waiting thread: it goes to sleep only while the event is    *)
(* down, and a wait has expired only if the whole timeout is over.         *)
LEMMA WaiterKeeps ==
  ASSUME EventInv, NEW w \in Waiters,
         (\E n \in Nanosecs : CallWait(w, n)) \/ WaiterStep(w) \/ WakeUp(w)
  PROVE  EventInv'
<1> USE KEventAssumption DEF Threads, Nobody, Goto
<1>1. /\ EventTypeOK /\ RolesOK /\ WaitsOK /\ NoLostWakeup
      /\ w \in Threads /\ w \notin Setters /\ w # Nobody
  BY DEF EventInv
<1>2. ASSUME Sleep(w)
      PROVE  /\ ~state /\ UNCHANGED << state, nanosecs, expired, now, started, calls, spurious >>
             /\ pc[w] = "test" /\ pc' = [pc EXCEPT ![w] = "asleep"]
             /\ mutex' = Nobody
             /\ ts' \in [Waiters -> Timespec] /\ \A v \in Waiters \ {w} : ts'[v] = ts[v]
             /\ nanosecs[w] # -1 => TimeOf(ts'[w]) = now + nanosecs[w]
  <2>1. CASE nanosecs[w] = -1
    BY <1>1, <1>2, <2>1 DEF Sleep, EventTypeOK
  <2>2. CASE nanosecs[w] # -1
    <3>1. nanosecs[w] \in Nat /\ now \in Nat
      BY <1>1, <2>2 DEF EventTypeOK
    <3> DEFINE d == NanosecsToTimespec(now, nanosecs[w])
    <3>2. d \in Timespec /\ d.nsec < NsPerSec /\ TimeOf(d) = now + nanosecs[w]
      BY <3>1, DeadlineExact
    <3> HIDE DEF d
    <3>3. /\ pc' = [pc EXCEPT ![w] = "asleep"] /\ mutex' = Nobody /\ ts' = [ts EXCEPT ![w] = d]
          /\ ~state /\ pc[w] = "test"
          /\ UNCHANGED << state, nanosecs, expired, now, started, calls, spurious >>
      BY <1>2, <2>2, <3>2 DEF Sleep, d
    <3> QED
      BY <1>1, <3>2, <3>3 DEF EventTypeOK
  <2> QED
    BY <2>1, <2>2
<1>3. /\ \A u \in Threads \ {w} : pc'[u] = pc[u]
      /\ \A v \in Waiters \ {w} : /\ nanosecs'[v] = nanosecs[v] /\ ts'[v] = ts[v]
                                  /\ expired'[v] = expired[v] /\ started'[v] = started[v]
      /\ UNCHANGED << state, now >>
      /\ pc'[w] \in WaiterPc
  BY <1>1, <1>2 DEF CallWait, WaiterStep, WaitLock, TestMet, TimeOut, Relock, WaitUnlock, WakeUp,
     WaiterPc, EventTypeOK
<1>4. EventTypeOK'
  <2>1. CASE \E n \in Nanosecs : CallWait(w, n)
    BY <1>1, <2>1 DEF CallWait, EventTypeOK
  <2>2. CASE WaitLock(w)
    BY <1>1, <2>2 DEF WaitLock, Lock, EventTypeOK
  <2>3. CASE TestMet(w)
    BY <1>1, <2>3 DEF TestMet, EventTypeOK
  <2>4. CASE Sleep(w)
    BY <1>1, <1>2, <2>4 DEF EventTypeOK
  <2>5. CASE TimeOut(w)
    BY <1>1, <2>5 DEF TimeOut, EventTypeOK
  <2>6. CASE WakeUp(w)
    BY <1>1, <2>6 DEF WakeUp, EventTypeOK
  <2>7. CASE Relock(w)
    BY <1>1, <2>7 DEF Relock, Lock, EventTypeOK
  <2>8. CASE WaitUnlock(w)
    BY <1>1, <2>8 DEF WaitUnlock, Unlock, EventTypeOK, Timespec, NoTimespec
  <2> QED
    BY <2>1, <2>2, <2>3, <2>4, <2>5, <2>6, <2>7, <2>8 DEF WaiterStep
<1>5. RolesOK'
  BY <1>1, <1>3 DEF RolesOK
<1>6. WaitsOK'
  <2> SUFFICES ASSUME NEW v \in Waiters PROVE WaitOK(v)'
    BY DEF WaitsOK
  <2>1. WaitOK(v)
    BY <1>1 DEF WaitsOK
  <2>2. CASE v # w
    BY <1>1, <1>3, <2>1, <2>2 DEF WaitOK, TimeOf
  <2>3. CASE v = w
    <3>1. CASE \E n \in Nanosecs : CallWait(w, n)
      BY <1>1, <2>1, <2>3, <3>1 DEF CallWait, WaitOK, EventTypeOK
    <3>2. CASE WaitLock(w) \/ TestMet(w) \/ WakeUp(w) \/ Relock(w) \/ TimeOut(w)
      BY <1>1, <2>1, <2>3, <3>2 DEF WaitLock, TestMet, WakeUp, Relock, TimeOut, WaitOK, EventTypeOK
    <3>3. CASE Sleep(w)
      BY <1>1, <1>2, <2>1, <2>3, <3>3 DEF WaitOK, EventTypeOK
    <3>4. CASE WaitUnlock(w)
      BY <1>1, <2>1, <2>3, <3>4 DEF WaitUnlock, WaitOK, EventTypeOK
    <3> QED
      BY <3>1, <3>2, <3>3, <3>4 DEF WaiterStep
  <2> QED
    BY <2>2, <2>3
<1>7. NoLostWakeup'
  <2>1. CASE Sleep(w)
    BY <1>2, <2>1 DEF NoLostWakeup
  <2>2. CASE pc'[w] # "asleep"
    BY <1>1, <1>3, <2>2 DEF NoLostWakeup, Asleep
  <2> QED
    BY <1>1, <2>1, <2>2 DEF CallWait, WaiterStep, WaitLock, TestMet, TimeOut, Relock, WaitUnlock, WakeUp,
       EventTypeOK
<1> QED
  BY <1>4, <1>5, <1>6, <1>7 DEF EventInv

(* The invariant of the event, step by step.                               *)
LEMMA NextEvent == EventInv /\ [Next]_vars => EventInv'
<1> SUFFICES ASSUME EventInv, [Next]_vars PROVE EventInv'
  OBVIOUS
<1>1. CASE \E t \in Setters : CallSet(t, "signal") \/ CallSet(t, "clear") \/ SetterStep(t)
  BY <1>1, SetterKeeps
<1>2. CASE \E w \in Waiters, n \in Nanosecs : CallWait(w, n)
  BY <1>2, WaiterKeeps
<1>3. CASE \E w \in Waiters : WaiterStep(w) \/ WakeUp(w)
  BY <1>3, WaiterKeeps
<1>4. CASE Tick
  <2>1. EventTypeOK' /\ RolesOK' /\ NoLostWakeup'
    BY <1>4 DEF Tick, EventInv, EventTypeOK, RolesOK, NoLostWakeup, Asleep
  <2>2. WaitsOK'
    BY <1>4 DEF Tick, EventInv, EventTypeOK, WaitsOK, WaitOK, TimeOf
  <2> QED
    BY <2>1, <2>2 DEF EventInv
<1>5. CASE UNCHANGED vars
  BY <1>5 DEF vars, EventInv, EventTypeOK, RolesOK, WaitsOK, WaitOK, TimeOf, NoLostWakeup, Asleep
<1> QED
  BY <1>1, <1>2, <1>3, <1>4, <1>5 DEF Next

(* The invariant of every state that the event goes through.               *)
LEMMA EventInvariant == Spec => []EventInv
  BY InitEvent, NextEvent, PTL DEF Spec

(* The mutex of an event excludes: at any time the thread that has it is   *)
(* the only one between the lock and the unlock of ke_event_signal(),      *)
(* ke_event_clear() and ke_event_wait(), whatever the number of threads.   *)
THEOREM EventMutexExcludes == Spec => []EventTypeOK
  BY EventInvariant, PTL DEF EventInv

(* ke_event_signal() loses no wake-up, whatever the number of threads and  *)
(* their timeouts: a thread sleeps on a signalled event only until the     *)
(* signaller broadcasts.                                                   *)
THEOREM EventNoLostWakeup == Spec => []NoLostWakeup
  BY EventInvariant, PTL DEF EventInv

-----------------------------------------------------------------------------
(* The wait of w as module Event has it.                                   *)
WaitOf(w) == [status |-> StatusOf(w), since |-> started[w], limit |-> nanosecs[w]]

(* The abstract state changes in one wait at most: what is left to show of *)
(* a step of w is how its own wait changes.                                *)
LEMMA OneWaitChanges ==
  ASSUME EventInv, NEW w \in Waiters,
         \A v \in Waiters \ {w} : UNCHANGED << pc[v], expired[v], started[v], nanosecs[v] >>
  PROVE  [v \in Waiters |-> WaitOf(v)]' =
           [[v \in Waiters |-> WaitOf(v)] EXCEPT ![w] = WaitOf(w)']
  BY ZenonT(60) DEF WaitOf, StatusOf

(* A state that ke_event_init() leaves is one of the abstract event.       *)
LEMMA InitPromise == Init => Promise!EventInit
<1> SUFFICES ASSUME Init PROVE Promise!EventInit
  OBVIOUS
<1>1. ASSUME NEW w \in Waiters PROVE WaitOf(w) = Promise!NotWaiting
  BY DEF Init, Threads, WaitOf, StatusOf, Promise!NotWaiting, Promise!Forever
<1> QED
  BY <1>1 DEF Init, Promise!EventInit, WaitOf

(* A step in which no wait begins, is decided or ends: at most the flag or *)
(* the clock changes.                                                      *)
LEMMA WaitsStay ==
  ASSUME EventInv,
         \A v \in Waiters : UNCHANGED StatusOf(v) /\ UNCHANGED << started[v], nanosecs[v] >>
  PROVE  UNCHANGED [v \in Waiters |-> WaitOf(v)]
  BY DEF WaitOf

(* Signalling and clearing set the flag or change nothing.                 *)
LEMMA SetterPromise ==
  ASSUME EventInv, EventInv', NEW t \in Setters,
         CallSet(t, "signal") \/ CallSet(t, "clear") \/ SetterStep(t)
  PROVE  [Promise!EventNext]_Promise!eventVars
<1> USE KEventAssumption DEF Threads, Goto
<1>1. /\ EventTypeOK /\ RolesOK /\ EventTypeOK' /\ WaitsOK
      /\ t \in Threads /\ t \notin Waiters
  BY DEF EventInv
<1>2. /\ UNCHANGED << nanosecs, expired, now, started >>
      /\ \A u \in Waiters : pc'[u] = pc[u] \/ (pc[u] = "asleep" /\ pc'[u] = "relock")
  BY <1>1 DEF CallSet, SetterStep, SignalLock, SignalSet, SignalBroadcast, ClearLock, ClearUnset,
     SetUnlock, Asleep, EventTypeOK
<1>3. UNCHANGED [v \in Waiters |-> WaitOf(v)]
  BY <1>1, <1>2, WaitsStay DEF StatusOf
<1>4. state' \in BOOLEAN
  BY <1>1 DEF EventTypeOK
<1>5. Promise!SetFlag(state')
  BY <1>2, <1>3 DEF Promise!SetFlag, WaitOf
<1> QED
  BY <1>4, <1>5 DEF Promise!EventNext

(* A wait begins when ke_event_wait() is called, is met when the flag is   *)
(* seen up, expires when pthread_cond_timedwait() says so, and ends when   *)
(* the mutex is let go; its other steps change nothing that is promised.   *)
LEMMA WaiterPromise ==
  ASSUME EventInv, EventInv', NEW w \in Waiters,
         (\E n \in Nanosecs : CallWait(w, n)) \/ WaiterStep(w) \/ WakeUp(w)
  PROVE  [Promise!EventNext]_Promise!eventVars
<1> USE KEventAssumption DEF Threads, Goto
<1> DEFINE W == [v \in Waiters |-> WaitOf(v)]
<1>1. EventTypeOK /\ RolesOK /\ WaitsOK /\ WaitOK(w) /\ w \in Threads
  BY DEF EventInv, WaitsOK
<1>2. /\ UNCHANGED << state, now >>
      /\ \A v \in Waiters \ {w} : UNCHANGED << pc[v], expired[v], started[v], nanosecs[v] >>
  BY <1>1 DEF CallWait, WaiterStep, WaitLock, TestMet, Sleep, TimeOut, Relock, WaitUnlock, WakeUp, EventTypeOK
<1>3. W' = [W EXCEPT ![w] = WaitOf(w)']
  BY <1>2, OneWaitChanges
<1>4. W[w] = WaitOf(w)
  OBVIOUS
<1> HIDE DEF W
<1>5. CASE \E n \in Nanosecs : CallWait(w, n)
  <2>1. PICK n \in Nanosecs : CallWait(w, n)
    BY <1>5
  <2>2. WaitOf(w) = Promise!NotWaiting
    BY <1>1, <2>1 DEF CallWait, WaitOK, WaitOf, StatusOf, Promise!NotWaiting, Promise!Forever
  <2>3. WaitOf(w)' = [status |-> "waiting", since |-> now, limit |-> n]
    BY <1>1, <2>1 DEF CallWait, WaitOK, WaitOf, StatusOf, EventTypeOK
  <2>4. Promise!Begin(w)
    BY <1>2, <1>3, <1>4, <2>2, <2>3 DEF Promise!Begin, W, WaitOf
  <2> QED
    BY <2>4 DEF Promise!EventNext
<1>6. CASE TestMet(w)
  <2>1. /\ state /\ WaitOf(w).status = "waiting"
        /\ WaitOf(w)' = [WaitOf(w) EXCEPT !.status = "ok"]
    BY <1>1, <1>6 DEF TestMet, WaitOK, WaitOf, StatusOf, EventTypeOK
  <2>2. Promise!Met(w)
    BY <1>2, <1>3, <1>4, <2>1 DEF Promise!Met, Promise!Resolve, W, WaitOf
  <2> QED
    BY <2>2 DEF Promise!EventNext
<1>7. CASE TimeOut(w)
  <2>1. /\ WaitOf(w).status = "waiting"
        /\ WaitOf(w)' = [WaitOf(w) EXCEPT !.status = "timedout"]
    BY <1>1, <1>7 DEF TimeOut, WaitOK, WaitOf, StatusOf, EventTypeOK
  <2>2. WaitOf(w).limit # -1 /\ now >= WaitOf(w).since + WaitOf(w).limit
    <3>1. TimeOf(ts[w]) >= started[w] + nanosecs[w] /\ now >= TimeOf(ts[w]) /\ nanosecs[w] # -1
      BY <1>1, <1>7 DEF TimeOut, WaitOK
    <3>2. TimeOf(ts[w]) \in Nat /\ started[w] \in Nat /\ nanosecs[w] \in Nat /\ now \in Nat
      BY <1>1, <3>1 DEF EventTypeOK, TimeOf, Timespec
    <3> QED
      BY <3>1, <3>2 DEF WaitOf
  <2>3. Promise!Expire(w)
    BY <1>2, <1>3, <1>4, <2>1, <2>2 DEF Promise!Expire, Promise!Forever, Promise!Resolve, W, WaitOf
  <2> QED
    BY <2>3 DEF Promise!EventNext
<1>8. CASE WaitUnlock(w)
  <2>1. /\ WaitOf(w).status \in {"ok", "timedout"}
        /\ WaitOf(w)' = Promise!NotWaiting
    BY <1>1, <1>8 DEF WaitUnlock, WaitOK, WaitOf, StatusOf, EventTypeOK, Promise!NotWaiting, Promise!Forever
  <2>2. Promise!Return(w)
    BY <1>2, <1>3, <1>4, <2>1 DEF Promise!Return, W, WaitOf
  <2> QED
    BY <2>2 DEF Promise!EventNext
<1>9. CASE WaitLock(w) \/ Sleep(w) \/ Relock(w) \/ WakeUp(w)
  <2>1. UNCHANGED << started, nanosecs, expired >>
    BY <1>9 DEF WaitLock, Sleep, Relock, WakeUp
  <2>2. UNCHANGED StatusOf(w)
    BY <1>1, <1>9 DEF WaitLock, Sleep, Relock, WakeUp, StatusOf, WaitOK, EventTypeOK
  <2>3. UNCHANGED W
    BY <1>2, <2>1, <2>2, WaitsStay DEF StatusOf, W
  <2> QED
    BY <1>2, <2>3 DEF Promise!eventVars, W, WaitOf
<1> QED
  BY <1>5, <1>6, <1>7, <1>8, <1>9 DEF WaiterStep

(* Every step of the event is one of the abstract event, or changes        *)
(* nothing that it shows.                                                  *)
LEMMA NextPromise ==
  EventInv /\ EventInv' /\ [Next]_vars => [Promise!EventNext]_Promise!eventVars
<1> SUFFICES ASSUME EventInv, EventInv', [Next]_vars
             PROVE  [Promise!EventNext]_Promise!eventVars
  OBVIOUS
<1>1. CASE \E t \in Setters : CallSet(t, "signal") \/ CallSet(t, "clear") \/ SetterStep(t)
  BY <1>1, SetterPromise
<1>2. CASE \E w \in Waiters, n \in Nanosecs : CallWait(w, n)
  BY <1>2, WaiterPromise
<1>3. CASE \E w \in Waiters : WaiterStep(w) \/ WakeUp(w)
  BY <1>3, WaiterPromise
<1>4. CASE Tick
  <2>1. UNCHANGED [v \in Waiters |-> WaitOf(v)]
    BY <1>4, WaitsStay DEF Tick, StatusOf
  <2> QED
    BY <1>4, <2>1 DEF Tick, WaitOf, Promise!EventNext, Promise!Pass
<1>5. CASE UNCHANGED vars
  <2>1. UNCHANGED [v \in Waiters |-> WaitOf(v)]
    BY <1>5, WaitsStay DEF vars, StatusOf
  <2> QED
    BY <1>5, <2>1 DEF vars, WaitOf, Promise!eventVars
<1> QED
  BY <1>1, <1>2, <1>3, <1>4, <1>5 DEF Next

(* kevent_t keeps its promise, for any number of threads and timeouts:     *)
(* ke_event_wait() reports success only if the event was up during the     *)
(* call, and a timeout only when the whole of it is over, however often    *)
(* the thread was woken and the deadline computed again.                   *)
THEOREM EventKeepsPromise == Spec => KeepsPromise
<1>1. Init /\ [][Next]_vars => Promise!EventSpec
  BY InitEvent, NextEvent, InitPromise, NextPromise, PTL DEF Promise!EventSpec
<1> QED
  BY <1>1, PTL DEF Spec, KeepsPromise
=============================================================================
