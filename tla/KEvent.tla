------------------------------- MODULE KEvent -------------------------------
(***************************************************************************)
(* kevent_t of kdk/nanokern.h: a flag under a mutex and a condition        *)
(* variable, which the threads of the simulator signal, clear and wait for *)
(* with or without a timeout.  The mutex and the condition variable are    *)
(* POSIX's: a waiter lets go of the mutex and sleeps in one step, may wake *)
(* up for no reason, takes the mutex again before it returns, and may be   *)
(* told that its time is up when the event has been signalled meanwhile.   *)
(***************************************************************************)
EXTENDS Integers, FiniteSets

CONSTANTS
  Waiters,      \* threads that call ke_event_wait()
  Setters,      \* threads that call ke_event_signal() and ke_event_clear()
  Nanosecs,     \* the timeouts passed to ke_event_wait(); -1 is for ever
  NsPerSec,     \* 1000000000 in the build
  MaxTime,      \* bound: the clock stops here
  MaxCalls,     \* bound on the calls of all the threads together
  MaxSpurious   \* bound on the wake-ups nobody asked for

ASSUME KEventAssumption ==
  /\ Waiters \cap Setters = {} /\ "nobody" \notin Waiters \cup Setters
  /\ Nanosecs \subseteq Nat \cup {-1}
  /\ NsPerSec \in Nat \ {0}
  /\ MaxTime \in Nat /\ MaxCalls \in Nat /\ MaxSpurious \in Nat

VARIABLES
  state,        \* event->state
  mutex,        \* the thread that has event->mutex
  pc,
  nanosecs,     \* the argument of ke_event_wait()
  ts,           \* the deadline given to pthread_cond_timedwait()
  expired,      \* ret == ETIMEDOUT
  now,          \* CLOCK_MONOTONIC, in nanoseconds
  started,      \* when ke_event_wait() was called (history)
  calls, spurious

vars == << state, mutex, pc, nanosecs, ts, expired, now, started, calls, spurious >>

Nobody  == "nobody"
Threads == Waiters \cup Setters

Timespec   == [sec : Nat, nsec : Nat]
NoTimespec == [sec |-> 0, nsec |-> 0]

(* Faulty: no carry into the seconds.                                      *)
NanosecsToTimespecNoCarry(t, n) ==
  [sec |-> (t \div NsPerSec) + (n \div NsPerSec), nsec |-> (t % NsPerSec) + (n % NsPerSec)]

(* Faulty: the whole seconds are forgotten.                                *)
NanosecsToTimespecShort(t, n) ==
  LET nsec == (t % NsPerSec) + (n % NsPerSec)
  IN  [sec |-> (t \div NsPerSec) + (nsec \div NsPerSec), nsec |-> nsec % NsPerSec]

(* nanosecs_to_timespec(), when the clock shows t.                         *)
NanosecsToTimespec(t, n) ==
  LET sec  == (t \div NsPerSec) + (n \div NsPerSec)
      nsec == (t % NsPerSec) + (n % NsPerSec)
  IN  IF nsec >= NsPerSec THEN [sec |-> sec + 1, nsec |-> nsec - NsPerSec]
                          ELSE [sec |-> sec, nsec |-> nsec]

TimeOf(t) == t.sec * NsPerSec + t.nsec

(* ke_event_init(): its second argument is not looked at.                  *)
Init ==
  /\ state = FALSE
  /\ mutex = Nobody
  /\ pc = [t \in Threads |-> "idle"]
  /\ nanosecs = [w \in Waiters |-> -1]
  /\ ts = [w \in Waiters |-> NoTimespec]
  /\ expired = [w \in Waiters |-> FALSE]
  /\ now = 0
  /\ started = [w \in Waiters |-> 0]
  /\ calls = 0 /\ spurious = 0

Goto(t, from, to) == pc[t] = from /\ pc' = [pc EXCEPT ![t] = to]

Lock(t)   == mutex = Nobody /\ mutex' = t
Unlock(t) == mutex = t /\ mutex' = Nobody

-----------------------------------------------------------------------------
(* ke_event_signal() and ke_event_clear().                                 *)
CallSet(t, op) ==
  /\ Goto(t, "idle", op)
  /\ calls < MaxCalls /\ calls' = calls + 1
  /\ UNCHANGED << state, mutex, nanosecs, ts, expired, now, started, spurious >>

SignalLock(t) ==
  /\ Goto(t, "signal", "set") /\ Lock(t)
  /\ UNCHANGED << state, nanosecs, ts, expired, now, started, calls, spurious >>

SignalSet(t) ==
  /\ Goto(t, "set", "broadcast")
  /\ state' = TRUE
  /\ UNCHANGED << mutex, nanosecs, ts, expired, now, started, calls, spurious >>

Asleep(w) == pc[w] = "asleep"

(* Faulty: pthread_cond_signal() for pthread_cond_broadcast().             *)
SignalBroadcastOne(t) ==
  LET lucky == {w \in Waiters : Asleep(w) /\ \A v \in Waiters : Asleep(v) => nanosecs[w] <= nanosecs[v]}
      one   == CHOOSE w \in lucky : TRUE
  IN  /\ pc[t] = "broadcast"
      /\ pc' = [u \in Threads |-> IF u = t THEN "unlock"
                                  ELSE IF lucky # {} /\ u = one THEN "relock" ELSE pc[u]]
      /\ UNCHANGED << state, mutex, nanosecs, ts, expired, now, started, calls, spurious >>

SignalBroadcast(t) ==
  /\ pc[t] = "broadcast"
  /\ pc' = [u \in Threads |-> IF u = t THEN "unlock"
                              ELSE IF u \in Waiters /\ Asleep(u) THEN "relock" ELSE pc[u]]
  /\ UNCHANGED << state, mutex, nanosecs, ts, expired, now, started, calls, spurious >>

ClearLock(t) ==
  /\ Goto(t, "clear", "unset") /\ Lock(t)
  /\ UNCHANGED << state, nanosecs, ts, expired, now, started, calls, spurious >>

(* Faulty: the mutex is kept.                                              *)
ClearUnsetKeeps(t) ==
  /\ Goto(t, "unset", "idle")
  /\ state' = FALSE
  /\ UNCHANGED << mutex, nanosecs, ts, expired, now, started, calls, spurious >>

ClearUnset(t) ==
  /\ Goto(t, "unset", "unlock")
  /\ state' = FALSE
  /\ UNCHANGED << mutex, nanosecs, ts, expired, now, started, calls, spurious >>

SetUnlock(t) ==
  /\ Goto(t, "unlock", "idle") /\ Unlock(t)
  /\ UNCHANGED << state, nanosecs, ts, expired, now, started, calls, spurious >>

-----------------------------------------------------------------------------
(* ke_event_wait().                                                        *)
CallWait(w, n) ==
  /\ Goto(w, "idle", "enter")
  /\ calls < MaxCalls /\ calls' = calls + 1
  /\ nanosecs' = [nanosecs EXCEPT ![w] = n]
  /\ started' = [started EXCEPT ![w] = now]
  /\ UNCHANGED << state, mutex, ts, expired, now, spurious >>

WaitLock(w) ==
  /\ Goto(w, "enter", "test") /\ Lock(w)
  /\ UNCHANGED << state, nanosecs, ts, expired, now, started, calls, spurious >>

TestMet(w) ==
  /\ state
  /\ Goto(w, "test", "out")
  /\ UNCHANGED << state, mutex, nanosecs, ts, expired, now, started, calls, spurious >>

(* pthread_cond_wait() and pthread_cond_timedwait() go to sleep; the       *)
(* latter fails at once, mutex in hand, if the deadline is no timespec.    *)
Sleep(w) ==
  LET deadline == IF nanosecs[w] = -1 THEN ts[w] ELSE NanosecsToTimespec(now, nanosecs[w])
      ok       == nanosecs[w] = -1 \/ deadline.nsec < NsPerSec
  IN  /\ ~state
      /\ Goto(w, "test", IF ok THEN "asleep" ELSE "test")
      /\ mutex' = IF ok THEN Nobody ELSE w
      /\ ts' = [ts EXCEPT ![w] = deadline]
      /\ UNCHANGED << state, nanosecs, expired, now, started, calls, spurious >>

(* External: a wake-up without a signal, and one because of the deadline.  *)
WakeUp(w) ==
  /\ Goto(w, "asleep", "relock")
  /\ spurious < MaxSpurious /\ spurious' = spurious + 1
  /\ UNCHANGED << state, mutex, nanosecs, ts, expired, now, started, calls >>

TimeOut(w) ==
  /\ Goto(w, "asleep", "relock")
  /\ nanosecs[w] # -1 /\ now >= TimeOf(ts[w])
  /\ expired' = [expired EXCEPT ![w] = TRUE]
  /\ UNCHANGED << state, mutex, nanosecs, ts, now, started, calls, spurious >>

Relock(w) ==
  /\ Goto(w, "relock", IF expired[w] THEN "out" ELSE "test") /\ Lock(w)
  /\ UNCHANGED << state, nanosecs, ts, expired, now, started, calls, spurious >>

WaitUnlock(w) ==
  /\ Goto(w, "out", "idle") /\ Unlock(w)
  /\ nanosecs' = [nanosecs EXCEPT ![w] = -1]
  /\ ts' = [ts EXCEPT ![w] = NoTimespec]
  /\ expired' = [expired EXCEPT ![w] = FALSE]
  /\ started' = [started EXCEPT ![w] = 0]
  /\ UNCHANGED << state, now, calls, spurious >>

Tick ==
  /\ now < MaxTime /\ now' = now + 1
  /\ UNCHANGED << state, mutex, pc, nanosecs, ts, expired, started, calls, spurious >>

-----------------------------------------------------------------------------
SetterStep(t) ==
  \/ SignalLock(t) \/ SignalSet(t) \/ SignalBroadcast(t)
  \/ ClearLock(t) \/ ClearUnset(t) \/ SetUnlock(t)

WaiterStep(w) ==
  \/ WaitLock(w) \/ TestMet(w) \/ Sleep(w) \/ TimeOut(w) \/ Relock(w) \/ WaitUnlock(w)

Next ==
  \/ \E t \in Setters : CallSet(t, "signal") \/ CallSet(t, "clear") \/ SetterStep(t)
  \/ \E w \in Waiters, n \in Nanosecs : CallWait(w, n)
  \/ \E w \in Waiters : WaiterStep(w) \/ WakeUp(w)
  \/ Tick

(* A thread inside one of the functions runs on; nobody has to call one,   *)
(* and no wake-up has to come without a reason.                            *)
Fairness ==
  /\ \A t \in Setters : WF_vars(SetterStep(t))
  /\ \A w \in Waiters : WF_vars(WaiterStep(w))

Spec == Init /\ [][Next]_vars /\ Fairness
-----------------------------------------------------------------------------
(* The fields stay in their ranges, and the thread that has the mutex is   *)
(* inside the section it protects.                                         *)
EventTypeOK ==
  /\ state \in BOOLEAN
  /\ mutex \in Threads \cup {Nobody}
  /\ pc \in [Threads -> {"idle", "signal", "set", "broadcast", "clear", "unset", "unlock",
                         "enter", "test", "asleep", "relock", "out"}]
  /\ nanosecs \in [Waiters -> Nat \cup {-1}]
  /\ ts \in [Waiters -> Timespec]
  /\ expired \in [Waiters -> BOOLEAN]
  /\ now \in Nat /\ started \in [Waiters -> Nat] /\ calls \in Nat /\ spurious \in Nat
  /\ \A t \in Threads :
       (mutex = t) <=> pc[t] \in {"set", "broadcast", "unset", "unlock", "test", "out"}

(* No wake-up is lost: a thread sleeps in ke_event_wait() while the event  *)
(* is signalled only until the signaller, which has the mutex, broadcasts. *)
NoLostWakeup ==
  (state /\ \E w \in Waiters : Asleep(w)) => \E t \in Setters : pc[t] = "broadcast"

(* A wait for an event that stays signalled ends.                          *)
SignalledWaitEnds ==
  \A w \in Waiters :
    (state /\ pc[w] \in {"enter", "test", "asleep", "relock"})
      ~> (~state \/ pc[w] \in {"out", "idle"})

(* ke_event_signal() and ke_event_clear() return: no waiter keeps the      *)
(* mutex, in particular not one whose deadline the clock made awkward.     *)
SetReturns == \A t \in Setters : pc[t] # "idle" ~> pc[t] = "idle"

(* A wait is over when the flag was seen up or the deadline passed, and    *)
(* has a result from then on.                                              *)
StatusOf(w) ==
  CASE pc[w] = "idle" -> "none"
    [] pc[w] # "idle" /\ expired[w] -> "timedout"
    [] pc[w] = "out" /\ ~expired[w] -> "ok"
    [] OTHER -> "waiting"

Promise == INSTANCE Event
  WITH Waiting <- Waiters, Timeouts <- Nanosecs, signalled <- state, clock <- now,
       wait <- [w \in Waiters |-> [status |-> StatusOf(w), since |-> started[w],
                                   limit |-> nanosecs[w]]]

(* The event keeps its promise: ke_event_wait() returns                    *)
(* kKernWaitStatusOK only if the event was up during the call, and         *)
(* kKernWaitStatusTimedOut only after the whole timeout, however the       *)
(* deadline is computed and recomputed.                                    *)
KeepsPromise == Promise!EventSpec
=============================================================================
