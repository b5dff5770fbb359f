------------------------------- MODULE Event -------------------------------
(***************************************************************************)
(* What kevent_t promises, with no mutex, condition variable or deadline:  *)
(* a flag that is signalled and cleared, and waits that end with OK at a   *)
(* moment the flag is up, or time out once their time is over.             *)
(***************************************************************************)
EXTENDS Integers

CONSTANTS Waiting, Timeouts

Forever == -1

VARIABLES
  signalled,
  wait,         \* wait[w]: how far w is with its wait, when that began and
                \* its timeout
  clock

eventVars == << signalled, wait, clock >>

NotWaiting == [status |-> "none", since |-> 0, limit |-> Forever]

EventInit ==
  /\ signalled = FALSE
  /\ wait = [w \in Waiting |-> NotWaiting]
  /\ clock = 0

SetFlag(b) == signalled' = b /\ UNCHANGED << wait, clock >>

Begin(w) ==
  /\ wait[w] = NotWaiting
  /\ \E t \in Timeouts :
       wait' = [wait EXCEPT ![w] = [status |-> "waiting", since |-> clock, limit |-> t]]
  /\ UNCHANGED << signalled, clock >>

Resolve(w, status) ==
  /\ wait[w].status = "waiting"
  /\ wait' = [wait EXCEPT ![w].status = status]
  /\ UNCHANGED << signalled, clock >>

Met(w) == signalled /\ Resolve(w, "ok")

Expire(w) ==
  /\ wait[w].limit # Forever /\ clock >= wait[w].since + wait[w].limit
  /\ Resolve(w, "timedout")

Return(w) ==
  /\ wait[w].status \in {"ok", "timedout"}
  /\ wait' = [wait EXCEPT ![w] = NotWaiting]
  /\ UNCHANGED << signalled, clock >>

Pass == clock' = clock + 1 /\ UNCHANGED << signalled, wait >>

EventNext ==
  \/ \E b \in BOOLEAN : SetFlag(b)
  \/ \E w \in Waiting : Begin(w) \/ Met(w) \/ Expire(w) \/ Return(w)
  \/ Pass

EventSpec == EventInit /\ [][EventNext]_eventVars
=============================================================================
