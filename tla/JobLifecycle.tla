---------------------------- MODULE JobLifecycle ----------------------------
(***************************************************************************)
(* What a job queue with a store promises, whatever serves it: a job waits,*)
(* is worked on, and is over; one job at a time is worked on; what is over *)
(* stays over; a change is stored before the next one is made, and while   *)
(* it is being stored the store may for a moment hold nothing.  A restart  *)
(* goes on from the store; a job that was then being worked on is adrift:  *)
(* nobody works on it and nobody takes it up again.                        *)
(***************************************************************************)
EXTENDS Naturals

CONSTANT Ids     \* the ids a queue may hand out

Phases == {"absent", "waiting", "working", "adrift", "over"}

VARIABLES
  phase,   \* per id: what the queue holds
  store    \* per id: what a restart would find

vars == <<phase, store>>

Nothing == [i \in Ids |-> "absent"]

(* The store does not tell a job adrift from one that is worked on.        *)
Stored(p) == [i \in Ids |-> IF p[i] = "adrift" THEN "working" ELSE p[i]]
Loaded(s) == [i \in Ids |-> IF s[i] = "working" THEN "adrift" ELSE s[i]]

InStep == store = Stored(phase)

Init == phase = Nothing /\ store = Nothing

(* One job moves from one phase to another; all the others stay.           *)
Moves(i, from, to) ==
  /\ InStep
  /\ phase[i] = from
  /\ phase' = [phase EXCEPT ![i] = to]
  /\ UNCHANGED store

Submit(i) == Moves(i, "absent", "waiting")
Cancel(i) == Moves(i, "waiting", "over")
Finish(i) == Moves(i, "working", "over")
Start(i)  == Moves(i, "waiting", "working") /\ \A j \in Ids : phase[j] # "working"

(* Storing: the old content goes, then the new one is there.               *)
Empty == store' = Nothing /\ UNCHANGED phase
Write == store' = Stored(phase) /\ UNCHANGED phase

Restart == phase' = Loaded(store) /\ UNCHANGED store

Next ==
  \/ \E i \in Ids : Submit(i) \/ Start(i) \/ Finish(i) \/ Cancel(i)
  \/ Empty \/ Write \/ Restart

Spec == Init /\ [][Next]_vars
=============================================================================
