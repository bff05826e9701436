------------------------------- MODULE WatchSet -------------------------------
(***************************************************************************)
(* What the main loop promises, without its array of descriptors: a set of *)
(* watched sources with work to do, served one at a time until a handler   *)
(* ends the loop.  A watched source that has work is served in the end.    *)
(***************************************************************************)
EXTENDS Naturals

CONSTANTS Sources, MaxWork
VARIABLES watched,  \* the sources the loop watches
          work,     \* what each source has to deliver
          running   \* the loop has not been left

watchVars == <<watched, work, running>>

WatchInit ==
  /\ watched = {}
  /\ work = [s \in Sources |-> 0]
  /\ running = TRUE

\* Something happens at a source, watched or not.
Arrive(s) ==
  /\ work[s] < MaxWork
  /\ work' = [work EXCEPT ![s] = @ + 1]
  /\ UNCHANGED <<watched, running>>

\* Before the loop starts, sources are added one by one.
WatchFirst(s) ==
  /\ watched' = watched \cup {s}
  /\ UNCHANGED <<work, running>>

\* The handler of s: it does some of the work of its own source, and may add
\* another, drop its own, or end the loop.
Serve(s) ==
  /\ running
  /\ s \in watched
  /\ \E left \in 0 .. work[s] - 1 : work' = [work EXCEPT ![s] = left]
  /\ \/ watched' \in {watched, watched \ {s}} /\ running' \in BOOLEAN
     \/ \E n \in Sources \ watched : watched' = watched \cup {n} /\ UNCHANGED running

WatchNext == \E s \in Sources : Arrive(s) \/ WatchFirst(s) \/ Serve(s)

WatchSpec ==
  /\ WatchInit
  /\ [][WatchNext]_watchVars
  /\ \A s \in Sources : WF_watchVars(Serve(s))
=============================================================================
