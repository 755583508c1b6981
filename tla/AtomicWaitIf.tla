------------------------------ MODULE AtomicWaitIf -----------------------------
(***************************************************************************)
(* The waits without a timeout (include/daw/daw_atomic_wait.h):            *)
(* atomic_wait_if, and atomic_wait_value_equal, which passes it a          *)
(* comparison with desired_value.                                          *)
(*                                                                         *)
(* Between its loads the wait sleeps in std::atomic_wait_explicit, which   *)
(* is modelled by what the C++ standard says of it: it blocks only if the  *)
(* atomic still has the value it is given, a notification makes it look    *)
(* again, and it may wake by itself. The threads that write the atomic     *)
(* store a value and then notify, in two steps, as the callers in          *)
(* tests/daw_atomic_wait_test.cpp do; with one waiter, as there,           *)
(* notify_one and notify_all are the same.                                 *)
(*                                                                         *)
(* A load returns the latest store. What the memory order of a load        *)
(* decides is whether the thread also sees what the author of that store   *)
(* wrote before it: fresh and published keep track of this.                *)
(***************************************************************************)
EXTENDS Naturals

CONSTANTS Waiters,    \* the threads that wait
          Writers,    \* the threads that store and notify
          Values,     \* the values the atomic may take
          Satisfying, \* Satisfying[t]: those for which predicate of waiter t is true
          Unloaded    \* what current is before the first load

ASSUME Assumption ==
  /\ Satisfying \in [Waiters -> SUBSET Values]
  /\ Unloaded \notin Values

VARIABLES
  value,     \* the atomic
  pc,        \* pc[t]: where waiter t is
  current,   \* current[t]: the value it loaded last
  fresh,     \* fresh[t]: t has synchronized with the latest store
  published, \* published[t]: t has synchronized with the store current[t] is from
  notifying  \* the writers that have stored and not notified yet

vars == <<value, pc, current, fresh, published, notifying>>

PCs == {"idle", "load", "test", "wait", "blocked", "reload", "returned"}

Init ==
  /\ value \in Values
  /\ pc = [t \in Waiters |-> "idle"]
  /\ current = [t \in Waiters |-> Unloaded]
  /\ fresh = [t \in Waiters |-> FALSE]
  /\ published = [t \in Waiters |-> FALSE]
  /\ notifying = {}

Goto(t, p) == pc' = [pc EXCEPT ![t] = p]

-------------------------------------------------------------------------------
(* The writers.                                                            *)

Store(p, v) ==
  /\ p \notin notifying
  /\ value' = v
  /\ fresh' = [t \in Waiters |-> FALSE]
  /\ notifying' = notifying \cup {p}
  /\ UNCHANGED <<pc, current, published>>

Notify(p) ==
  /\ p \in notifying
  /\ pc' = [t \in Waiters |-> IF pc[t] = "blocked" THEN "wait" ELSE pc[t]]
  /\ notifying' = notifying \ {p}
  /\ UNCHANGED <<value, current, fresh, published>>

-------------------------------------------------------------------------------
(* The wait.                                                               *)

Call(t) ==
  /\ pc[t] \in {"idle", "returned"}
  /\ Goto(t, "load")
  /\ current' = [current EXCEPT ![t] = Unloaded]
  /\ UNCHANGED <<value, fresh, published, notifying>>

(* The first load, with memory_order_acquire.                              *)
Load(t) ==
  /\ pc[t] = "load"
  /\ Goto(t, "test")
  /\ current' = [current EXCEPT ![t] = value]
  /\ fresh' = [fresh EXCEPT ![t] = TRUE]
  /\ published' = [published EXCEPT ![t] = TRUE]
  /\ UNCHANGED <<value, notifying>>

Test(t) ==
  /\ pc[t] = "test"
  /\ Goto(t, IF current[t] \in Satisfying[t] THEN "returned" ELSE "wait")
  /\ UNCHANGED <<value, current, fresh, published, notifying>>

(* Mutant of Block: the value waited on is loaded once more.               *)
BlockOnReload(t) ==
  /\ pc[t] = "wait"
  /\ current' = [current EXCEPT ![t] = value]
  /\ Goto(t, "blocked")
  /\ UNCHANGED <<value, fresh, published, notifying>>

(* atomic_wait_explicit: the value is still the one given.                 *)
Block(t) ==
  /\ pc[t] = "wait"
  /\ value = current[t]
  /\ Goto(t, "blocked")
  /\ UNCHANGED <<value, current, fresh, published, notifying>>

(* It has changed: the load that saw this had the caller's memory order,   *)
(* memory_order_acquire by default.                                        *)
Changed(t) ==
  /\ pc[t] = "wait"
  /\ value # current[t]
  /\ Goto(t, "reload")
  /\ fresh' = [fresh EXCEPT ![t] = TRUE]
  /\ UNCHANGED <<value, current, published, notifying>>

SpuriousWake(t) ==
  /\ pc[t] = "blocked"
  /\ Goto(t, "wait")
  /\ UNCHANGED <<value, current, fresh, published, notifying>>

(* Mutant of Reload: the loop body does not load.                          *)
ReloadForgotten(t) ==
  /\ pc[t] = "reload"
  /\ Goto(t, "test")
  /\ UNCHANGED <<value, current, fresh, published, notifying>>

(* Mutant of Reload: no loop, so that the value is not tested again.       *)
ReloadAndReturn(t) ==
  /\ pc[t] = "reload"
  /\ Goto(t, "returned")
  /\ current' = [current EXCEPT ![t] = value]
  /\ published' = [published EXCEPT ![t] = fresh[t]]
  /\ UNCHANGED <<value, fresh, notifying>>

(* The load in the loop, with memory_order_relaxed: it synchronizes with   *)
(* nothing, so the store it reads has been seen only if the wait saw it.   *)
Reload(t) ==
  /\ pc[t] = "reload"
  /\ Goto(t, "test")
  /\ current' = [current EXCEPT ![t] = value]
  /\ published' = [published EXCEPT ![t] = fresh[t]]
  /\ UNCHANGED <<value, fresh, notifying>>

Wait(t) == Load(t) \/ Test(t) \/ Block(t) \/ Changed(t) \/ Reload(t)

Next ==
  \/ \E t \in Waiters : Call(t) \/ Wait(t) \/ SpuriousWake(t)
  \/ \E p \in Writers : Notify(p) \/ \E v \in Values : Store(p, v)

(* A waiter that is not blocked runs, and a writer that has stored goes on *)
(* to notify. Nobody need call a wait or store anything.                   *)
Spec == Init /\ [][Next]_vars
             /\ \A t \in Waiters : WF_vars(Wait(t))
             /\ \A p \in Writers : WF_vars(Notify(p))

-------------------------------------------------------------------------------
(* Properties.                                                             *)

(* Every variable has its type, and current is loaded before it is used.   *)
TypeOK ==
  /\ value \in Values
  /\ pc \in [Waiters -> PCs]
  /\ current \in [Waiters -> Values \cup {Unloaded}]
  /\ \A t \in Waiters : pc[t] \notin {"idle", "load"} => current[t] \in Values
  /\ fresh \in [Waiters -> BOOLEAN]
  /\ published \in [Waiters -> BOOLEAN]
  /\ notifying \subseteq Writers

(* A wait comes back only with a value that satisfies its predicate, and   *)
(* it blocks only on one that does not, however the value changed while it *)
(* was asleep and whatever woke it.                                        *)
WaitsForPredicate ==
  \A t \in Waiters :
    /\ pc[t] = "returned" => current[t] \in Satisfying[t]
    /\ pc[t] \in {"wait", "blocked", "reload"} => current[t] \notin Satisfying[t]

(* No wake-up is lost: whenever the value is one a blocked thread waits    *)
(* for, a notification that will reach it is still to come, also when the  *)
(* store fell between its load and its going to sleep.                     *)
NoLostWakeup ==
  \A t \in Waiters :
    pc[t] = "blocked" /\ value \in Satisfying[t] => notifying # {}

(* If in the end the value stays one that satisfies its predicate, a wait  *)
(* comes back.                                                             *)
StandingValueIsSeen ==
  \A t \in Waiters :
    <>[](value \in Satisfying[t]) =>
      (pc[t] \notin {"idle", "returned"} ~> pc[t] = "returned")

(* "order The memory order to use. Defaults to std::memory_order_acquire": *)
(* what the author of the value wrote before it is visible to the thread   *)
(* when its wait comes back.                                               *)
PublishedBeforeReturn ==
  \A t \in Waiters : pc[t] = "returned" => published[t]
================================================================================
