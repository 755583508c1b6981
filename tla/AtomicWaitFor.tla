----------------------------- MODULE AtomicWaitFor -----------------------------
(***************************************************************************)
(* The timed waits on an atomic (include/daw/daw_atomic_wait.h):           *)
(* atomic_wait_for, atomic_wait_if_for and atomic_wait_value_equal_for,    *)
(* which share one shape, and their _until forms.                          *)
(*                                                                         *)
(* One thread waits; it only reads the atomic, so several would not meet.  *)
(* The other threads of the program are Write, at any time, and the clock  *)
(* is Tick. Every load of the atomic and every reading of the clock is an  *)
(* action of its own, so that both may change in between.                  *)
(***************************************************************************)
EXTENDS Integers

CONSTANTS Values,     \* the values the atomic may take
          Satisfying, \* those the wait is for: not old, predicate( v ), or desired_value
          RelTimes,   \* the durations a caller may pass, in ticks
          Deadlines,  \* the time points a caller may pass
          Spins,      \* yields before polling with back-off (16 in the code)
          Polls,      \* polls before the first back-off (64 in the code)
          HalfAfter,  \* elapsed time beyond which the back-off sleeps for half of it
          LongAfter,  \* elapsed time beyond which it sleeps for LongSleep
          LongSleep,
          LastCall,   \* bound: a wait has fixed its final_time by this time
          LastSleep,  \* bound: a sleep that is decided on has begun by this time
          MaxNow      \* bound: time stops here

ASSUME Assumption ==
  /\ Satisfying \subseteq Values
  /\ Values # {}
  /\ RelTimes \subseteq Int /\ Deadlines \subseteq Int
  /\ {Spins, Polls, HalfAfter, LongAfter, LongSleep, LastCall, LastSleep, MaxNow} \subseteq Nat
  /\ 2 * LongSleep <= LongAfter  \* 8ms against 128ms

VARIABLES
  value, \* the atomic
  now,   \* high_resolution_clock, and the Clock of the _until forms
  w,     \* where the wait is, its locals, and the result of the last one
  past   \* what has happened since the wait was called; only properties read it

vars == <<value, now, w, past>>

PCs == {"idle", "final_time", "load", "spin", "start_time",
        "poll", "timed_out", "elapsed", "backoff", "sleep", "return"}

Locals == [pc: PCs, rel_time: Int, final_time: Int, start_time: Nat, elapsed: Int,
           wake: Nat, current: Values, tries: 0..Spins, count: 0..Polls,
           result: {"none", "found", "timeout"}]

Init ==
  /\ value \in Values
  /\ now = 0
  /\ w = [pc |-> "idle", rel_time |-> 0, final_time |-> 0, start_time |-> 0, elapsed |-> 0,
          wake |-> 0, current |-> value, tries |-> 0, count |-> 0, result |-> "none"]
  /\ past = [due |-> 0, held |-> {value}, seen |-> FALSE, late |-> 0, asleep |-> 0]

-------------------------------------------------------------------------------
(* The environment.                                                        *)

Write(v) ==
  /\ value' = v
  /\ past' = [past EXCEPT !.held = @ \cup {v}]
  /\ UNCHANGED <<now, w>>

Tick ==
  /\ now < MaxNow
  /\ w.pc = "final_time" => now < LastCall
  /\ w.pc = "backoff" => now < LastSleep
  /\ now' = now + 1
  /\ UNCHANGED <<value, w, past>>

-------------------------------------------------------------------------------
(* The wait.                                                               *)

(* The call, for a duration rel_time that ends at time due.                *)
Enter(rel_time, due) ==
  /\ w.pc = "idle"
  /\ now <= LastCall
  /\ w' = [w EXCEPT !.pc = "final_time", !.rel_time = rel_time, !.result = "none"]
  /\ past' = [due |-> due, held |-> {value}, seen |-> FALSE, late |-> 0, asleep |-> 0]
  /\ UNCHANGED <<value, now>>

CallFor(rel_time) == Enter(rel_time, now + rel_time)

(* The _until forms read their clock, and wait for what is left.           *)
CallUntil(timeout_time) == Enter(timeout_time - now, timeout_time)

Goto(pc) ==
  /\ w' = [w EXCEPT !.pc = pc]
  /\ UNCHANGED <<value, now, past>>

FinalTime ==
  /\ w.pc = "final_time"
  /\ w' = [w EXCEPT !.pc = "load", !.final_time = now + w.rel_time]
  /\ UNCHANGED <<value, now, past>>

(* current = the value of the atomic; a value waited for, loaded before    *)
(* the time is over, has been seen. late polls are over it.                *)
LoadThen(next, late) ==
  /\ w' = [next EXCEPT !.current = value]
  /\ past' = [past EXCEPT !.seen = @ \/ (value \in Satisfying /\ now < past.due),
                          !.late = late]
  /\ UNCHANGED <<value, now>>

FirstLoad ==
  /\ w.pc = "load"
  /\ LoadThen([w EXCEPT !.pc = "spin", !.tries = 0], past.late)

(* Mutant of Spin: no limit to the tries.                                  *)
SpinForEver ==
  /\ w.pc = "spin"
  /\ w.current \notin Satisfying
  /\ LoadThen(w, past.late)

Spin ==
  /\ w.pc = "spin"
  /\ w.current \notin Satisfying /\ w.tries < Spins
  /\ LoadThen([w EXCEPT !.tries = @ + 1], past.late)

SpinEnds ==
  /\ w.pc = "spin"
  /\ w.current \in Satisfying \/ w.tries >= Spins
  /\ Goto("start_time")

(* poll_with_backoff.                                                      *)
StartTime ==
  /\ w.pc = "start_time"
  /\ w' = [w EXCEPT !.pc = "poll", !.start_time = now, !.count = 0]
  /\ UNCHANGED <<value, now, past>>

(* poll_fn: load, and only if that is not it, look at the clock.           *)
Poll ==
  /\ w.pc = "poll"
  /\ LoadThen([w EXCEPT !.pc = IF value \in Satisfying THEN "return" ELSE "timed_out"],
              IF now >= w.final_time THEN past.late + 1 ELSE past.late)

TimedOut ==
  /\ w.pc = "timed_out"
  /\ now >= w.final_time
  /\ Goto("return")

(* poll_fn is false: poll again, the first Polls times without a pause.    *)
NotTimedOut ==
  /\ w.pc = "timed_out"
  /\ now < w.final_time
  /\ w' = IF w.count < Polls THEN [w EXCEPT !.pc = "poll", !.count = @ + 1]
                             ELSE [w EXCEPT !.pc = "elapsed"]
  /\ UNCHANGED <<value, now, past>>

(* Mutant of Backoff: twice as long each time.                             *)
BackoffDoubles(elapsed) ==
  IF elapsed > HalfAfter THEN elapsed ELSE 0

(* timed_backoff_policy: for how long it sleeps; it never gives up itself. *)
Backoff(elapsed) ==
  IF elapsed > LongAfter THEN LongSleep
  ELSE IF elapsed > HalfAfter THEN elapsed \div 2
  ELSE 0

(* Mutant of Elapsed: it does not begin a sleep that would end too late.   *)
ElapsedLooksAhead ==
  LET elapsed == now - w.start_time IN
  /\ w.pc = "elapsed"
  /\ elapsed + Backoff(elapsed) >= w.rel_time
  /\ Goto("return")

Elapsed ==
  LET elapsed == now - w.start_time IN
  /\ w.pc = "elapsed"
  /\ elapsed >= w.rel_time
  /\ Goto("return")

NotElapsed ==
  LET elapsed == now - w.start_time IN
  /\ w.pc = "elapsed"
  /\ elapsed < w.rel_time
  /\ w' = [w EXCEPT !.pc = "backoff", !.elapsed = elapsed]
  /\ UNCHANGED <<value, now, past>>

(* The policy is given the time elapsed as it was read, however long ago.  *)
GoToSleep ==
  /\ w.pc = "backoff"
  /\ w' = [w EXCEPT !.pc = "sleep", !.wake = now + Backoff(w.elapsed)]
  /\ past' = [past EXCEPT !.asleep = now]
  /\ UNCHANGED <<value, now>>

WakeUp ==
  /\ w.pc = "sleep"
  /\ now >= w.wake
  /\ Goto("poll")

(* Mutant of Return: what poll_with_backoff returns, which is true as well *)
(* when poll_fn has timed out.                                             *)
ReturnPolled ==
  /\ w.pc = "return"
  /\ w' = [w EXCEPT !.pc = "idle",
                    !.result = IF w.current \in Satisfying \/ now >= w.final_time
                               THEN "found" ELSE "timeout"]
  /\ UNCHANGED <<value, now, past>>

(* The result depends on the value last loaded, not on why polling ended.  *)
Return ==
  /\ w.pc = "return"
  /\ w' = [w EXCEPT !.pc = "idle",
                    !.result = IF w.current \in Satisfying THEN "found" ELSE "timeout"]
  /\ UNCHANGED <<value, now, past>>

Wait == FinalTime \/ FirstLoad \/ Spin \/ SpinEnds \/ StartTime \/ Poll \/ TimedOut
          \/ NotTimedOut \/ Elapsed \/ NotElapsed \/ GoToSleep \/ WakeUp \/ Return

Call == \/ \E rel_time \in RelTimes : CallFor(rel_time)
        \/ \E timeout_time \in Deadlines : CallUntil(timeout_time)

Next == Call \/ Wait \/ Tick \/ \E v \in Values : Write(v)

(* The waiting thread is scheduled and time passes. Nobody need write.     *)
Spec == Init /\ [][Next]_vars /\ WF_vars(Wait) /\ WF_vars(Tick)

-------------------------------------------------------------------------------
(* Properties.                                                             *)

(* Every variable has its type, and the retry counters keep to their       *)
(* limits.                                                                 *)
TypeOK ==
  /\ value \in Values
  /\ now \in Nat
  /\ w \in Locals
  /\ past \in [due: Int, held: SUBSET Values, seen: BOOLEAN, late: Nat, asleep: Nat]

Returned == w.pc = "idle" /\ w.result # "none"

(* The result is right: found only if the atomic held a value waited for   *)
(* at some time during the call, timeout only if it held another, whatever *)
(* the writers do between the loads and the readings of the clock.         *)
ResultIsTrue ==
  Returned =>
    /\ w.result = "found" => past.held \cap Satisfying # {}
    /\ w.result = "timeout" => past.held \ Satisfying # {}

(* A wait that gives up has waited as long as its caller asked for; an     *)
(* _until form, which computes a duration first and a time point from it   *)
(* later, never gives up before the time point it was given.               *)
NeverEarly == Returned /\ w.result = "timeout" => now >= past.due

(* A wait is late by little but what the scheduler takes, which may delay  *)
(* every step of it: once its final_time has come it polls at most once    *)
(* more, and a sleep, which starts some time after the clock was read, is  *)
(* no longer than leaves it, with the time elapsed at that reading, within *)
(* one and a half times the duration waited for.                           *)
OversleepBounded ==
  /\ past.late <= 1
  /\ w.pc = "sleep" => 2 * (w.elapsed + (w.wake - past.asleep)) < 3 * w.rel_time

(* Every wait comes back, even if the atomic never holds the value, or     *)
(* flips for ever.                                                         *)
Returns == w.pc # "idle" ~> Returned

(* "wait_status::found if the predicate evaluates to true before the       *)
(* timeout, and wait_status::timeout otherwise": a wait that has loaded    *)
(* such a value in time does not report a timeout.                         *)
FoundOnceSeen == Returned /\ w.result = "timeout" => ~ past.seen
================================================================================
