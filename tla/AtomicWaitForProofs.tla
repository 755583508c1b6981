-------------------------- MODULE AtomicWaitForProofs --------------------------
(***************************************************************************)
(* Proofs about AtomicWaitFor, for any values, durations, deadlines and    *)
(* limits, and however late the clock is read.                             *)
(*                                                                         *)
(* A wait has three views of when it is over: the time its caller meant    *)
(* (due), final_time, and start_time + rel_time. Each is computed from a   *)
(* later reading of the clock than the one before, so neither of the last  *)
(* two comes before due (InTime). And the value that decides the result is *)
(* always one the atomic held during the call (Loaded). A poll begun after *)
(* final_time finds the value or the time over, and is the last, and a     *)
(* sleep rests on a reading of the clock within the duration (Lateness).   *)
(***************************************************************************)
EXTENDS AtomicWaitFor, TLAPS

Polling == {"poll", "timed_out", "elapsed", "backoff", "sleep"}

(* The time points of a wait under way, and of one that has given up.      *)
InTime ==
  /\ w.pc = "final_time" => past.due <= now + w.rel_time
  /\ w.pc \in {"load", "spin", "start_time"} =>
       past.due <= w.final_time /\ past.due <= now + w.rel_time
  /\ w.pc \in Polling =>
       past.due <= w.final_time /\ past.due <= w.start_time + w.rel_time
         /\ w.start_time <= now
  /\ w.pc = "return" /\ w.current \notin Satisfying => past.due <= now
  /\ NeverEarly

(* The atomic has held the value loaded last since the call.               *)
Loaded ==
  /\ value \in past.held
  /\ w.pc \in {"spin", "start_time", "timed_out", "elapsed", "backoff", "sleep", "return"} =>
       w.current \in past.held
  /\ ResultIsTrue

(* Why OversleepBounded holds.                                             *)
Lateness ==
  /\ past.late = 0 \/ (past.late = 1 /\ w.final_time <= now
                         /\ w.pc \in {"timed_out", "return", "idle"})
  /\ w.pc = "backoff" => w.elapsed \in Nat /\ w.elapsed < w.rel_time
  /\ OversleepBounded

IInv == TypeOK /\ InTime /\ Loaded /\ Lateness

-------------------------------------------------------------------------------

(* The back-off sleeps for at most half of the time that has elapsed.      *)
LEMMA BackoffHalves ==
  ASSUME NEW elapsed \in Nat
  PROVE  Backoff(elapsed) \in Nat /\ 2 * Backoff(elapsed) <= elapsed
  BY Assumption DEF Backoff

LEMMA InitInv == Init => IInv
  BY Assumption DEF Init, IInv, TypeOK, Locals, PCs, InTime, Polling, NeverEarly, Returned, Loaded,
                    ResultIsTrue, Lateness, OversleepBounded

LEMMA TypeStep == TypeOK /\ [Next]_vars => TypeOK'
<1> SUFFICES ASSUME TypeOK, [Next]_vars PROVE TypeOK'
  OBVIOUS
<1>0. /\ w \in Locals /\ value \in Values /\ now \in Nat
      /\ past \in [due: Int, held: SUBSET Values, seen: BOOLEAN, late: Nat, asleep: Nat]
  BY DEF TypeOK
<1>a. /\ w.rel_time \in Int /\ w.start_time \in Nat /\ w.tries \in 0..Spins
      /\ w.count \in 0..Polls /\ Spins \in Nat /\ Polls \in Nat
  BY <1>0, Assumption DEF Locals
<1>b. ASSUME NEW pc \in PCs, Goto(pc) PROVE TypeOK'
  BY <1>0, <1>b DEF Goto, TypeOK, Locals
<1>c. ASSUME NEW next \in Locals, NEW late \in Nat, LoadThen(next, late) PROVE TypeOK'
  BY <1>0, <1>c DEF LoadThen, TypeOK, Locals
<1>d. ASSUME w' \in Locals, UNCHANGED <<value, now, past>> PROVE TypeOK'
  BY <1>0, <1>d DEF TypeOK
<1>e. ASSUME NEW rel_time \in Int, NEW due \in Int, Enter(rel_time, due) PROVE TypeOK'
  <2>1. w' \in Locals
    BY <1>0, <1>e DEF Enter, Locals, PCs
  <2>2. past' \in [due: Int, held: SUBSET Values, seen: BOOLEAN, late: Nat, asleep: Nat]
    BY <1>0, <1>e DEF Enter
  <2> QED
    BY <1>0, <1>e, <2>1, <2>2 DEF Enter, TypeOK
<1>1. ASSUME NEW v \in Values, Write(v) PROVE TypeOK'
  BY <1>0, <1>1 DEF Write, TypeOK
<1>2. CASE Tick
  BY <1>0, <1>2 DEF Tick, TypeOK
<1>3. ASSUME NEW rel_time \in RelTimes, CallFor(rel_time) PROVE TypeOK'
  <2>1. rel_time \in Int /\ now + rel_time \in Int
    BY <1>0, Assumption
  <2> QED
    BY <1>3, <1>e, <2>1 DEF CallFor
<1>4. ASSUME NEW timeout_time \in Deadlines, CallUntil(timeout_time) PROVE TypeOK'
  <2>1. timeout_time - now \in Int /\ timeout_time \in Int
    BY <1>0, Assumption
  <2> QED
    BY <1>4, <1>e, <2>1 DEF CallUntil
<1>5. CASE FinalTime
  <2>1. now + w.rel_time \in Int
    BY <1>0, <1>a
  <2>2. w' = [w EXCEPT !.pc = "load", !.final_time = now + w.rel_time]
    BY <1>5 DEF FinalTime
  <2>3. w' \in Locals
    BY <1>0, <2>1, <2>2 DEF Locals, PCs
  <2> QED
    BY <1>5, <1>d, <2>3 DEF FinalTime
<1>6. CASE FirstLoad
  <2>1. 0 \in 0..Spins
    BY <1>a
  <2>2. [w EXCEPT !.pc = "spin", !.tries = 0] \in Locals
    BY <1>0, <2>1 DEF Locals, PCs
  <2> QED
    BY <1>0, <1>6, <1>c, <2>2 DEF FirstLoad
<1>7. CASE Spin
  <2>1. w.tries + 1 \in 0..Spins
    BY <1>7, <1>a DEF Spin
  <2>2. [w EXCEPT !.tries = w.tries + 1] \in Locals
    BY <1>0, <2>1 DEF Locals
  <2> QED
    BY <1>0, <1>7, <1>c, <2>2 DEF Spin
<1>8. CASE Poll
  <2>1. [w EXCEPT !.pc = IF value \in Satisfying THEN "return" ELSE "timed_out"] \in Locals
    BY <1>0 DEF Locals, PCs
  <2>2. (IF now >= w.final_time THEN past.late + 1 ELSE past.late) \in Nat
    BY <1>0
  <2> QED
    BY <1>8, <1>c, <2>1, <2>2 DEF Poll
<1>9. CASE SpinEnds \/ TimedOut \/ Elapsed \/ WakeUp
  BY <1>9, <1>b DEF SpinEnds, TimedOut, Elapsed, WakeUp, PCs
<1>10. CASE StartTime
  <2>1. 0 \in 0..Polls
    BY <1>a
  <2>2. w' \in Locals
    BY <1>0, <1>10, <2>1 DEF StartTime, Locals, PCs
  <2> QED
    BY <1>10, <1>d, <2>2 DEF StartTime
<1>11. CASE NotTimedOut
  <2>1. ASSUME w.count < Polls PROVE w' \in Locals
    <3>1. w.count + 1 \in 0..Polls
      BY <1>a, <2>1
    <3>2. w' = [w EXCEPT !.pc = "poll", !.count = w.count + 1]
      BY <1>11, <2>1 DEF NotTimedOut
    <3> QED
      BY <1>0, <3>1, <3>2 DEF Locals, PCs
  <2>2. ASSUME ~ w.count < Polls PROVE w' \in Locals
    BY <1>0, <1>11, <2>2 DEF NotTimedOut, Locals, PCs
  <2> QED
    BY <1>11, <1>d, <2>1, <2>2 DEF NotTimedOut
<1>12. CASE NotElapsed \/ GoToSleep
  <2>1. CASE NotElapsed
    <3> DEFINE elapsed == now - w.start_time
    <3>1. elapsed \in Int
      BY <1>0, <1>a
    <3>2. w' = [w EXCEPT !.pc = "backoff", !.elapsed = elapsed]
      BY <2>1 DEF NotElapsed
    <3> HIDE DEF elapsed
    <3>3. w' \in Locals
      BY <1>0, <3>1, <3>2 DEF Locals, PCs
    <3> QED
      BY <2>1, <1>d, <3>3 DEF NotElapsed
  <2>2. CASE GoToSleep
    <3>1. now + Backoff(w.elapsed) \in Nat
      <4>1. w.elapsed \in Int
        BY <1>0 DEF Locals
      <4>2. Backoff(w.elapsed) \in Nat
        BY <4>1, Assumption DEF Backoff
      <4> QED
        BY <1>0, <4>2
    <3>2. w' \in Locals
      BY <1>0, <2>2, <3>1 DEF GoToSleep, Locals, PCs
    <3>3. past' \in [due: Int, held: SUBSET Values, seen: BOOLEAN, late: Nat, asleep: Nat]
      BY <1>0, <2>2 DEF GoToSleep
    <3> QED
      BY <1>0, <2>2, <3>2, <3>3 DEF GoToSleep, TypeOK
  <2> QED
    BY <1>12, <2>1, <2>2
<1>13. CASE Return
  <2>1. w' \in Locals
    BY <1>0, <1>13 DEF Return, Locals, PCs
  <2> QED
    BY <1>13, <1>d, <2>1 DEF Return
<1>14. CASE UNCHANGED vars
  BY <1>0, <1>14 DEF vars, TypeOK
<1> QED
  BY <1>1, <1>2, <1>3, <1>4, <1>5, <1>6, <1>7, <1>8, <1>9, <1>10, <1>11, <1>12, <1>13, <1>14
     DEF Next, Wait, Call

LEMMA TimeStep == TypeOK /\ InTime /\ [Next]_vars => InTime'
<1> SUFFICES ASSUME TypeOK, InTime, [Next]_vars PROVE InTime'
  OBVIOUS
<1> USE Assumption DEF TypeOK, Locals, PCs, Goto, LoadThen, Enter, InTime, Polling, NeverEarly, Returned
<1>1. ASSUME NEW v \in Values, Write(v) PROVE InTime'
  BY <1>1 DEF Write
<1>2. CASE Tick
  BY <1>2 DEF Tick
<1>3. ASSUME NEW rel_time \in RelTimes, CallFor(rel_time) PROVE InTime'
  BY <1>3 DEF CallFor
<1>4. ASSUME NEW timeout_time \in Deadlines, CallUntil(timeout_time) PROVE InTime'
  BY <1>4 DEF CallUntil
<1>5. CASE FinalTime
  BY <1>5 DEF FinalTime
<1>6. CASE FirstLoad \/ Spin \/ Poll
  <2>1. CASE FirstLoad
    BY <2>1 DEF FirstLoad
  <2>2. CASE Spin
    BY <2>2 DEF Spin
  <2>3. CASE Poll
    BY <2>3 DEF Poll
  <2> QED
    BY <1>6, <2>1, <2>2, <2>3
<1>7. CASE SpinEnds \/ WakeUp
  BY <1>7 DEF SpinEnds, WakeUp
<1>8. CASE TimedOut \/ Elapsed
  BY <1>8 DEF TimedOut, Elapsed
<1>9. CASE StartTime
  BY <1>9 DEF StartTime
<1>10. CASE NotTimedOut
  BY <1>10 DEF NotTimedOut
<1>11. CASE NotElapsed \/ GoToSleep
  BY <1>11 DEF NotElapsed, GoToSleep
<1>12. CASE Return
  BY <1>12 DEF Return
<1>13. CASE UNCHANGED vars
  BY <1>13 DEF vars
<1> QED
  BY <1>1, <1>2, <1>3, <1>4, <1>5, <1>6, <1>7, <1>8, <1>9, <1>10, <1>11, <1>12, <1>13
     DEF Next, Wait, Call

LEMMA LoadedStep == TypeOK /\ Loaded /\ [Next]_vars => Loaded'
<1> SUFFICES ASSUME TypeOK, Loaded, [Next]_vars PROVE Loaded'
  OBVIOUS
<1> USE Assumption DEF TypeOK, Locals, PCs, Goto, LoadThen, Enter, Loaded, ResultIsTrue, Returned
<1>1. ASSUME NEW v \in Values, Write(v) PROVE Loaded'
  BY <1>1 DEF Write
<1>2. CASE Tick \/ FinalTime \/ SpinEnds \/ TimedOut \/ Elapsed \/ WakeUp
  BY <1>2 DEF Tick, FinalTime, SpinEnds, TimedOut, Elapsed, WakeUp
<1>3. ASSUME NEW rel_time \in RelTimes, CallFor(rel_time) PROVE Loaded'
  BY <1>3 DEF CallFor
<1>4. ASSUME NEW timeout_time \in Deadlines, CallUntil(timeout_time) PROVE Loaded'
  BY <1>4 DEF CallUntil
<1>5. CASE FirstLoad \/ Spin \/ Poll
  BY <1>5 DEF FirstLoad, Spin, Poll
<1>6. CASE StartTime \/ NotTimedOut
  BY <1>6 DEF StartTime, NotTimedOut
<1>7. CASE NotElapsed \/ GoToSleep
  BY <1>7 DEF NotElapsed, GoToSleep
<1>8. CASE Return
  BY <1>8 DEF Return
<1>9. CASE UNCHANGED vars
  BY <1>9 DEF vars
<1> QED
  BY <1>1, <1>2, <1>3, <1>4, <1>5, <1>6, <1>7, <1>8, <1>9 DEF Next, Wait, Call

LEMMA LateStep == TypeOK /\ InTime /\ Lateness /\ [Next]_vars => Lateness'
<1> SUFFICES ASSUME TypeOK, InTime, Lateness, [Next]_vars PROVE Lateness'
  OBVIOUS
<1> USE DEF TypeOK, Locals, PCs, Goto, LoadThen, Enter, Lateness, OversleepBounded
<1>1. ASSUME NEW v \in Values, Write(v) PROVE Lateness'
  BY <1>1 DEF Write
<1>2. CASE Tick
  BY <1>2 DEF Tick
<1>3. ASSUME NEW rel_time \in RelTimes, CallFor(rel_time) PROVE Lateness'
  BY <1>3 DEF CallFor
<1>4. ASSUME NEW timeout_time \in Deadlines, CallUntil(timeout_time) PROVE Lateness'
  BY <1>4 DEF CallUntil
<1>5. CASE FinalTime \/ StartTime \/ NotTimedOut
  <2>1. CASE FinalTime
    BY <2>1 DEF FinalTime
  <2>2. CASE StartTime
    BY <2>2 DEF StartTime
  <2>3. CASE NotTimedOut
    BY <2>3 DEF NotTimedOut
  <2> QED
    BY <1>5, <2>1, <2>2, <2>3
<1>6. CASE FirstLoad \/ Spin
  BY <1>6 DEF FirstLoad, Spin
<1>7. CASE Poll
  BY <1>7 DEF Poll
<1>8. CASE SpinEnds \/ TimedOut \/ Elapsed \/ WakeUp
  BY <1>8 DEF SpinEnds, TimedOut, Elapsed, WakeUp
<1>9. CASE NotElapsed
  BY <1>9 DEF NotElapsed, InTime, Polling
<1>10. CASE GoToSleep
  <2>1. /\ w'.wake = now + Backoff(w.elapsed) /\ w'.elapsed = w.elapsed
        /\ w'.rel_time = w.rel_time /\ past'.asleep = now /\ past'.late = past.late
        /\ past.late = 0
    BY <1>10 DEF GoToSleep
  <2>2. w.elapsed \in Nat /\ w.elapsed < w.rel_time /\ w.rel_time \in Int /\ now \in Nat
    BY <1>10 DEF GoToSleep
  <2>3. Backoff(w.elapsed) \in Nat /\ 2 * Backoff(w.elapsed) <= w.elapsed
    BY <2>2, BackoffHalves
  <2>4. w'.pc = "sleep"
    BY <1>10 DEF GoToSleep
  <2> QED
    BY <2>1, <2>2, <2>3, <2>4
<1>11. CASE Return
  BY <1>11 DEF Return
<1>12. CASE UNCHANGED vars
  BY <1>12 DEF vars
<1> QED
  BY <1>1, <1>2, <1>3, <1>4, <1>5, <1>6, <1>7, <1>8, <1>9, <1>10, <1>11, <1>12
     DEF Next, Wait, Call

-------------------------------------------------------------------------------

(* The inductive invariant holds in every reachable state.                 *)
THEOREM Invariance == Spec => []IInv
<1>1. IInv /\ [Next]_vars => IInv'
  BY TypeStep, TimeStep, LoadedStep, LateStep DEF IInv
<1> QED
  BY <1>1, InitInv, PTL DEF Spec

(* Every variable has its type; neither retry counter passes its limit.    *)
THEOREM TypeCorrect == Spec => []TypeOK
  BY Invariance, PTL DEF IInv

(* The atomic did hold, during the call, what the result says.             *)
THEOREM ResultCorrect == Spec => []ResultIsTrue
  BY Invariance, PTL DEF IInv, Loaded

(* No wait gives up before the time its caller meant.                      *)
THEOREM TimeoutNotEarly == Spec => []NeverEarly
  BY Invariance, PTL DEF IInv, InTime

(* However late its steps are run, a wait polls at most once after its     *)
(* time, and begins no sleep that would take it beyond one and a half      *)
(* durations from the reading of the clock it rests on.                    *)
THEOREM OversleepCorrect == Spec => []OversleepBounded
  BY Invariance, PTL DEF IInv, Lateness
================================================================================
