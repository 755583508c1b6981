-------------------------- MODULE AtomicWaitIfProofs ---------------------------
(***************************************************************************)
(* Proofs about AtomicWaitIf, for any number of waiters, writers and       *)
(* values.                                                                 *)
(*                                                                         *)
(* The three invariants are inductive together. A thread blocks only on a  *)
(* value its predicate has refused (WaitsForPredicate), so a value it      *)
(* waits for was stored after it had gone to sleep, and the author of that *)
(* store has a notification to give (NoLostWakeup).                        *)
(***************************************************************************)
EXTENDS AtomicWaitIf, TLAPS

IInv == TypeOK /\ WaitsForPredicate /\ NoLostWakeup

LEMMA InitInv == Init => IInv
  BY DEF Init, IInv, TypeOK, PCs, WaitsForPredicate, NoLostWakeup

LEMMA TypeStep == TypeOK /\ [Next]_vars => TypeOK'
<1> SUFFICES ASSUME TypeOK, [Next]_vars PROVE TypeOK'
  OBVIOUS
<1> USE DEF TypeOK, PCs, Goto
<1>1. ASSUME NEW t \in Waiters, Call(t) PROVE TypeOK'
  BY <1>1 DEF Call
<1>2. ASSUME NEW t \in Waiters, Load(t) PROVE TypeOK'
  BY <1>2 DEF Load
<1>3. ASSUME NEW t \in Waiters, Test(t) PROVE TypeOK'
  BY <1>3 DEF Test
<1>4. ASSUME NEW t \in Waiters, Block(t) \/ Changed(t) \/ SpuriousWake(t) PROVE TypeOK'
  BY <1>4 DEF Block, Changed, SpuriousWake
<1>5. ASSUME NEW t \in Waiters, Reload(t) PROVE TypeOK'
  BY <1>5 DEF Reload
<1>6. ASSUME NEW p \in Writers, Notify(p) PROVE TypeOK'
  BY <1>6 DEF Notify
<1>7. ASSUME NEW p \in Writers, NEW v \in Values, Store(p, v) PROVE TypeOK'
  BY <1>7 DEF Store
<1>8. CASE UNCHANGED vars
  BY <1>8 DEF vars
<1> QED
  BY <1>1, <1>2, <1>3, <1>4, <1>5, <1>6, <1>7, <1>8 DEF Next, Wait

LEMMA PredicateStep == TypeOK /\ WaitsForPredicate /\ [Next]_vars => WaitsForPredicate'
<1> SUFFICES ASSUME TypeOK, WaitsForPredicate, [Next]_vars PROVE WaitsForPredicate'
  OBVIOUS
<1> USE DEF TypeOK, PCs, Goto, WaitsForPredicate
<1>1. ASSUME NEW t \in Waiters, Call(t) \/ Load(t) \/ Reload(t) PROVE WaitsForPredicate'
  BY <1>1 DEF Call, Load, Reload
<1>2. ASSUME NEW t \in Waiters, Test(t) PROVE WaitsForPredicate'
  BY <1>2 DEF Test
<1>3. ASSUME NEW t \in Waiters, Block(t) \/ Changed(t) \/ SpuriousWake(t)
      PROVE  WaitsForPredicate'
  BY <1>3 DEF Block, Changed, SpuriousWake
<1>4. ASSUME NEW p \in Writers, Notify(p) PROVE WaitsForPredicate'
  BY <1>4 DEF Notify
<1>5. ASSUME NEW p \in Writers, NEW v \in Values, Store(p, v) PROVE WaitsForPredicate'
  BY <1>5 DEF Store
<1>6. CASE UNCHANGED vars
  BY <1>6 DEF vars
<1> QED
  BY <1>1, <1>2, <1>3, <1>4, <1>5, <1>6 DEF Next, Wait

LEMMA WakeupStep == IInv /\ [Next]_vars => NoLostWakeup'
<1> SUFFICES ASSUME IInv, [Next]_vars PROVE NoLostWakeup'
  OBVIOUS
<1> USE DEF IInv, TypeOK, PCs, Goto, NoLostWakeup
<1>1. ASSUME NEW t \in Waiters, Call(t) \/ Load(t) \/ Test(t) \/ Changed(t) \/ Reload(t)
                                \/ SpuriousWake(t)
      PROVE  NoLostWakeup'
  BY <1>1 DEF Call, Load, Test, Changed, Reload, SpuriousWake
<1>2. ASSUME NEW t \in Waiters, Block(t) PROVE NoLostWakeup'
  <2>1. value \notin Satisfying[t]
    BY <1>2 DEF Block, WaitsForPredicate
  <2> QED
    BY <1>2, <2>1 DEF Block
<1>3. ASSUME NEW p \in Writers, Notify(p) PROVE NoLostWakeup'
  <2>1. \A t \in Waiters : pc'[t] # "blocked"
    BY <1>3 DEF Notify
  <2> QED
    BY <2>1
<1>4. ASSUME NEW p \in Writers, NEW v \in Values, Store(p, v) PROVE NoLostWakeup'
  BY <1>4 DEF Store
<1>5. CASE UNCHANGED vars
  BY <1>5 DEF vars
<1> QED
  BY <1>1, <1>2, <1>3, <1>4, <1>5 DEF Next, Wait

(* The inductive invariant holds in every reachable state.                 *)
THEOREM Invariance == Spec => []IInv
<1>1. IInv /\ [Next]_vars => IInv'
  BY TypeStep, PredicateStep, WakeupStep DEF IInv
<1> QED
  BY <1>1, InitInv, PTL DEF Spec

(* Every variable has its type; a value is loaded before it is tested.     *)
THEOREM TypeCorrect == Spec => []TypeOK
  BY Invariance, PTL DEF IInv

(* A wait returns only with a value its predicate accepts.                 *)
THEOREM PredicateHolds == Spec => []WaitsForPredicate
  BY Invariance, PTL DEF IInv

(* No blocked thread is left without a notification to come.               *)
THEOREM WakeupsArrive == Spec => []NoLostWakeup
  BY Invariance, PTL DEF IInv
================================================================================
