-------------------------- MODULE SharedFunctionProofs -------------------------
(***************************************************************************)
(* Proofs about SharedFunction, for any number of threads, handles and     *)
(* blocks.                                                                 *)
(*                                                                         *)
(* The argument: IInv is inductive. Its counting part is about two sets    *)
(* per block and counter, the handles that hold the block and the threads  *)
(* that owe it a count. Every action moves one thread and at most two      *)
(* handles in or out of them (ThreadsUpdate, HoldersUpdate), so the sum of *)
(* the cardinalities follows the counter. A count of 0 then says that both *)
(* sets are empty, which is what makes reset_storage and delete safe.      *)
(***************************************************************************)
EXTENDS SharedFunction, FiniteSetTheorems, TLAPS

-------------------------------------------------------------------------------
(* Cardinalities.                                                          *)

(* Two sets that differ at most in x differ in size by what they say of x. *)
LEMMA Toggle ==
  ASSUME NEW S, NEW T, NEW x, IsFiniteSet(S),
         \A y : y # x => (y \in S <=> y \in T)
  PROVE  /\ IsFiniteSet(T)
         /\ Cardinality(T) + (IF x \in S THEN 1 ELSE 0)
              = Cardinality(S) + (IF x \in T THEN 1 ELSE 0)
<1>1. CASE x \in S <=> x \in T
  <2>1. S = T
    BY <1>1
  <2> QED
    BY <2>1, FS_CardinalityType
<1>2. CASE x \in S /\ x \notin T
  <2>1. T = S \ {x}
    BY <1>2
  <2>2. IsFiniteSet(T) /\ Cardinality(T) = Cardinality(S) - 1
    BY <1>2, <2>1, FS_RemoveElement
  <2> QED
    BY <1>2, <2>2, FS_CardinalityType
<1>3. CASE x \notin S /\ x \in T
  <2>1. T = S \cup {x}
    BY <1>3
  <2>2. IsFiniteSet(T) /\ Cardinality(T) = Cardinality(S) + 1
    BY <1>3, <2>1, FS_AddElement
  <2> QED
    BY <1>3, <2>2, FS_CardinalityType
<1> QED
  BY <1>1, <1>2, <1>3

LEMMA HoldersFinite ==
  ASSUME NEW H, H \subseteq Handles, NEW b
  PROVE  /\ IsFiniteSet(HoldersIn(H, b))
         /\ Cardinality(HoldersIn(H, b)) \in Nat
         /\ Cardinality(HoldersIn(H, b)) = 0 <=> HoldersIn(H, b) = {}
<1>1. IsFiniteSet(Handles)
  BY Assumption, FS_Union DEF Handles
<1>2. HoldersIn(H, b) \subseteq Handles
  BY DEF HoldersIn
<1>3. IsFiniteSet(HoldersIn(H, b))
  BY <1>1, <1>2, FS_Subset
<1> QED
  BY <1>3, FS_CardinalityType, FS_EmptySet

LEMMA ThreadsFinite ==
  ASSUME NEW P, NEW b
  PROVE  /\ IsFiniteSet(ThreadsAt(P, b))
         /\ Cardinality(ThreadsAt(P, b)) \in Nat
         /\ Cardinality(ThreadsAt(P, b)) = 0 <=> ThreadsAt(P, b) = {}
<1>1. ThreadsAt(P, b) \subseteq Threads
  BY DEF ThreadsAt
<1>2. IsFiniteSet(ThreadsAt(P, b))
  BY <1>1, Assumption, FS_Subset
<1> QED
  BY <1>2, FS_CardinalityType, FS_EmptySet

(* The two sets as functions of a state, to speak of two states at once.   *)
Holding(f, H, b) == {h \in H : f[h] = b}
Bit(P) == IF P THEN 1 ELSE 0
Owes(o, P, b) == IF o.pc \in P /\ o.b = b THEN 1 ELSE 0
Being(f, P, b) == {t \in Threads : f[t].pc \in P /\ f[t].b = b}

(* What one thread, or one handle, that changes does to the two numbers.   *)
ThreadsDiffer(f, g, t, P, b) ==
  /\ Cardinality(Being(f, P, b)) \in Nat
  /\ Cardinality(Being(g, P, b)) \in Nat
  /\ Cardinality(Being(g, P, b)) + Owes(f[t], P, b)
       = Cardinality(Being(f, P, b)) + Owes(g[t], P, b)

HoldersDiffer(f, g, h, H, b) ==
  /\ Cardinality(Holding(f, H, b)) \in Nat
  /\ Cardinality(Holding(g, H, b)) \in Nat
  /\ Cardinality(Holding(g, H, b)) + Bit(h \in H /\ f[h] = b)
       = Cardinality(Holding(f, H, b)) + Bit(h \in H /\ g[h] = b)

(* One thread t moves: what that does to the number of threads that are at *)
(* P for b.                                                                *)
LEMMA ThreadsUpdate ==
  ASSUME NEW f, NEW g, NEW t \in Threads,
         \A u \in Threads : u # t => g[u] = f[u],
         NEW P, NEW b
  PROVE  ThreadsDiffer(f, g, t, P, b)
<1> DEFINE S == Being(f, P, b)
           T == Being(g, P, b)
<1>2. \A u : u # t => (u \in S <=> u \in T)
  BY DEF Being
<1>3. /\ t \in S <=> f[t].pc \in P /\ f[t].b = b
      /\ t \in T <=> g[t].pc \in P /\ g[t].b = b
  BY DEF Being
<1>4. IsFiniteSet(S)
  <2>1. S \subseteq Threads
    BY DEF Being
  <2> QED
    BY <2>1, Assumption, FS_Subset
<1> HIDE DEF S, T
<1>5. /\ IsFiniteSet(T)
      /\ Cardinality(T) + (IF t \in S THEN 1 ELSE 0)
           = Cardinality(S) + (IF t \in T THEN 1 ELSE 0)
  BY <1>2, <1>4, Toggle
<1>6. Cardinality(S) \in Nat /\ Cardinality(T) \in Nat
  BY <1>4, <1>5, FS_CardinalityType
<1> QED
  BY <1>3, <1>5, <1>6 DEF S, T, ThreadsDiffer, Owes

(* One handle h is set: what that does to the number of handles of H that  *)
(* hold b.                                                                 *)
LEMMA HoldersUpdate ==
  ASSUME NEW f, NEW g, NEW h \in Handles,
         \A x \in Handles : x # h => g[x] = f[x],
         NEW H, H \subseteq Handles, NEW b
  PROVE  HoldersDiffer(f, g, h, H, b)
<1> DEFINE S == Holding(f, H, b)
           T == Holding(g, H, b)
<1>2. \A x : x # h => (x \in S <=> x \in T)
  BY DEF Holding
<1>3. /\ h \in S <=> h \in H /\ f[h] = b
      /\ h \in T <=> h \in H /\ g[h] = b
  BY DEF Holding
<1>4. IsFiniteSet(S)
  <2>1. S \subseteq Handles /\ IsFiniteSet(Handles)
    BY Assumption, FS_Union DEF Holding, Handles
  <2> QED
    BY <2>1, FS_Subset
<1> HIDE DEF S, T
<1>5. /\ IsFiniteSet(T)
      /\ Cardinality(T) + (IF h \in S THEN 1 ELSE 0)
           = Cardinality(S) + (IF h \in T THEN 1 ELSE 0)
  BY <1>2, <1>4, Toggle
<1>6. Cardinality(S) \in Nat /\ Cardinality(T) \in Nat
  BY <1>4, <1>5, FS_CardinalityType
<1> QED
  BY <1>3, <1>5, <1>6 DEF S, T, HoldersDiffer, Bit

(* What src held goes to dst: b is held by as many handles as before, less *)
(* dst if it gave up b.                                                    *)
HoldersLess(f, g, h, H, b) ==
  /\ Cardinality(Holding(f, H, b)) \in Nat
  /\ Cardinality(Holding(g, H, b)) \in Nat
  /\ Cardinality(Holding(g, H, b)) + Bit(h \in H /\ f[h] = b) = Cardinality(Holding(f, H, b))

LEMMA HoldersMove ==
  ASSUME NEW f \in [Handles -> Blocks \cup {NULL}], NEW g,
         NEW dst \in Handles, NEW src \in Handles, dst # src,
         g[dst] = f[src], g[src] = NULL,
         \A x \in Handles : x # dst /\ x # src => g[x] = f[x],
         NEW H, H \subseteq Handles, dst \in H <=> src \in H,
         NEW b \in Blocks
  PROVE  HoldersLess(f, g, dst, H, b)
<1> DEFINE m == [f EXCEPT ![dst] = f[src]]
<1>1. /\ \A x \in Handles : x # dst => m[x] = f[x]
      /\ \A x \in Handles : x # src => g[x] = m[x]
  OBVIOUS
<1>2. m[dst] = f[src] /\ m[src] = f[src] /\ g[src] = NULL /\ NULL # b
  BY Assumption
<1> HIDE DEF m
<1>3. HoldersDiffer(f, m, dst, H, b)
  BY <1>1, HoldersUpdate
<1>4. HoldersDiffer(m, g, src, H, b)
  BY <1>1, HoldersUpdate
<1> QED
  BY <1>2, <1>3, <1>4 DEF HoldersDiffer, HoldersLess, Bit

-------------------------------------------------------------------------------
(* What the counts say of one thread and of one handle.                    *)

LEMMA Owed ==
  ASSUME CountsExact, TypeOK, NEW b \in Blocks
  PROVE  /\ m_strong_count[b] \in Nat /\ m_weak_count[b] \in Nat
         /\ \A h \in Handles : m_storage[h] = b => m_weak_count[b] > 0
         /\ \A h \in Strong : m_storage[h] = b => m_strong_count[b] > 0
         /\ \A t \in Threads : op[t].b = b =>
              /\ op[t].pc \in StrongInFlight => m_strong_count[b] > 0
              /\ op[t].pc \in WeakInFlight => m_weak_count[b] > 0
<1>1. /\ Cardinality(HoldersIn(Strong, b)) \in Nat
      /\ Cardinality(HoldersIn(Strong, b)) = 0 <=> HoldersIn(Strong, b) = {}
      /\ Cardinality(HoldersIn(Handles, b)) \in Nat
      /\ Cardinality(HoldersIn(Handles, b)) = 0 <=> HoldersIn(Handles, b) = {}
  <2>1. Strong \subseteq Handles /\ Handles \subseteq Handles
    BY DEF Handles
  <2> QED
    BY <2>1, HoldersFinite
<1>2. /\ Cardinality(ThreadsAt(StrongInFlight, b)) \in Nat
      /\ Cardinality(ThreadsAt(StrongInFlight, b)) = 0 <=> ThreadsAt(StrongInFlight, b) = {}
      /\ Cardinality(ThreadsAt(WeakInFlight, b)) \in Nat
      /\ Cardinality(ThreadsAt(WeakInFlight, b)) = 0 <=> ThreadsAt(WeakInFlight, b) = {}
  BY ThreadsFinite
<1>3. /\ m_strong_count[b] \in Nat /\ m_weak_count[b] \in Nat
      /\ m_strong_count[b] = 0 => HoldersIn(Strong, b) = {} /\ ThreadsAt(StrongInFlight, b) = {}
      /\ m_weak_count[b] = 0 => HoldersIn(Handles, b) = {} /\ ThreadsAt(WeakInFlight, b) = {}
  BY <1>1, <1>2 DEF CountsExact, TypeOK
<1>4. /\ \A h \in Handles : m_storage[h] = b => HoldersIn(Handles, b) # {}
      /\ \A h \in Strong : m_storage[h] = b => HoldersIn(Strong, b) # {}
  BY DEF HoldersIn
<1>5. \A t \in Threads : op[t].b = b =>
              /\ op[t].pc \in StrongInFlight => ThreadsAt(StrongInFlight, b) # {}
              /\ op[t].pc \in WeakInFlight => ThreadsAt(WeakInFlight, b) # {}
  BY DEF ThreadsAt
<1> QED
  BY <1>3, <1>4, <1>5

(* While it is not about to delete, a thread inside an operation works on  *)
(* a block whose weak count is positive; and the strong count is positive  *)
(* while it takes a strong count from a strong handle, or calls.           *)
LEMMA Guarded ==
  ASSUME CountsExact, TypeOK, NEW t \in Threads, LocalOK(t),
         op[t].pc \notin {"idle", "delete"}
  PROVE  /\ op[t].b \in Blocks
         /\ m_weak_count[op[t].b] > 0
         /\ op[t].pc \in {"strong_inc", "call"} \cup StrongInFlight => m_strong_count[op[t].b] > 0
<1> DEFINE b == op[t].b
<1>1. op[t] \in Op
  BY DEF TypeOK
<1>2. op[t].pc \in PCs /\ op[t].src \in Handles \cup {NULL}
  BY <1>1 DEF Op
<1>3. b \in Blocks
  BY DEF LocalOK
<1>4. op[t].pc \in WeakInFlight \/ op[t].src \in Handles
  BY <1>2 DEF LocalOK, PCs, WeakInFlight, Handles
<1>5. op[t].src \in Handles => m_storage[op[t].src] = b
  BY Assumption DEF LocalOK, Handles
<1>6. op[t].pc \in {"strong_inc", "call"} => op[t].src \in Strong
  BY DEF LocalOK
<1>7. Strong \subseteq Handles
  BY DEF Handles
<1> HIDE DEF b
<1> QED
  BY <1>3, <1>4, <1>5, <1>6, <1>7, Owed DEF b

-------------------------------------------------------------------------------
(* Type correctness.                                                       *)

LEMMA ReleasingOp ==
  ASSUME NEW h, NEW old \in Blocks \cup {NULL}
  PROVE  /\ Releasing(h, old) \in Op
         /\ Releasing(h, old) = Idle \/ old \in Blocks
         /\ Releasing(h, old).dst = NULL /\ Releasing(h, old).src = NULL
  BY DEF Releasing, At, Frame, Idle, Op, PCs

LEMMA InitInv == Init => IInv
<1> SUFFICES ASSUME Init PROVE IInv
  OBVIOUS
<1>1. Idle \in Op
  BY DEF Frame, Idle, Op, PCs
<1>2. TypeOK
  BY <1>1 DEF Init, TypeOK
<1>3. CountsExact
  <2> SUFFICES ASSUME NEW b \in Blocks
               PROVE  /\ HoldersIn(Strong, b) = {} /\ HoldersIn(Handles, b) = {}
                      /\ ThreadsAt(StrongInFlight, b) = {} /\ ThreadsAt(WeakInFlight, b) = {}
    BY FS_EmptySet DEF CountsExact, Init
  <2> QED
    BY Assumption DEF Init, HoldersIn, ThreadsAt, Handles, Frame, Idle, StrongInFlight, WeakInFlight
<1>4. \A t \in Threads : LocalOK(t)
  BY DEF Init, LocalOK, Frame, Idle
<1>5. Exclusive
  BY DEF Init, Exclusive, Frame, Idle
<1>6. \A b \in Blocks : Life(b)
  BY Assumption DEF Init, Life, ThreadsAt, Frame, Idle
<1> QED
  BY <1>2, <1>3, <1>4, <1>5, <1>6 DEF IInv

(* The local facts a step of thread t starts from.                         *)
LEMMA StepStart ==
  ASSUME IInv, NEW t \in Threads
  PROVE  /\ op[t] \in Op /\ LocalOK(t)
         /\ op[t].pc \notin {"idle", "delete"} => 
              op[t].b \in Blocks /\ m_weak_count[op[t].b] > 0
         /\ op[t].pc \in {"strong_inc", "call"} \cup StrongInFlight => 
              m_strong_count[op[t].b] > 0
<1>1. op[t] \in Op /\ LocalOK(t) /\ CountsExact /\ TypeOK
  BY DEF IInv, TypeOK
<1>2. \A x \in StrongInFlight : x \notin {"idle", "delete"}
  BY DEF StrongInFlight
<1> QED
  BY <1>1, <1>2, Guarded

LEMMA TypeStep == IInv /\ Next => TypeOK'
<1> SUFFICES ASSUME IInv, NEW t \in Threads, Begin(t) \/ Continue(t) \/ Return(t)
             PROVE  TypeOK'
  BY DEF Next
<1> USE DEF TypeOK
<1>0. TypeOK /\ op[t] \in Op /\ LocalOK(t)
  BY StepStart DEF IInv
<1>1. ASSUME NEW h \in Strong, NEW b \in Blocks, Construct(t, h, b) PROVE TypeOK'
  BY <1>0, <1>1 DEF Construct, Handles
<1>2. ASSUME NEW dst \in Strong, NEW src \in Strong, CopyStrong(t, dst, src) PROVE TypeOK'
  BY <1>0, <1>2 DEF CopyStrong, Handles, Op, PCs, Frame
<1>3. ASSUME NEW dst \in Weak, NEW src \in Handles, CopyWeak(t, dst, src) PROVE TypeOK'
  BY <1>0, <1>3 DEF CopyWeak, Handles, Op, PCs, Frame
<1>4. ASSUME NEW dst \in Strong, NEW src \in Weak, Lock(t, dst, src) PROVE TypeOK'
  BY <1>0, <1>4 DEF Lock, Handles, Op, PCs, Frame
<1>5. ASSUME NEW dst \in Handles, NEW src \in Handles, Move(t, dst, src) PROVE TypeOK'
  BY <1>0, <1>5, ReleasingOp DEF Move
<1>6. ASSUME NEW h \in Handles, Clear(t, h) PROVE TypeOK'
  BY <1>0, <1>6, ReleasingOp DEF Clear, AssignThenRelease
<1>7. ASSUME NEW h \in Strong, Invoke(t, h) PROVE TypeOK'
  BY <1>0, <1>7 DEF Invoke, Handles, Op, PCs, Frame
<1>8. CASE StrongInc(t)
  BY <1>0, <1>8, StepStart DEF StrongInc, Goto, Op, PCs
<1>9. CASE CopyWeakInc(t)
  BY <1>0, <1>9, ReleasingOp, StepStart DEF CopyWeakInc, AssignThenRelease, LocalOK, Handles
<1>10. CASE WeakInc(t)
  BY <1>0, <1>10, ReleasingOp, StepStart DEF WeakInc, AssignThenRelease, LocalOK, Handles
<1>11. CASE Load(t)
  BY <1>0, <1>11, ReleasingOp, StepStart DEF Load, Observe, AssignThenRelease, LocalOK, Handles, Op, PCs
<1>12. CASE CasSucceeds(t)
  BY <1>0, <1>12, StepStart DEF CasSucceeds, Goto, Op, PCs
<1>13. CASE CasFails(t)
  BY <1>0, <1>13, ReleasingOp, StepStart DEF CasFails, Observe, AssignThenRelease, LocalOK, Handles, Op, PCs
<1>14. CASE UpgradeWeakInc(t)
  BY <1>0, <1>14, ReleasingOp, StepStart DEF UpgradeWeakInc, AssignThenRelease, LocalOK, Handles
<1>15. CASE StrongDec(t)
  BY <1>0, <1>15, StepStart DEF StrongDec, StrongInFlight, Goto, Op, PCs
<1>16. CASE ResetStorage(t)
  BY <1>0, <1>16, StepStart DEF ResetStorage, Goto, Op, PCs
<1>17. CASE WeakDec(t)
  BY <1>0, <1>17, StepStart DEF WeakDec, At, Idle, Frame, Op, PCs
<1>18. CASE Delete(t)
  BY <1>0, <1>18 DEF Delete, Idle, Frame, Op, PCs
<1>19. CASE Return(t)
  BY <1>0, <1>19 DEF Return, Idle, Frame, Op, PCs
<1> QED
  BY <1>1, <1>2, <1>3, <1>4, <1>5, <1>6, <1>7, <1>8, <1>9, <1>10, <1>11, <1>12, <1>13,
     <1>14, <1>15, <1>16, <1>17, <1>18, <1>19 DEF Begin, Continue

-------------------------------------------------------------------------------
(* The counts are exact: what each kind of step does to the two sides.     *)

Strongs(f, g, b) == Cardinality(Holding(f, Strong, b)) + Cardinality(Being(g, StrongInFlight, b))
Weaks(f, g, b) == Cardinality(Holding(f, Handles, b)) + Cardinality(Being(g, WeakInFlight, b))

CountsAt(b) ==
  /\ m_strong_count[b] = Strongs(m_storage, op, b)
  /\ m_weak_count[b] = Weaks(m_storage, op, b)

LEMMA CountsByBlock == CountsExact <=> \A b \in Blocks : CountsAt(b)
  BY DEF CountsExact, CountsAt, Strongs, Weaks, Holding, Being, HoldersIn, ThreadsAt

LEMMA CountsByBlockNext == CountsExact' <=> \A b \in Blocks : CountsAt(b)'
  BY DEF CountsExact, CountsAt, Strongs, Weaks, Holding, Being, HoldersIn, ThreadsAt

Others(t) == \A u \in Threads : u # t => op'[u] = op[u]

(* A step that changes no handle.                                          *)
LEMMA CountsKeep ==
  ASSUME NEW t \in Threads, Others(t), UNCHANGED m_storage, NEW b \in Blocks, CountsAt(b),
         m_strong_count'[b] + Owes(op[t], StrongInFlight, b)
           = m_strong_count[b] + Owes(op'[t], StrongInFlight, b),
         m_weak_count'[b] + Owes(op[t], WeakInFlight, b)
           = m_weak_count[b] + Owes(op'[t], WeakInFlight, b),
         m_strong_count'[b] \in Nat, m_weak_count'[b] \in Nat
  PROVE  CountsAt(b)'
<1>1. /\ Cardinality(Holding(m_storage, Strong, b)) \in Nat
      /\ Cardinality(Holding(m_storage, Handles, b)) \in Nat
  <2>1. Strong \subseteq Handles /\ Handles \subseteq Handles
    BY DEF Handles
  <2> QED
    BY <2>1, HoldersFinite DEF HoldersIn, Holding
<1>2. ThreadsDiffer(op, op', t, StrongInFlight, b)
  BY ThreadsUpdate DEF Others
<1>3. ThreadsDiffer(op, op', t, WeakInFlight, b)
  BY ThreadsUpdate DEF Others
<1>4. /\ Owes(op[t], StrongInFlight, b) \in {0, 1} /\ Owes(op'[t], StrongInFlight, b) \in {0, 1}
      /\ Owes(op[t], WeakInFlight, b) \in {0, 1} /\ Owes(op'[t], WeakInFlight, b) \in {0, 1}
  BY DEF Owes
<1>5. /\ Holding(m_storage', Strong, b) = Holding(m_storage, Strong, b)
      /\ Holding(m_storage', Handles, b) = Holding(m_storage, Handles, b)
  OBVIOUS
<1>6. m_strong_count'[b] = Strongs(m_storage', op', b)
  BY <1>1, <1>2, <1>4, <1>5 DEF CountsAt, Strongs, ThreadsDiffer
<1>7. m_weak_count'[b] = Weaks(m_storage', op', b)
  BY <1>1, <1>3, <1>4, <1>5 DEF CountsAt, Weaks, ThreadsDiffer
<1> QED
  BY <1>6, <1>7 DEF CountsAt

(* What the frame of a release owes balances what the handle held.         *)
LEMMA ReleasingOwes ==
  ASSUME NEW h \in Handles, NEW old \in Blocks \cup {NULL}, NEW b \in Blocks
  PROVE  /\ Owes(Releasing(h, old), StrongInFlight, b) = Bit(h \in Strong /\ old = b)
         /\ Owes(Releasing(h, old), WeakInFlight, b) = Bit(old = b)
  BY Assumption
     DEF Releasing, At, Frame, Idle, Owes, Bit, StrongInFlight, WeakInFlight

(* A step that sets handle h to v and goes on to release what it held.     *)
LEMMA CountsAssign ==
  ASSUME TypeOK, NEW t \in Threads, NEW h \in Handles, NEW v, AssignThenRelease(t, h, v),
         NEW b \in Blocks, CountsAt(b),
         m_strong_count'[b] + Owes(op[t], StrongInFlight, b)
           = m_strong_count[b] + Bit(h \in Strong /\ v = b),
         m_weak_count'[b] + Owes(op[t], WeakInFlight, b) = m_weak_count[b] + Bit(v = b),
         m_strong_count'[b] \in Nat, m_weak_count'[b] \in Nat
  PROVE  CountsAt(b)'
<1> DEFINE old == m_storage[h]
           o == Releasing(h, old)
<1>1. /\ op'[t] = o /\ \A u \in Threads : u # t => op'[u] = op[u]
      /\ m_storage'[h] = v /\ \A x \in Handles : x # h => m_storage'[x] = m_storage[x]
      /\ old \in Blocks \cup {NULL}
  BY DEF AssignThenRelease, TypeOK
<1>2. /\ Owes(o, StrongInFlight, b) = Bit(h \in Strong /\ old = b)
      /\ Owes(o, WeakInFlight, b) = Bit(old = b)
  BY <1>1, ReleasingOwes
<1> HIDE DEF o
<1>3. Strong \subseteq Handles /\ Handles \subseteq Handles
  BY DEF Handles
<1>4. HoldersDiffer(m_storage, m_storage', h, Strong, b)
  BY <1>1, <1>3, HoldersUpdate
<1>5. HoldersDiffer(m_storage, m_storage', h, Handles, b)
  BY <1>1, <1>3, HoldersUpdate
<1>6. ThreadsDiffer(op, op', t, StrongInFlight, b)
  BY <1>1, ThreadsUpdate
<1>7. ThreadsDiffer(op, op', t, WeakInFlight, b)
  BY <1>1, ThreadsUpdate
<1>8. /\ Bit(h \in Strong /\ old = b) \in {0, 1} /\ Bit(old = b) \in {0, 1}
      /\ Bit(h \in Strong /\ v = b) \in {0, 1} /\ Bit(v = b) \in {0, 1}
      /\ Owes(op[t], StrongInFlight, b) \in {0, 1} /\ Owes(op[t], WeakInFlight, b) \in {0, 1}
  BY DEF Owes, Bit
<1>9. Bit(h \in Handles /\ old = b) = Bit(old = b) /\ Bit(h \in Handles /\ v = b) = Bit(v = b)
  BY DEF Bit
<1> QED
  BY <1>1, <1>2, <1>4, <1>5, <1>6, <1>7, <1>8, <1>9
     DEF CountsAt, Strongs, Weaks, HoldersDiffer, ThreadsDiffer

(* A step that gives a new handle its block, and one that moves a handle.  *)
LEMMA CountsConstruct ==
  ASSUME TypeOK, NEW h \in Strong, m_storage[h] = NULL, NEW v,
         m_storage' = [m_storage EXCEPT ![h] = v], UNCHANGED op,
         NEW b \in Blocks, CountsAt(b),
         m_strong_count'[b] = m_strong_count[b] + Bit(v = b),
         m_weak_count'[b] = m_weak_count[b] + Bit(v = b)
  PROVE  CountsAt(b)'
<1>1. /\ h \in Handles /\ Strong \subseteq Handles /\ Handles \subseteq Handles /\ NULL # b
      /\ m_storage'[h] = v /\ \A x \in Handles : x # h => m_storage'[x] = m_storage[x]
  BY Assumption DEF TypeOK, Handles
<1>2. HoldersDiffer(m_storage, m_storage', h, Strong, b)
  BY <1>1, HoldersUpdate
<1>3. HoldersDiffer(m_storage, m_storage', h, Handles, b)
  BY <1>1, HoldersUpdate
<1>4. /\ Cardinality(Being(op, StrongInFlight, b)) \in Nat
      /\ Cardinality(Being(op, WeakInFlight, b)) \in Nat
  BY ThreadsFinite DEF ThreadsAt, Being
<1> QED
  BY <1>1, <1>2, <1>3, <1>4 DEF CountsAt, Strongs, Weaks, HoldersDiffer, Bit

LEMMA CountsMove ==
  ASSUME TypeOK, NEW t \in Threads, op[t] = Idle,
         NEW dst \in Handles, NEW src \in Handles, dst # src, dst \in Strong <=> src \in Strong,
         m_storage' = [m_storage EXCEPT ![dst] = m_storage[src], ![src] = NULL],
         op' = [op EXCEPT ![t] = Releasing(dst, m_storage[dst])],
         UNCHANGED <<m_strong_count, m_weak_count>>,
         NEW b \in Blocks, CountsAt(b)
  PROVE  CountsAt(b)'
<1> DEFINE old == m_storage[dst]
<1>1. /\ Strong \subseteq Handles /\ Handles \subseteq Handles /\ NULL # b
      /\ m_storage \in [Handles -> Blocks \cup {NULL}] /\ old \in Blocks \cup {NULL}
      /\ m_storage'[dst] = m_storage[src] /\ m_storage'[src] = NULL
      /\ \A x \in Handles : x # dst /\ x # src => m_storage'[x] = m_storage[x]
  BY Assumption DEF TypeOK, Handles
<1>2. op'[t] = Releasing(dst, old) /\ \A u \in Threads : u # t => op'[u] = op[u]
  BY DEF TypeOK
<1>3. /\ Owes(op'[t], StrongInFlight, b) = Bit(dst \in Strong /\ old = b)
      /\ Owes(op'[t], WeakInFlight, b) = Bit(old = b)
  BY <1>1, <1>2, ReleasingOwes
<1>4. Owes(op[t], StrongInFlight, b) = 0 /\ Owes(op[t], WeakInFlight, b) = 0
  BY DEF Owes, Idle, Frame, StrongInFlight, WeakInFlight
<1>5. ThreadsDiffer(op, op', t, StrongInFlight, b) /\ ThreadsDiffer(op, op', t, WeakInFlight, b)
  BY <1>2, ThreadsUpdate
<1>6. HoldersLess(m_storage, m_storage', dst, Strong, b)
  BY <1>1, HoldersMove
<1>7. HoldersLess(m_storage, m_storage', dst, Handles, b)
  BY <1>1, HoldersMove
<1>8. /\ Bit(dst \in Handles /\ old = b) = Bit(old = b)
      /\ Bit(old = b) \in {0, 1} /\ Bit(dst \in Strong /\ old = b) \in {0, 1}
  BY DEF Bit
<1> QED
  BY <1>3, <1>4, <1>5, <1>6, <1>7, <1>8 DEF CountsAt, Strongs, Weaks, ThreadsDiffer, HoldersLess

(* Going to pc p changes nothing else of the frame.                        *)
LEMMA GotoFrame ==
  ASSUME TypeOK, NEW t \in Threads, NEW p, Goto(t, p)
  PROVE  /\ op'[t].pc = p /\ op'[t].b = op[t].b
         /\ op'[t].dst = op[t].dst /\ op'[t].src = op[t].src
         /\ Others(t)
<1>1. op[t] \in Op
  BY DEF TypeOK
<1> QED
  BY <1>1 DEF Goto, Op, TypeOK, Others

LEMMA SetFrame ==
  ASSUME TypeOK, NEW t \in Threads, NEW o, op' = [op EXCEPT ![t] = o]
  PROVE  op'[t] = o /\ Others(t)
  BY DEF TypeOK, Others

LEMMA CountStep ==
  ASSUME IInv, Next, TypeOK'
  PROVE  CountsExact'
<1> SUFFICES ASSUME NEW t \in Threads, Begin(t) \/ Continue(t) \/ Return(t),
                    NEW b \in Blocks
             PROVE  CountsAt(b)'
  BY CountsByBlockNext DEF Next
<1>0. /\ TypeOK /\ CountsAt(b) /\ op[t] \in Op /\ LocalOK(t)
      /\ op[t].pc \notin {"idle", "delete"} => op[t].b \in Blocks
  BY StepStart, CountsByBlock DEF IInv
<1>00. /\ m_strong_count \in [Blocks -> Nat] /\ m_weak_count \in [Blocks -> Nat]
       /\ m_strong_count[b] \in Nat /\ m_weak_count[b] \in Nat
       /\ m_strong_count'[b] \in Nat /\ m_weak_count'[b] \in Nat
       /\ Strong \subseteq Handles /\ Weak \subseteq Handles /\ Strong \cap Weak = {}
       /\ NULL # b
  BY <1>0, Assumption DEF TypeOK, Handles
<1>1. ASSUME NEW h \in Strong, NEW c \in Blocks, Construct(t, h, c) PROVE CountsAt(b)'
  <2>1. c = b => m_strong_count[b] = 0 /\ m_weak_count[b] = 0
    <3> SUFFICES ASSUME c = b PROVE m_strong_count[b] = 0 /\ m_weak_count[b] = 0
      OBVIOUS
    <3>1. storage[b] = "unborn" /\ Life(b)
      BY <1>1 DEF Construct, IInv
    <3> QED
      BY <3>1, <1>00 DEF Life
  <2>2. /\ m_strong_count'[b] = m_strong_count[b] + Bit(c = b)
        /\ m_weak_count'[b] = m_weak_count[b] + Bit(c = b)
    BY <1>0, <1>00, <1>1, <2>1 DEF Construct, Bit
  <2> QED
    BY <1>0, <1>1, <2>2, CountsConstruct DEF Construct
<1>2. ASSUME op[t] = Idle, UNCHANGED <<m_strong_count, m_weak_count, m_storage>>, NEW p,
             p \in {"strong_inc", "weak_inc", "load", "call"},
             NEW dst, NEW src, NEW c, op' = [op EXCEPT ![t] = Frame(p, dst, src, c)]
      PROVE  CountsAt(b)'
  <2>1. op'[t] = Frame(p, dst, src, c) /\ Others(t)
    BY <1>0, <1>2, SetFrame
  <2>2. /\ Owes(op[t], StrongInFlight, b) = 0 /\ Owes(op[t], WeakInFlight, b) = 0
        /\ Owes(op'[t], StrongInFlight, b) = 0 /\ Owes(op'[t], WeakInFlight, b) = 0
    BY <1>2, <2>1 DEF Owes, Idle, Frame, StrongInFlight, WeakInFlight
  <2> QED
    BY <1>0, <1>00, <1>2, <2>1, <2>2, CountsKeep
<1>3. ASSUME NEW dst, NEW src, CopyStrong(t, dst, src) \/ CopyWeak(t, dst, src) \/ Lock(t, dst, src)
      PROVE  CountsAt(b)'
  BY <1>2, <1>3 DEF CopyStrong, CopyWeak, Lock
<1>4. ASSUME NEW h \in Strong, Invoke(t, h) PROVE CountsAt(b)'
  BY <1>2, <1>4 DEF Invoke
<1>5. ASSUME NEW dst \in Handles, NEW src \in Handles, Move(t, dst, src) PROVE CountsAt(b)'
  BY <1>0, <1>5, CountsMove DEF Move
<1>6. ASSUME NEW h \in Handles, Clear(t, h) PROVE CountsAt(b)'
  <2>1. AssignThenRelease(t, h, NULL) /\ op[t] = Idle /\ UNCHANGED <<m_strong_count, m_weak_count>>
    BY <1>6 DEF Clear
  <2>2. /\ Owes(op[t], StrongInFlight, b) = 0 /\ Owes(op[t], WeakInFlight, b) = 0
        /\ Bit(h \in Strong /\ NULL = b) = 0 /\ Bit(NULL = b) = 0
    BY <1>00, <2>1 DEF Owes, Bit, Idle, Frame, StrongInFlight, WeakInFlight
  <2> QED
    BY <1>0, <1>00, <2>1, <2>2, CountsAssign
<1>7. ASSUME op[t].pc \in {"copy_weak_inc", "upgrade_weak_inc", "weak_inc"},
             op[t].dst \in Handles, op[t].dst \in Strong <=> op[t].pc # "weak_inc",
             AssignThenRelease(t, op[t].dst, op[t].b), UNCHANGED m_strong_count,
             m_weak_count' = [m_weak_count EXCEPT ![op[t].b] = @ + 1]
      PROVE  CountsAt(b)'
  <2>1. /\ m_strong_count'[b] + Owes(op[t], StrongInFlight, b)
             = m_strong_count[b] + Bit(op[t].dst \in Strong /\ op[t].b = b)
        /\ m_weak_count'[b] + Owes(op[t], WeakInFlight, b) = m_weak_count[b] + Bit(op[t].b = b)
    BY <1>00, <1>7 DEF Owes, Bit, StrongInFlight, WeakInFlight
  <2> QED
    BY <1>0, <1>00, <1>7, <2>1, CountsAssign
<1>8. CASE CopyWeakInc(t) \/ UpgradeWeakInc(t) \/ WeakInc(t)
  BY <1>0, <1>00, <1>7, <1>8 DEF CopyWeakInc, UpgradeWeakInc, WeakInc, LocalOK
<1>9. CASE StrongInc(t)
  <2>1. op'[t].pc = "copy_weak_inc" /\ op'[t].b = op[t].b /\ Others(t)
    BY <1>0, <1>9, GotoFrame DEF StrongInc
  <2>2. /\ m_strong_count'[b] + Owes(op[t], StrongInFlight, b)
             = m_strong_count[b] + Owes(op'[t], StrongInFlight, b)
        /\ m_weak_count'[b] + Owes(op[t], WeakInFlight, b)
             = m_weak_count[b] + Owes(op'[t], WeakInFlight, b)
    BY <1>00, <1>9, <2>1 DEF StrongInc, Owes, StrongInFlight, WeakInFlight
  <2> QED
    BY <1>0, <1>00, <1>9, <2>1, <2>2, CountsKeep DEF StrongInc
<1>10. CASE CasSucceeds(t)
  <2>1. op'[t].pc = "upgrade_weak_inc" /\ op'[t].b = op[t].b /\ Others(t)
    BY <1>0, <1>10, GotoFrame DEF CasSucceeds
  <2>2. /\ m_strong_count'[b] + Owes(op[t], StrongInFlight, b)
             = m_strong_count[b] + Owes(op'[t], StrongInFlight, b)
        /\ m_weak_count'[b] + Owes(op[t], WeakInFlight, b)
             = m_weak_count[b] + Owes(op'[t], WeakInFlight, b)
    BY <1>00, <1>10, <2>1 DEF CasSucceeds, Owes, StrongInFlight, WeakInFlight
  <2> QED
    BY <1>0, <1>00, <1>10, <2>1, <2>2, CountsKeep DEF CasSucceeds
<1>11. ASSUME NEW n, Observe(t, n), op[t].pc \in {"load", "cas"},
              UNCHANGED <<m_strong_count, m_weak_count>>
       PROVE  CountsAt(b)'
  <2>1. Owes(op[t], StrongInFlight, b) = 0 /\ Owes(op[t], WeakInFlight, b) = 0
    BY <1>11 DEF Owes, StrongInFlight, WeakInFlight
  <2>2. CASE n > 0
    <3>1. op'[t].pc = "cas" /\ Others(t) /\ UNCHANGED m_storage
      BY <1>0, <1>11, <2>2 DEF Observe, Op, TypeOK, Others
    <3>2. Owes(op'[t], StrongInFlight, b) = 0 /\ Owes(op'[t], WeakInFlight, b) = 0
      BY <3>1 DEF Owes, StrongInFlight, WeakInFlight
    <3> QED
      BY <1>0, <1>00, <1>11, <2>1, <3>1, <3>2, CountsKeep
  <2>3. CASE ~(n > 0)
    <3>1. AssignThenRelease(t, op[t].dst, NULL) /\ op[t].dst \in Handles
      BY <1>0, <1>00, <1>11, <2>3 DEF Observe, LocalOK
    <3>2. Bit(op[t].dst \in Strong /\ NULL = b) = 0 /\ Bit(NULL = b) = 0
      BY <1>00 DEF Bit
    <3> QED
      BY <1>0, <1>00, <1>11, <2>1, <3>1, <3>2, CountsAssign
  <2> QED
    BY <2>2, <2>3
<1>12. CASE Load(t) \/ CasFails(t)
  BY <1>11, <1>12 DEF Load, CasFails
<1>13. CASE StrongDec(t)
  <2>1. op'[t].pc \in {"reset_storage", "weak_dec"} /\ op'[t].b = op[t].b /\ Others(t)
    BY <1>0, <1>13, GotoFrame DEF StrongDec
  <2>2. m_strong_count' = [m_strong_count EXCEPT ![op[t].b] = m_strong_count[op[t].b] - 1]
        /\ UNCHANGED <<m_weak_count, m_storage>> /\ op[t].pc = "strong_dec"
    BY <1>13 DEF StrongDec
  <2>3. /\ m_strong_count'[b] + Owes(op[t], StrongInFlight, b)
             = m_strong_count[b] + Owes(op'[t], StrongInFlight, b)
        /\ m_weak_count'[b] + Owes(op[t], WeakInFlight, b)
             = m_weak_count[b] + Owes(op'[t], WeakInFlight, b)
    BY <1>00, <2>1, <2>2 DEF Owes, StrongInFlight, WeakInFlight
  <2> QED
    BY <1>0, <1>00, <2>1, <2>2, <2>3, CountsKeep
<1>14. CASE ResetStorage(t)
  <2>1. op'[t].pc = "weak_dec" /\ op'[t].b = op[t].b /\ Others(t)
    BY <1>0, <1>14, GotoFrame DEF ResetStorage
  <2>2. UNCHANGED <<m_strong_count, m_weak_count, m_storage>> /\ op[t].pc = "reset_storage"
    BY <1>14 DEF ResetStorage
  <2>3. /\ Owes(op[t], StrongInFlight, b) = Owes(op'[t], StrongInFlight, b)
        /\ Owes(op[t], WeakInFlight, b) = Owes(op'[t], WeakInFlight, b)
    BY <2>1, <2>2 DEF Owes, StrongInFlight, WeakInFlight
  <2> QED
    BY <1>0, <1>00, <2>1, <2>2, <2>3, CountsKeep
<1>15. CASE WeakDec(t)
  <2>1. op'[t].pc \in {"delete", "idle"} /\ Others(t)
    <3>1. op'[t] = (IF m_weak_count[op[t].b] = 1 THEN At("delete", op[t].b) ELSE Idle)
          /\ Others(t)
      BY <1>0, <1>15 DEF WeakDec, TypeOK, Others
    <3> QED
      BY <3>1 DEF At, Idle, Frame
  <2>2. m_weak_count' = [m_weak_count EXCEPT ![op[t].b] = m_weak_count[op[t].b] - 1]
        /\ UNCHANGED <<m_strong_count, m_storage>> /\ op[t].pc = "weak_dec"
    BY <1>15 DEF WeakDec
  <2>3. /\ m_strong_count'[b] + Owes(op[t], StrongInFlight, b)
             = m_strong_count[b] + Owes(op'[t], StrongInFlight, b)
        /\ m_weak_count'[b] + Owes(op[t], WeakInFlight, b)
             = m_weak_count[b] + Owes(op'[t], WeakInFlight, b)
    BY <1>00, <2>1, <2>2 DEF Owes, StrongInFlight, WeakInFlight
  <2> QED
    BY <1>0, <1>00, <2>1, <2>2, <2>3, CountsKeep
<1>16. CASE Delete(t) \/ Return(t)
  <2>1. op'[t] = Idle /\ Others(t) /\ op[t].pc \in {"delete", "call"}
        /\ UNCHANGED <<m_strong_count, m_weak_count, m_storage>>
    BY <1>0, <1>16, SetFrame DEF Delete, Return
  <2>2. /\ Owes(op[t], StrongInFlight, b) = 0 /\ Owes(op[t], WeakInFlight, b) = 0
        /\ Owes(op'[t], StrongInFlight, b) = 0 /\ Owes(op'[t], WeakInFlight, b) = 0
    BY <2>1 DEF Owes, Idle, Frame, StrongInFlight, WeakInFlight
  <2> QED
    BY <1>0, <1>00, <2>1, <2>2, CountsKeep
<1> QED
  BY <1>1, <1>3, <1>4, <1>5, <1>6, <1>8, <1>9, <1>10, <1>12, <1>13, <1>14, <1>15, <1>16
     DEF Begin, Continue

-------------------------------------------------------------------------------
(* What operations know of their handles: another thread's step never      *)
(* writes a handle that an operation under way reads.                      *)

LEMMA LocalsKeep ==
  ASSUME IInv, NEW t \in Threads, Others(t), LocalOK(t)',
         \A u \in Threads : u # t /\ op[u].src # NULL =>
           m_storage'[op[u].src] = m_storage[op[u].src],
         op'[t].dst # NULL =>
           /\ op'[t].dst # op'[t].src
           /\ \A u \in Threads : u # t => op[u].dst # op'[t].dst /\ op[u].src # op'[t].dst,
         op'[t].src # NULL => \A u \in Threads : u # t => op[u].dst # op'[t].src
  PROVE  (\A u \in Threads : LocalOK(u))' /\ Exclusive'
<1>1. ASSUME NEW u \in Threads PROVE LocalOK(u)'
  <2>1. CASE u = t
    BY <2>1
  <2>2. CASE u # t
    <3>1. op'[u] = op[u] /\ LocalOK(u)
      BY <2>2 DEF Others, IInv
    <3> QED
      BY <2>2, <3>1 DEF LocalOK
  <2> QED
    BY <2>1, <2>2
<1>2. Exclusive'
  <2> SUFFICES ASSUME NEW u \in Threads, NEW w \in Threads, op'[u].dst # NULL
               PROVE  op'[u].dst # op'[w].src /\ (u # w => op'[u].dst # op'[w].dst)
    BY DEF Exclusive
  <2>1. CASE u = t
    BY <2>1 DEF Others
  <2>2. CASE u # t /\ w = t
    BY <2>2 DEF Others
  <2>3. CASE u # t /\ w # t
    BY <2>3 DEF Others, Exclusive, IInv
  <2> QED
    BY <2>1, <2>2, <2>3
<1> QED
  BY <1>1, <1>2

(* A frame that uses no handle, after a step that wrote only handles no    *)
(* other thread reads.                                                     *)
LEMMA LocalsRelease ==
  ASSUME IInv, NEW t \in Threads, Others(t),
         op'[t] = Idle \/ \E b \in Blocks, p \in {"strong_dec", "reset_storage", "weak_dec", "delete"} :
                            op'[t] = At(p, b),
         \A u \in Threads : u # t /\ op[u].src # NULL =>
           m_storage'[op[u].src] = m_storage[op[u].src]
  PROVE  (\A u \in Threads : LocalOK(u))' /\ Exclusive'
<1>1. CASE op'[t] = Idle
  <2>1. op'[t].pc = "idle" /\ op'[t].dst = NULL /\ op'[t].src = NULL
    BY <1>1 DEF Idle, Frame
  <2>2. LocalOK(t)'
    BY <1>1, <2>1 DEF LocalOK
  <2> QED
    BY <2>1, <2>2, LocalsKeep
<1>2. CASE \E b \in Blocks, p \in {"strong_dec", "reset_storage", "weak_dec", "delete"} :
             op'[t] = At(p, b)
  <2>1. /\ op'[t].pc \in {"strong_dec", "reset_storage", "weak_dec", "delete"}
        /\ op'[t].dst = NULL /\ op'[t].src = NULL /\ op'[t].b \in Blocks
    BY <1>2 DEF At, Frame
  <2>2. LocalOK(t)'
    BY <2>1 DEF LocalOK
  <2> QED
    BY <2>1, <2>2, LocalsKeep
<1> QED
  BY <1>1, <1>2

LEMMA LocalsAssign ==
  ASSUME IInv, NEW t \in Threads, NEW h \in Handles, NEW v, AssignThenRelease(t, h, v),
         \A u \in Threads : u # t => op[u].src # h
  PROVE  (\A u \in Threads : LocalOK(u))' /\ Exclusive'
<1>1. /\ op'[t] = Releasing(h, m_storage[h]) /\ Others(t)
      /\ m_storage[h] \in Blocks \cup {NULL}
      /\ \A x \in Handles : x # h => m_storage'[x] = m_storage[x]
      /\ \A u \in Threads : op[u].src \in Handles \cup {NULL}
  BY DEF AssignThenRelease, IInv, TypeOK, Others, Op
<1>2. op'[t] = Idle \/ \E b \in Blocks, p \in {"strong_dec", "reset_storage", "weak_dec", "delete"} :
                         op'[t] = At(p, b)
  BY <1>1 DEF Releasing
<1>3. \A u \in Threads : u # t /\ op[u].src # NULL =>
        m_storage'[op[u].src] = m_storage[op[u].src]
  BY <1>1
<1> QED
  BY <1>1, <1>2, <1>3, LocalsRelease

LEMMA LocalStep ==
  ASSUME IInv, Next
  PROVE  (\A u \in Threads : LocalOK(u))' /\ Exclusive'
<1> DEFINE Goal == (\A u \in Threads : LocalOK(u))' /\ Exclusive'
<1> SUFFICES ASSUME NEW t \in Threads, Begin(t) \/ Continue(t) \/ Return(t) PROVE Goal
  BY DEF Next
<1>0. /\ TypeOK /\ op[t] \in Op /\ LocalOK(t) /\ Exclusive
      /\ \A u \in Threads : LocalOK(u)
      /\ op[t].pc \notin {"idle", "delete"} => op[t].b \in Blocks
  BY StepStart DEF IInv
<1>00. /\ m_storage \in [Handles -> Blocks \cup {NULL}]
       /\ \A u \in Threads : op[u].src \in Handles \cup {NULL} /\ op[u].dst \in Handles \cup {NULL}
       /\ Strong \subseteq Handles /\ Weak \subseteq Handles /\ Strong \cap Weak = {}
       /\ NULL \notin Handles /\ NULL \notin Blocks
  BY <1>0, Assumption DEF TypeOK, Handles, Op
<1>01. op[t].dst # NULL => \A u \in Threads : u # t => op[u].src # op[t].dst /\ op[u].dst # op[t].dst
  BY <1>0 DEF Exclusive
<1> HIDE DEF Goal
<1>1. ASSUME NEW h \in Strong, NEW b \in Blocks, Construct(t, h, b) PROVE Goal
  <2>1. /\ UNCHANGED op /\ m_storage' = [m_storage EXCEPT ![h] = b]
        /\ \A u \in Threads : op[u].src # h
    BY <1>1 DEF Construct, MayWrite
  <2>2. \A u \in Threads : op[u].src # NULL => m_storage'[op[u].src] = m_storage[op[u].src]
    BY <1>00, <2>1
  <2>3. \A u \in Threads : LocalOK(u)'
    BY <1>0, <2>1, <2>2 DEF LocalOK
  <2> QED
    BY <1>0, <2>1, <2>3 DEF Goal, Exclusive
<1>2. ASSUME NEW p, NEW dst, NEW src, op' = [op EXCEPT ![t] = Frame(p, dst, src, m_storage[src])],
             UNCHANGED m_storage, src \in Handles, m_storage[src] # NULL, MayRead(src),
             dst # NULL => MayWrite(dst) /\ dst # src,
             \/ p = "strong_inc" /\ dst \in Strong /\ src \in Strong
             \/ p = "weak_inc" /\ dst \in Weak
             \/ p = "load" /\ dst \in Strong /\ src \in Weak
             \/ p = "call" /\ dst = NULL /\ src \in Strong
      PROVE  Goal
  <2>1. op'[t] = Frame(p, dst, src, m_storage[src]) /\ Others(t)
    BY <1>0, <1>2, SetFrame
  <2>2. /\ op'[t].pc = p /\ op'[t].dst = dst /\ op'[t].src = src /\ op'[t].b = m_storage[src]
    BY <2>1 DEF Frame
  <2>3. LocalOK(t)'
    BY <1>2, <1>00, <2>2 DEF LocalOK
  <2>4. /\ \A u \in Threads : op[u].dst # src
        /\ dst # NULL => \A u \in Threads : op[u].dst # dst /\ op[u].src # dst
    BY <1>2 DEF MayRead, MayWrite
  <2> QED
    BY <1>2, <2>1, <2>2, <2>3, <2>4, LocalsKeep DEF Goal
<1>3. ASSUME NEW dst \in Strong, NEW src \in Strong, CopyStrong(t, dst, src) PROVE Goal
  BY <1>2, <1>3, <1>00 DEF CopyStrong
<1>4. ASSUME NEW dst \in Weak, NEW src \in Handles, CopyWeak(t, dst, src) PROVE Goal
  BY <1>2, <1>4, <1>00 DEF CopyWeak
<1>5. ASSUME NEW dst \in Strong, NEW src \in Weak, Lock(t, dst, src) PROVE Goal
  BY <1>2, <1>5, <1>00 DEF Lock
<1>6. ASSUME NEW h \in Strong, Invoke(t, h) PROVE Goal
  BY <1>2, <1>6, <1>00 DEF Invoke
<1>7. ASSUME NEW dst \in Handles, NEW src \in Handles, Move(t, dst, src) PROVE Goal
  <2>1. /\ op'[t] = Releasing(dst, m_storage[dst]) /\ Others(t)
        /\ m_storage[dst] \in Blocks \cup {NULL}
        /\ \A x \in Handles : x # dst /\ x # src => m_storage'[x] = m_storage[x]
        /\ \A u \in Threads : op[u].src # dst /\ op[u].src # src
    BY <1>0, <1>00, <1>7, SetFrame DEF Move, MayWrite
  <2>2. op'[t] = Idle \/ \E b \in Blocks, p \in {"strong_dec", "reset_storage", "weak_dec", "delete"} :
                           op'[t] = At(p, b)
    BY <2>1 DEF Releasing
  <2>3. \A u \in Threads : u # t /\ op[u].src # NULL =>
          m_storage'[op[u].src] = m_storage[op[u].src]
    BY <1>00, <2>1
  <2> QED
    BY <2>1, <2>2, <2>3, LocalsRelease DEF Goal
<1>8. ASSUME NEW h \in Handles, Clear(t, h) PROVE Goal
  BY <1>8, LocalsAssign DEF Clear, MayWrite, Goal
<1>9. CASE CopyWeakInc(t) \/ UpgradeWeakInc(t) \/ WeakInc(t)
  <2>1. AssignThenRelease(t, op[t].dst, op[t].b) /\ op[t].dst \in Handles /\ op[t].dst # NULL
    BY <1>0, <1>00, <1>9 DEF CopyWeakInc, UpgradeWeakInc, WeakInc, LocalOK
  <2> QED
    BY <1>01, <2>1, LocalsAssign DEF Goal
<1>10. ASSUME NEW p \in PCs, Goto(t, p), UNCHANGED m_storage, LocalOK(t)' PROVE Goal
  <2>1. op'[t].dst = op[t].dst /\ op'[t].src = op[t].src /\ Others(t)
    BY <1>0, <1>10, GotoFrame
  <2>2. op[t].dst # NULL => op[t].dst # op[t].src
    BY <1>0 DEF Exclusive
  <2>3. op[t].src # NULL => \A u \in Threads : op[u].dst # op[t].src
    BY <1>0 DEF Exclusive
  <2> QED
    BY <1>01, <1>10, <2>1, <2>2, <2>3, LocalsKeep DEF Goal
<1>11. CASE StrongInc(t) \/ CasSucceeds(t)
  <2>1. PICK p \in {"copy_weak_inc", "upgrade_weak_inc"} :
          /\ Goto(t, p) /\ UNCHANGED m_storage
          /\ p = "copy_weak_inc" => op[t].pc = "strong_inc"
          /\ p = "upgrade_weak_inc" => op[t].pc = "cas"
    BY <1>11 DEF StrongInc, CasSucceeds
  <2>2. /\ op'[t].pc = p /\ op'[t].b = op[t].b /\ op'[t].dst = op[t].dst /\ op'[t].src = op[t].src
    BY <1>0, <2>1, GotoFrame
  <2>3. LocalOK(t)' /\ p \in PCs
    BY <1>0, <2>1, <2>2 DEF LocalOK, PCs
  <2> QED
    BY <1>10, <2>1, <2>3
<1>12. CASE StrongDec(t) \/ ResetStorage(t)
  <2>1. PICK p \in {"reset_storage", "weak_dec"} : Goto(t, p) /\ UNCHANGED m_storage
    BY <1>12 DEF StrongDec, ResetStorage
  <2>2. op[t].pc \in {"strong_dec", "reset_storage"}
    BY <1>12 DEF StrongDec, ResetStorage
  <2>3. /\ op'[t].pc = p /\ op'[t].b = op[t].b /\ op'[t].dst = op[t].dst /\ op'[t].src = op[t].src
    BY <1>0, <2>1, GotoFrame
  <2>4. LocalOK(t)' /\ p \in PCs
    BY <1>0, <2>1, <2>2, <2>3 DEF LocalOK, PCs
  <2> QED
    BY <1>10, <2>1, <2>4
<1>13. ASSUME NEW n, Observe(t, n), op[t].pc \in {"load", "cas"} PROVE Goal
  <2>1. CASE n > 0
    <3>1. /\ op'[t].pc = "cas" /\ op'[t].count = n /\ op'[t].b = op[t].b
          /\ op'[t].dst = op[t].dst /\ op'[t].src = op[t].src
          /\ Others(t) /\ UNCHANGED m_storage
      BY <1>0, <1>13, <2>1 DEF Observe, Op, TypeOK, Others
    <3>2. LocalOK(t)'
      BY <1>0, <1>13, <2>1, <3>1 DEF LocalOK
    <3>3. op[t].dst # NULL => op[t].dst # op[t].src
      BY <1>0 DEF Exclusive
    <3>4. op[t].src # NULL => \A u \in Threads : op[u].dst # op[t].src
      BY <1>0 DEF Exclusive
    <3> QED
      BY <1>01, <3>1, <3>2, <3>3, <3>4, LocalsKeep DEF Goal
  <2>2. CASE ~(n > 0)
    <3>1. AssignThenRelease(t, op[t].dst, NULL) /\ op[t].dst \in Handles /\ op[t].dst # NULL
      BY <1>0, <1>00, <1>13, <2>2 DEF Observe, LocalOK
    <3> QED
      BY <1>01, <3>1, LocalsAssign DEF Goal
  <2> QED
    BY <2>1, <2>2
<1>14. CASE Load(t) \/ CasFails(t)
  BY <1>13, <1>14 DEF Load, CasFails
<1>15. CASE WeakDec(t) \/ Delete(t) \/ Return(t)
  <2>1. /\ op'[t] = Idle \/ (op'[t] = At("delete", op[t].b) /\ op[t].b \in Blocks)
        /\ Others(t) /\ UNCHANGED m_storage
    <3>1. CASE WeakDec(t)
      <4>1. /\ op'[t] = (IF m_weak_count[op[t].b] = 1 THEN At("delete", op[t].b) ELSE Idle)
            /\ Others(t) /\ UNCHANGED m_storage /\ op[t].pc = "weak_dec"
        BY <1>0, <3>1 DEF WeakDec, TypeOK, Others
      <4> QED
        BY <1>0, <4>1
    <3>2. CASE Delete(t) \/ Return(t)
      BY <1>0, <3>2, SetFrame DEF Delete, Return
    <3> QED
      BY <1>15, <3>1, <3>2
  <2> QED
    BY <2>1, LocalsRelease DEF Goal
<1> QED
  BY <1>1, <1>3, <1>4, <1>5, <1>6, <1>7, <1>8, <1>9, <1>11, <1>12, <1>14, <1>15
     DEF Begin, Continue

-------------------------------------------------------------------------------
(* The life of a block.                                                    *)

(* A step after which the counts are positive as before, by a thread that  *)
(* neither resets nor deletes b before or after it.                        *)
LEMMA LifeQuiet ==
  ASSUME IInv, NEW t \in Threads, Others(t), NEW b \in Blocks,
         storage'[b] = storage[b],
         m_strong_count'[b] \in Nat, m_weak_count'[b] \in Nat,
         m_strong_count'[b] > 0 <=> m_strong_count[b] > 0,
         m_weak_count'[b] > 0 <=> m_weak_count[b] > 0,
         op[t].b = b => op[t].pc \notin {"reset_storage", "delete"},
         op'[t].b = b => op'[t].pc \notin {"reset_storage", "delete"} /\ m_weak_count[b] > 0
  PROVE  Life(b)'
<1> DEFINE Now(P) == {u \in Threads : op'[u].pc \in P /\ op'[u].b = b}
           Here == {u \in Threads : op'[u].b = b}
<1>1. /\ Life(b) /\ m_strong_count[b] \in Nat /\ m_weak_count[b] \in Nat
  BY DEF IInv, TypeOK
<1>2. /\ Now({"reset_storage"}) = ThreadsAt({"reset_storage"}, b)
      /\ Now({"delete"}) = ThreadsAt({"delete"}, b)
  BY DEF Others, ThreadsAt
<1>3. ASSUME NEW d \in ThreadsAt({"delete"}, b) PROVE Here = {d}
  <2>1. {u \in Threads : op[u].b = b} = {d} /\ m_weak_count[b] = 0
    BY <1>1, <1>3 DEF Life
  <2>2. d # t /\ op'[t].b # b
    BY <1>3, <2>1 DEF ThreadsAt
  <2> QED
    BY <2>1, <2>2 DEF Others
<1>4. storage[b] \in {"unborn", "deleted"} => \A u \in Threads : op'[u].b # b
  BY <1>1 DEF Life, Others
<1>5. /\ ThreadsAt({"reset_storage"}, b)' = Now({"reset_storage"})
      /\ ThreadsAt({"delete"}, b)' = Now({"delete"})
  BY DEF ThreadsAt
<1> HIDE DEF Now
<1>6. /\ storage'[b] \in {"unborn", "deleted"} =>
           m_weak_count'[b] = 0 /\ \A u \in Threads : op'[u].b # b
      /\ m_strong_count'[b] > 0 => storage'[b] = "live"
      /\ m_weak_count'[b] > 0 => storage'[b] \in {"live", "reset"}
      /\ storage'[b] = "live" /\ m_strong_count'[b] = 0 => Now({"reset_storage"}) # {}
      /\ storage'[b] = "reset" /\ m_weak_count'[b] = 0 => Now({"delete"}) # {}
  BY <1>1, <1>2, <1>4 DEF Life
<1>7. \A u \in Now({"reset_storage"}) :
           storage'[b] = "live" /\ m_strong_count'[b] = 0 /\ Now({"reset_storage"}) = {u}
  BY <1>1, <1>2 DEF Life
<1>8. \A u \in Now({"delete"}) :
           storage'[b] = "reset" /\ m_weak_count'[b] = 0 /\ Here = {u}
  BY <1>1, <1>2, <1>3 DEF Life
<1> QED
  BY <1>5, <1>6, <1>7, <1>8 DEF Life

(* The thread that is about to take the weak count from 1 to 0 is alone    *)
(* with the block.                                                         *)
LEMMA LastWeak ==
  ASSUME IInv, NEW t \in Threads, op[t].pc = "weak_dec", m_weak_count[op[t].b] = 1
  PROVE  /\ HoldersIn(Handles, op[t].b) = {}
         /\ m_strong_count[op[t].b] = 0
         /\ {u \in Threads : op[u].b = op[t].b} = {t}
         /\ storage[op[t].b] = "reset"
<1> DEFINE b == op[t].b
           W == ThreadsAt(WeakInFlight, b)
           S == ThreadsAt(StrongInFlight, b)
<1>1. TypeOK /\ CountsExact /\ Life(b) /\ b \in Blocks /\ \A u \in Threads : LocalOK(u) /\ op[u] \in Op
  BY StepStart DEF IInv
<1>2. t \in W
  BY DEF ThreadsAt, WeakInFlight
<1>3. /\ IsFiniteSet(W) /\ Cardinality(W) \in Nat
      /\ IsFiniteSet(S) /\ Cardinality(S) \in Nat
      /\ Cardinality(W) = 0 <=> W = {}
      /\ Cardinality(S) = 0 <=> S = {}
  BY ThreadsFinite
<1>4. /\ Cardinality(HoldersIn(Handles, b)) \in Nat
      /\ Cardinality(HoldersIn(Handles, b)) = 0 <=> HoldersIn(Handles, b) = {}
      /\ Cardinality(HoldersIn(Strong, b)) \in Nat
      /\ Cardinality(HoldersIn(Strong, b)) = 0 <=> HoldersIn(Strong, b) = {}
  <2>1. Strong \subseteq Handles /\ Handles \subseteq Handles
    BY DEF Handles
  <2> QED
    BY <2>1, HoldersFinite
<1>5. /\ 1 = Cardinality(HoldersIn(Handles, b)) + Cardinality(W)
      /\ m_strong_count[b] = Cardinality(HoldersIn(Strong, b)) + Cardinality(S)
  BY <1>1 DEF CountsExact
<1>6. HoldersIn(Handles, b) = {} /\ Cardinality(W) = 1
  <2>1. W # {}
    BY <1>2
  <2> HIDE DEF W, b
  <2> QED
    BY <2>1, <1>3, <1>4, <1>5
<1>7. \A u \in W : u = t
  <2>1. IsFiniteSet(W \ {t}) /\ Cardinality(W \ {t}) = 0
    <3> HIDE DEF W
    <3>1. IsFiniteSet(W \ {t}) /\ Cardinality(W \ {t}) = Cardinality(W) - 1
      BY <1>2, <1>3, FS_RemoveElement
    <3> QED
      BY <1>6, <3>1
  <2>2. W \ {t} = {}
    BY <2>1, FS_EmptySet
  <2> QED
    BY <2>2
<1>8. \A h \in Handles : m_storage[h] # b
  BY <1>6 DEF HoldersIn
<1>9. ASSUME NEW u \in Threads, op[u].b = b PROVE u = t
  <2>1. NULL # b
    BY <1>1, Assumption
  <2>2. op[u].pc # "idle"
    BY <1>1, <1>9, <2>1 DEF LocalOK, Idle, Frame
  <2>3. op[u].pc # "delete"
    BY <1>1, <1>9, <1>5 DEF Life, ThreadsAt
  <2>4. op[u].src \in Handles \cup {NULL} /\ op[u].pc \in PCs
    BY <1>1 DEF Op
  <2>5. op[u].src = NULL
    BY <1>1, <1>8, <1>9, <2>4 DEF LocalOK
  <2>6. NULL \notin Handles /\ Strong \subseteq Handles /\ Weak \subseteq Handles
    BY Assumption DEF Handles
  <2>7. op[u].pc \in WeakInFlight
    BY <1>1, <2>2, <2>3, <2>4, <2>5, <2>6 DEF PCs, LocalOK, WeakInFlight
  <2> QED
    BY <1>7, <1>9, <2>7 DEF ThreadsAt
<1>10. S = {} /\ HoldersIn(Strong, b) = {}
  BY <1>8, <1>9 DEF ThreadsAt, StrongInFlight, HoldersIn, Handles
<1>11. m_strong_count[b] = 0
  BY <1>3, <1>4, <1>5, <1>10
<1>12. ThreadsAt({"reset_storage"}, b) = {}
  BY <1>9 DEF ThreadsAt
<1>13. storage[b] = "reset"
  BY <1>1, <1>11, <1>12 DEF Life
<1>14. {u \in Threads : op[u].b = b} = {t}
  BY <1>9
<1> QED
  BY <1>6, <1>11, <1>13, <1>14

LEMMA LifeStep ==
  ASSUME IInv, Next, TypeOK'
  PROVE  \A b \in Blocks : Life(b)'
<1> SUFFICES ASSUME NEW t \in Threads, Begin(t) \/ Continue(t) \/ Return(t),
                    NEW b \in Blocks
             PROVE  Life(b)'
  BY DEF Next
<1>0. /\ TypeOK /\ op[t] \in Op /\ LocalOK(t) /\ Life(b)
      /\ op[t].pc \notin {"idle", "delete"} => op[t].b \in Blocks /\ m_weak_count[op[t].b] > 0
      /\ op[t].pc \in {"strong_inc", "call"} \cup StrongInFlight => m_strong_count[op[t].b] > 0
  BY StepStart DEF IInv
<1>00. /\ m_strong_count \in [Blocks -> Nat] /\ m_weak_count \in [Blocks -> Nat]
       /\ storage \in [Blocks -> {"unborn", "live", "reset", "deleted"}]
       /\ m_strong_count' \in [Blocks -> Nat] /\ m_weak_count' \in [Blocks -> Nat]
       /\ m_storage \in [Handles -> Blocks \cup {NULL}]
       /\ NULL \notin Blocks /\ NULL \notin Handles
       /\ Strong \subseteq Handles /\ Weak \subseteq Handles
  BY <1>0, Assumption DEF TypeOK, Handles
<1>01. \A h \in Handles : m_storage[h] = b => m_weak_count[b] > 0
  BY Owed DEF IInv
<1>02. op[t] = Idle => op[t].b # b
  BY <1>00 DEF Idle, Frame
<1>1. ASSUME NEW h \in Strong, NEW c \in Blocks, Construct(t, h, c) PROVE Life(b)'
  <2>1. \A P : ThreadsAt(P, b)' = ThreadsAt(P, b)
    BY <1>1 DEF Construct, ThreadsAt
  <2>2. CASE c # b
    <3>1. storage'[b] = storage[b] /\ UNCHANGED op /\ m_strong_count'[b] = m_strong_count[b]
          /\ m_weak_count'[b] = m_weak_count[b]
      BY <1>00, <1>1, <2>2 DEF Construct
    <3> QED
      BY <1>0, <2>1, <3>1 DEF Life
  <2>3. CASE c = b
    <3>1. storage'[b] = "live" /\ m_strong_count'[b] = 1 /\ m_weak_count'[b] = 1
      BY <1>00, <1>1, <2>3 DEF Construct
    <3>2. \A u \in Threads : op[u].b # b
      BY <1>0, <1>1, <2>3 DEF Construct, Life
    <3>3. ThreadsAt({"reset_storage"}, b)' = {} /\ ThreadsAt({"delete"}, b)' = {}
      BY <2>1, <3>2 DEF ThreadsAt
    <3> QED
      BY <3>1, <3>3 DEF Life
  <2> QED
    BY <2>2, <2>3
<1>2. ASSUME op[t] = Idle, UNCHANGED <<m_strong_count, m_weak_count, storage>>,
             NEW p \in PCs \ {"reset_storage", "delete"}, NEW dst, NEW src, NEW h \in Handles,
             op' = [op EXCEPT ![t] = Frame(p, dst, src, m_storage[h])]
      PROVE  Life(b)'
  <2>1. op'[t] = Frame(p, dst, src, m_storage[h]) /\ Others(t)
    BY <1>0, <1>2, SetFrame
  <2>2. op'[t].pc = p /\ op'[t].b = m_storage[h]
    BY <2>1 DEF Frame
  <2> QED
    BY <1>00, <1>01, <1>02, <1>2, <2>1, <2>2, LifeQuiet
<1>3. ASSUME NEW dst, NEW src, CopyStrong(t, dst, src) \/ CopyWeak(t, dst, src) \/ Lock(t, dst, src)
      PROVE  Life(b)'
  BY <1>2, <1>3, <1>00 DEF CopyStrong, CopyWeak, Lock, PCs
<1>4. ASSUME NEW h \in Strong, Invoke(t, h) PROVE Life(b)'
  BY <1>2, <1>4, <1>00 DEF Invoke, PCs
<1>5. ASSUME NEW h \in Handles, op'[t] = Releasing(h, m_storage[h]), Others(t),
             op[t].b = b => op[t].pc \notin {"reset_storage", "delete"},
             UNCHANGED <<m_strong_count, storage>>,
             m_weak_count'[b] > 0 <=> m_weak_count[b] > 0
      PROVE  Life(b)'
  <2>1. op'[t].b = b => op'[t].pc \in {"strong_dec", "weak_dec"} /\ m_storage[h] = b
    BY <1>5, <1>00 DEF Releasing, At, Idle, Frame
  <2> QED
    BY <1>00, <1>01, <1>5, <2>1, LifeQuiet
<1>6. ASSUME NEW dst \in Handles, NEW src \in Handles, Move(t, dst, src) PROVE Life(b)'
  BY <1>0, <1>02, <1>5, <1>6, SetFrame DEF Move
<1>7. ASSUME NEW h \in Handles, Clear(t, h) PROVE Life(b)'
  BY <1>0, <1>02, <1>5, <1>7, SetFrame DEF Clear, AssignThenRelease
<1>8. CASE CopyWeakInc(t) \/ UpgradeWeakInc(t) \/ WeakInc(t)
  <2>1. /\ AssignThenRelease(t, op[t].dst, op[t].b) /\ op[t].dst \in Handles
        /\ UNCHANGED <<m_strong_count, storage>>
        /\ op[t].pc \in {"copy_weak_inc", "upgrade_weak_inc", "weak_inc"}
        /\ m_weak_count' = [m_weak_count EXCEPT ![op[t].b] = @ + 1]
    BY <1>0, <1>00, <1>8 DEF CopyWeakInc, UpgradeWeakInc, WeakInc, LocalOK
  <2>2. m_weak_count'[b] > 0 <=> m_weak_count[b] > 0
    BY <1>0, <1>00, <2>1
  <2> QED
    <3>1. op'[t] = Releasing(op[t].dst, m_storage[op[t].dst]) /\ Others(t)
      BY <1>0, <2>1, SetFrame DEF AssignThenRelease
    <3> QED
      BY <1>5, <2>1, <2>2, <3>1
<1>9. ASSUME NEW n, Observe(t, n), op[t].pc \in {"load", "cas"},
             UNCHANGED <<m_strong_count, m_weak_count, storage>>
      PROVE  Life(b)'
  <2>1. CASE n > 0
    <3>1. op'[t].pc = "cas" /\ op'[t].b = op[t].b /\ Others(t)
      BY <1>0, <1>9, <2>1 DEF Observe, Op, TypeOK, Others
    <3> QED
      BY <1>0, <1>00, <1>9, <3>1, LifeQuiet
  <2>2. CASE ~(n > 0)
    <3>1. AssignThenRelease(t, op[t].dst, NULL) /\ op[t].dst \in Handles
      BY <1>0, <1>00, <1>9, <2>2 DEF Observe, LocalOK
    <3>2. op'[t] = Releasing(op[t].dst, m_storage[op[t].dst]) /\ Others(t)
      BY <1>0, <3>1, SetFrame DEF AssignThenRelease
    <3> QED
      BY <1>5, <1>9, <3>1, <3>2
  <2> QED
    BY <2>1, <2>2
<1>10. CASE Load(t) \/ CasFails(t)
  BY <1>9, <1>10 DEF Load, CasFails
<1>11. CASE StrongInc(t) \/ CasSucceeds(t)
  <2>1. /\ Others(t) /\ op'[t].pc \in {"copy_weak_inc", "upgrade_weak_inc"} /\ op'[t].b = op[t].b
        /\ op[t].pc \in {"strong_inc", "cas"} /\ UNCHANGED <<m_weak_count, storage>>
    <3>1. CASE StrongInc(t)
      BY <1>0, <3>1, GotoFrame DEF StrongInc
    <3>2. CASE CasSucceeds(t)
      BY <1>0, <3>2, GotoFrame DEF CasSucceeds
    <3> QED
      BY <1>11, <3>1, <3>2
  <2>2. m_strong_count[op[t].b] > 0 /\ op[t].b \in Blocks
    BY <1>0, <1>00, <1>11 DEF StrongInc, CasSucceeds, LocalOK
  <2>3. m_strong_count' = [m_strong_count EXCEPT ![op[t].b] = m_strong_count[op[t].b] + 1]
    BY <1>11 DEF StrongInc, CasSucceeds
  <2>4. m_strong_count'[b] > 0 <=> m_strong_count[b] > 0
    BY <1>00, <2>2, <2>3
  <2> QED
    BY <1>0, <1>00, <2>1, <2>2, <2>4, LifeQuiet
<1>12. CASE StrongDec(t)
  <2>1. /\ op[t].pc = "strong_dec" /\ op[t].b \in Blocks /\ UNCHANGED <<m_weak_count, storage>>
        /\ m_strong_count' = [m_strong_count EXCEPT ![op[t].b] = m_strong_count[op[t].b] - 1]
        /\ Goto(t, IF m_strong_count[op[t].b] = 1 THEN "reset_storage" ELSE "weak_dec")
        /\ m_strong_count[op[t].b] > 0 /\ m_weak_count[op[t].b] > 0
    BY <1>0, <1>12 DEF StrongDec, StrongInFlight
  <2>2. /\ Others(t) /\ op'[t].b = op[t].b
        /\ op'[t].pc = IF m_strong_count[op[t].b] = 1 THEN "reset_storage" ELSE "weak_dec"
    BY <1>0, <2>1, GotoFrame
  <2>3. CASE op[t].b # b \/ m_strong_count[op[t].b] # 1
    <3>1. m_strong_count'[b] > 0 <=> m_strong_count[b] > 0
      BY <1>00, <2>1, <2>3
    <3>2. op'[t].b = b => op'[t].pc = "weak_dec"
      <4>1. op'[t].b = b => m_strong_count[op[t].b] # 1
        BY <2>2, <2>3
      <4> QED
        BY <2>2, <4>1
    <3> QED
      BY <1>00, <2>1, <2>2, <3>1, <3>2, LifeQuiet
  <2>4. CASE op[t].b = b /\ m_strong_count[b] = 1
    <3>1. /\ storage[b] = "live" /\ storage'[b] = "live" /\ m_strong_count'[b] = 0
          /\ m_weak_count'[b] > 0
      BY <1>0, <1>00, <2>1, <2>4 DEF Life
    <3>2. ThreadsAt({"reset_storage"}, b) = {} /\ ThreadsAt({"delete"}, b) = {}
      BY <1>0, <2>4, <3>1 DEF Life
    <3>3. ThreadsAt({"reset_storage"}, b)' = {t} /\ ThreadsAt({"delete"}, b)' = {}
      BY <2>2, <2>4, <3>2 DEF ThreadsAt, Others
    <3> QED
      BY <1>00, <3>1, <3>3 DEF Life
  <2> QED
    BY <2>3, <2>4
<1>13. CASE ResetStorage(t)
  <2>1. /\ op[t].pc = "reset_storage" /\ op[t].b \in Blocks /\ m_weak_count[op[t].b] > 0
        /\ UNCHANGED <<m_strong_count, m_weak_count>>
        /\ storage' = [storage EXCEPT ![op[t].b] = "reset"]
        /\ op'[t].pc = "weak_dec" /\ op'[t].b = op[t].b /\ Others(t)
    BY <1>0, <1>13, GotoFrame DEF ResetStorage
  <2>2. CASE op[t].b # b
    BY <1>00, <2>1, <2>2, LifeQuiet
  <2>3. CASE op[t].b = b
    <3>1. t \in ThreadsAt({"reset_storage"}, b)
      BY <2>1, <2>3 DEF ThreadsAt
    <3>2. /\ storage[b] = "live" /\ m_strong_count[b] = 0
          /\ ThreadsAt({"reset_storage"}, b) = {t} /\ ThreadsAt({"delete"}, b) = {}
      BY <1>0, <3>1 DEF Life
    <3>3. ThreadsAt({"reset_storage"}, b)' = {} /\ ThreadsAt({"delete"}, b)' = {}
      BY <2>1, <3>2 DEF ThreadsAt, Others
    <3>4. storage'[b] = "reset" /\ m_strong_count'[b] = 0 /\ m_weak_count'[b] > 0
      BY <1>00, <2>1, <2>3, <3>2
    <3> QED
      BY <1>00, <3>3, <3>4 DEF Life
  <2> QED
    BY <2>2, <2>3
<1>14. CASE WeakDec(t)
  <2>1. /\ op[t].pc = "weak_dec" /\ op[t].b \in Blocks /\ UNCHANGED <<m_strong_count, storage>>
        /\ m_weak_count' = [m_weak_count EXCEPT ![op[t].b] = m_weak_count[op[t].b] - 1]
        /\ op'[t] = (IF m_weak_count[op[t].b] = 1 THEN At("delete", op[t].b) ELSE Idle)
        /\ Others(t) /\ m_weak_count[op[t].b] > 0
    BY <1>0, <1>14, SetFrame DEF WeakDec
  <2>2. /\ At("delete", op[t].b).pc = "delete" /\ At("delete", op[t].b).b = op[t].b
        /\ Idle.b = NULL
    BY DEF At, Idle, Frame
  <2>3. CASE op[t].b # b \/ m_weak_count[op[t].b] # 1
    <3>1. m_weak_count'[b] > 0 <=> m_weak_count[b] > 0
      BY <1>00, <2>1, <2>3
    <3>2. op'[t].b # b
      BY <1>00, <2>1, <2>2, <2>3
    <3> QED
      BY <1>00, <2>1, <3>1, <3>2, LifeQuiet
  <2>4. CASE op[t].b = b /\ m_weak_count[b] = 1
    <3>1. /\ m_strong_count[b] = 0 /\ {u \in Threads : op[u].b = b} = {t} /\ storage[b] = "reset"
      BY <2>1, <2>4, LastWeak
    <3>2. /\ storage'[b] = "reset" /\ m_strong_count'[b] = 0 /\ m_weak_count'[b] = 0
          /\ op'[t].pc = "delete" /\ op'[t].b = b
      BY <1>00, <2>1, <2>2, <2>4, <3>1
    <3>3. {u \in Threads : op'[u].b = b} = {t}
      BY <2>1, <3>1, <3>2 DEF Others
    <3>4. ThreadsAt({"reset_storage"}, b)' = {} /\ ThreadsAt({"delete"}, b)' = {t}
      BY <3>2, <3>3 DEF ThreadsAt
    <3> QED
      BY <3>2, <3>3, <3>4 DEF Life
  <2> QED
    BY <2>3, <2>4
<1>15. CASE Delete(t)
  <2>1. /\ op[t].pc = "delete" /\ UNCHANGED <<m_strong_count, m_weak_count>>
        /\ storage' = [storage EXCEPT ![op[t].b] = "deleted"]
        /\ op'[t] = Idle /\ Others(t)
    BY <1>0, <1>15, SetFrame DEF Delete
  <2>2. op'[t].b # b
    BY <1>00, <2>1 DEF Idle, Frame
  <2>3. CASE op[t].b # b
    BY <1>00, <2>1, <2>2, <2>3, LifeQuiet
  <2>4. CASE op[t].b = b
    <3>1. t \in ThreadsAt({"delete"}, b)
      BY <2>1, <2>4 DEF ThreadsAt
    <3>2. /\ storage[b] = "reset" /\ m_weak_count[b] = 0 /\ m_strong_count[b] = 0
          /\ {u \in Threads : op[u].b = b} = {t}
      BY <1>0, <1>00, <3>1 DEF Life
    <3>3. \A u \in Threads : op'[u].b # b
      BY <2>1, <2>2, <3>2 DEF Others
    <3>4. ThreadsAt({"reset_storage"}, b)' = {} /\ ThreadsAt({"delete"}, b)' = {}
      BY <3>3 DEF ThreadsAt
    <3>5. storage'[b] = "deleted" /\ m_strong_count'[b] = 0 /\ m_weak_count'[b] = 0
      BY <1>00, <2>1, <2>4, <3>2
    <3> QED
      BY <3>3, <3>4, <3>5 DEF Life
  <2> QED
    BY <2>3, <2>4
<1>16. CASE Return(t)
  <2>1. /\ op[t].pc = "call" /\ UNCHANGED <<m_strong_count, m_weak_count, storage>>
        /\ op'[t] = Idle /\ Others(t)
    BY <1>0, <1>16, SetFrame DEF Return
  <2>2. op'[t].b # b
    BY <1>00, <2>1 DEF Idle, Frame
  <2> QED
    BY <1>00, <2>1, <2>2, LifeQuiet
<1> QED
  BY <1>1, <1>3, <1>4, <1>6, <1>7, <1>8, <1>10, <1>11, <1>12, <1>13, <1>14, <1>15, <1>16
     DEF Begin, Continue

-------------------------------------------------------------------------------
(* The results.                                                            *)

LEMMA InvStep == IInv /\ [Next]_vars => IInv'
<1> SUFFICES ASSUME IInv, [Next]_vars PROVE IInv'
  OBVIOUS
<1>1. CASE Next
  <2>1. TypeOK'
    BY <1>1, TypeStep
  <2> QED
    BY <1>1, <2>1, CountStep, LocalStep, LifeStep DEF IInv
<1>2. CASE UNCHANGED vars
  <2>0. /\ m_strong_count' = m_strong_count /\ m_weak_count' = m_weak_count
        /\ storage' = storage /\ m_storage' = m_storage /\ op' = op
    BY <1>2 DEF vars
  <2>1. TypeOK'
    BY <2>0 DEF IInv, TypeOK
  <2>2. CountsExact'
    BY <2>0 DEF IInv, CountsExact, HoldersIn, ThreadsAt
  <2>3. \A t \in Threads : LocalOK(t)'
    BY <2>0 DEF IInv, LocalOK
  <2>4. Exclusive'
    BY <2>0 DEF IInv, Exclusive
  <2>5. \A b \in Blocks : Life(b)'
    BY <2>0 DEF IInv, Life, ThreadsAt
  <2> QED
    BY <2>1, <2>2, <2>3, <2>4, <2>5 DEF IInv
<1> QED
  BY <1>1, <1>2

(* The inductive invariant holds in every reachable state.                 *)
THEOREM Invariance == Spec => []IInv
  BY InitInv, InvStep, PTL DEF Spec

(* Every variable has its type: no counter ever goes below 0.              *)
THEOREM TypeCorrect == Spec => []TypeOK
<1>1. IInv => TypeOK
  BY DEF IInv
<1> QED
  BY <1>1, Invariance, PTL

(* At every instant each counter counts exactly the handles that hold the  *)
(* block and the operations that owe it a count.                           *)
THEOREM CountsCorrect == Spec => []CountsExact
<1>1. IInv => CountsExact
  BY DEF IInv
<1> QED
  BY <1>1, Invariance, PTL

(* No operation and no handle ever reaches a deleted block.                *)
THEOREM MemorySafety == Spec => []NoUseAfterDelete
<1>1. IInv => NoUseAfterDelete
  <2> SUFFICES ASSUME IInv PROVE NoUseAfterDelete
    OBVIOUS
  <2>1. ASSUME NEW t \in Threads, op[t].b # NULL PROVE storage[op[t].b] \in {"live", "reset"}
    <3> DEFINE b == op[t].b
    <3>1. op[t] \in Op /\ storage \in [Blocks -> {"unborn", "live", "reset", "deleted"}]
      BY DEF IInv, TypeOK
    <3>2. b \in Blocks
      BY <2>1, <3>1 DEF Op
    <3>3. storage[b] \notin {"unborn", "deleted"}
      BY <3>2 DEF IInv, Life
    <3> QED
      BY <3>1, <3>2, <3>3
  <2>2. ASSUME NEW h \in Handles, m_storage[h] # NULL
        PROVE  storage[m_storage[h]] \in {"live", "reset"}
    <3> DEFINE b == m_storage[h]
    <3>1. b \in Blocks
      BY <2>2 DEF IInv, TypeOK
    <3>2. m_weak_count[b] > 0
      BY <3>1, Owed DEF IInv
    <3> QED
      BY <3>1, <3>2 DEF IInv, Life
  <2> QED
    BY <2>1, <2>2 DEF NoUseAfterDelete
<1> QED
  BY <1>1, Invariance, PTL

LEMMA OwnedIsLive == IInv => OwnedCallableIsLive
<1> SUFFICES ASSUME IInv PROVE OwnedCallableIsLive
  OBVIOUS
<1>1. ASSUME NEW h \in Strong, m_storage[h] # NULL PROVE storage[m_storage[h]] = "live"
  <2>1. m_storage[h] \in Blocks
    BY <1>1 DEF IInv, TypeOK, Handles
  <2>2. m_strong_count[m_storage[h]] > 0
    BY <2>1, Owed DEF IInv
  <2> QED
    BY <2>1, <2>2 DEF IInv, Life
<1>2. ASSUME NEW t \in Threads, op[t].pc \in {"copy_weak_inc", "upgrade_weak_inc", "call"}
      PROVE  storage[op[t].b] = "live"
  <2>1. op[t].b \in Blocks /\ m_strong_count[op[t].b] > 0
    BY <1>2, StepStart DEF StrongInFlight
  <2> QED
    BY <2>1 DEF IInv, Life
<1> QED
  BY <1>1, <1>2 DEF OwnedCallableIsLive

(* A callable that a strong handle owns, a lock has won or a call runs has *)
(* not been reset.                                                         *)
THEOREM OwnershipSafety == Spec => []OwnedCallableIsLive
  BY OwnedIsLive, Invariance, PTL

LEMMA OneReaper == IInv => SingleReaper
<1> SUFFICES ASSUME IInv, NEW t \in Threads
             PROVE  /\ op[t].pc = "reset_storage" =>
                         /\ storage[op[t].b] = "live" /\ HoldersIn(Strong, op[t].b) = {}
                         /\ ThreadsAt({"reset_storage"}, op[t].b) = {t}
                    /\ op[t].pc = "delete" =>
                         /\ storage[op[t].b] = "reset" /\ HoldersIn(Handles, op[t].b) = {}
                         /\ {u \in Threads : op[u].b = op[t].b} = {t}
  BY DEF SingleReaper
<1> DEFINE b == op[t].b
<1>1. CASE op[t].pc = "reset_storage"
  <2>1. b \in Blocks /\ t \in ThreadsAt({"reset_storage"}, b)
    BY <1>1 DEF IInv, LocalOK, ThreadsAt
  <2>2. storage[b] = "live" /\ m_strong_count[b] = 0 /\ ThreadsAt({"reset_storage"}, b) = {t}
    BY <2>1 DEF IInv, Life
  <2>3. HoldersIn(Strong, b) = {}
    BY <2>1, <2>2, Owed DEF IInv, HoldersIn
  <2> QED
    BY <1>1, <2>2, <2>3
<1>2. CASE op[t].pc = "delete"
  <2>1. b \in Blocks /\ t \in ThreadsAt({"delete"}, b)
    BY <1>2 DEF IInv, LocalOK, ThreadsAt
  <2>2. storage[b] = "reset" /\ m_weak_count[b] = 0 /\ {u \in Threads : op[u].b = b} = {t}
    BY <2>1 DEF IInv, Life
  <2>3. HoldersIn(Handles, b) = {}
    BY <2>1, <2>2, Owed DEF IInv, HoldersIn
  <2> QED
    BY <1>2, <2>2, <2>3
<1> QED
  BY <1>1, <1>2

(* One thread resets a callable, one deletes a block, and by then nobody   *)
(* else can reach what it destroys.                                        *)
THEOREM ReaperIsAlone == Spec => []SingleReaper
  BY OneReaper, Invariance, PTL

(* Nothing leaks: a callable nobody owns, and a block nobody holds, is in  *)
(* the hands of an operation that will destroy it.                         *)
THEOREM NothingLeaks == Spec => []NoLeak
<1>1. IInv => NoLeak
  <2> SUFFICES ASSUME IInv, NEW b \in Blocks
               PROVE  /\ storage[b] = "live" => HoldersIn(Strong, b) # {}
                           \/ ThreadsAt(StrongInFlight \cup {"reset_storage"}, b) # {}
                      /\ storage[b] = "reset" => HoldersIn(Handles, b) # {}
                           \/ ThreadsAt(WeakInFlight \cup {"delete"}, b) # {}
    BY DEF NoLeak
  <2>0. /\ m_strong_count[b] = Cardinality(HoldersIn(Strong, b))
                               + Cardinality(ThreadsAt(StrongInFlight, b))
        /\ m_weak_count[b] = Cardinality(HoldersIn(Handles, b))
                             + Cardinality(ThreadsAt(WeakInFlight, b))
    BY DEF IInv, CountsExact
  <2>1. CASE storage[b] = "live"
    <3>1. CASE m_strong_count[b] = 0
      <4>1. ThreadsAt({"reset_storage"}, b) # {}
        BY <2>1, <3>1 DEF IInv, Life
      <4> QED
        BY <2>1, <4>1 DEF ThreadsAt
    <3>2. CASE m_strong_count[b] # 0
      <4>1. HoldersIn(Strong, b) # {} \/ ThreadsAt(StrongInFlight, b) # {}
        BY <2>0, <3>2, HoldersFinite, ThreadsFinite DEF Handles
      <4> QED
        BY <2>1, <4>1 DEF ThreadsAt
    <3> QED
      BY <3>1, <3>2
  <2>2. CASE storage[b] = "reset"
    <3>1. CASE m_weak_count[b] = 0
      <4>1. ThreadsAt({"delete"}, b) # {}
        BY <2>2, <3>1 DEF IInv, Life
      <4> QED
        BY <2>2, <4>1 DEF ThreadsAt
    <3>2. CASE m_weak_count[b] # 0
      <4>1. HoldersIn(Handles, b) # {} \/ ThreadsAt(WeakInFlight, b) # {}
        BY <2>0, <3>2, HoldersFinite, ThreadsFinite DEF Handles
      <4> QED
        BY <2>2, <4>1 DEF ThreadsAt
    <3> QED
      BY <3>1, <3>2
  <2> QED
    BY <2>1, <2>2
<1> QED
  BY <1>1, Invariance, PTL

(* A strong count that has dropped to 0 stays there. StrongInc cannot run  *)
(* then, for the handle it copies still holds the block; CasSucceeds       *)
(* cannot, for it expects a count above 0.                                 *)
THEOREM StaysExpired == Spec => NoResurrection
<1> DEFINE Stays == \A b \in Blocks :
             storage[b] # "unborn" /\ m_strong_count[b] = 0 => m_strong_count'[b] = 0
<1>1. IInv /\ [Next]_vars => [Stays]_vars
  <2> SUFFICES ASSUME IInv, NEW t \in Threads, Begin(t) \/ Continue(t) \/ Return(t),
                      NEW b \in Blocks, storage[b] # "unborn", m_strong_count[b] = 0
               PROVE  m_strong_count'[b] = 0
    BY DEF Next
  <2>0. m_strong_count \in [Blocks -> Nat]
    BY DEF IInv, TypeOK
  <2>1. CASE Begin(t)
    <3>1. CASE UNCHANGED m_strong_count
      BY <3>1
    <3>2. ASSUME NEW h \in Strong, NEW c \in Blocks, Construct(t, h, c)
          PROVE  m_strong_count'[b] = 0
      BY <2>0, <3>2 DEF Construct
    <3> QED
      BY <2>1, <3>1, <3>2 DEF Begin, CopyStrong, CopyWeak, Lock, Move, Clear, Invoke
  <2>2. CASE StrongInc(t)
    <3>1. op[t].b \in Blocks /\ m_strong_count[op[t].b] > 0
      <4>1. op[t].pc = "strong_inc"
        BY <2>2 DEF StrongInc
      <4>2. op[t].b \in Blocks /\ op[t].src \in Strong /\ m_storage[op[t].src] = op[t].b
        <5>1. LocalOK(t)
          BY DEF IInv
        <5>2. op[t].src # NULL
          BY <4>1, <5>1, Assumption DEF LocalOK
        <5> QED
          BY <4>1, <5>1, <5>2 DEF LocalOK
      <4> QED
        BY <4>2, Owed DEF IInv
    <3> QED
      BY <2>0, <2>2, <3>1 DEF StrongInc
  <2>3. CASE CasSucceeds(t)
    <3>1. op[t].b \in Blocks /\ op[t].count > 0
      BY <2>3 DEF CasSucceeds, IInv, LocalOK
    <3> QED
      BY <2>0, <2>3, <3>1 DEF CasSucceeds
  <2>4. CASE StrongDec(t)
    <3>1. op[t].b \in Blocks /\ m_strong_count[op[t].b] > 0
      <4>1. op[t].pc \in StrongInFlight
        BY <2>4 DEF StrongDec, StrongInFlight
      <4> QED
        BY <2>4, <4>1, StepStart DEF StrongDec
    <3> QED
      BY <2>0, <2>4, <3>1 DEF StrongDec
  <2>5. CASE UNCHANGED m_strong_count
    BY <2>5
  <2> QED
    BY <2>1, <2>2, <2>3, <2>4, <2>5 DEF Continue, CopyWeakInc, WeakInc, Load, CasFails,
       UpgradeWeakInc, ResetStorage, WeakDec, Delete, Return
<1>2. NoResurrection <=> [][Stays]_vars
  BY PTL DEF NoResurrection
<1> QED
  BY <1>1, <1>2, Invariance, PTL DEF Spec

(* lock( ) gives up only on a block whose strong count is 0 at that moment. *)
THEOREM LockIsFaithful == Spec => LockFailsOnlyWhenExpired
<1> DEFINE Faithful == \A t \in Threads :
             op[t].pc \in {"load", "cas"}
               /\ op'[t].pc \notin {"load", "cas", "upgrade_weak_inc"}
             => m_strong_count[op[t].b] = 0
<1>1. IInv /\ [Next]_vars => [Faithful]_vars
  <2> SUFFICES ASSUME IInv, NEW u \in Threads, Begin(u) \/ Continue(u) \/ Return(u),
                      NEW t \in Threads, op[t].pc \in {"load", "cas"},
                      op'[t].pc \notin {"load", "cas", "upgrade_weak_inc"}
               PROVE  m_strong_count[op[t].b] = 0
    BY DEF Next
  <2>0. /\ op \in [Threads -> Op] /\ m_strong_count \in [Blocks -> Nat]
        /\ op[t].b \in Blocks
    BY DEF IInv, TypeOK, LocalOK
  <2>1. op'[t] # op[t]
    OBVIOUS
  <2>2. u = t
    <3>1. CASE Begin(u)
      BY <2>0, <2>1, <3>1 DEF Begin, Construct, CopyStrong, CopyWeak, Lock, Move, Clear,
                               AssignThenRelease, Invoke
    <3>2. CASE Continue(u) \/ Return(u)
      BY <2>0, <2>1, <3>2 DEF Continue, StrongInc, CopyWeakInc, WeakInc, Load, CasSucceeds,
         CasFails, Observe, UpgradeWeakInc, StrongDec, ResetStorage, WeakDec, Delete, Return,
         Goto, AssignThenRelease
    <3> QED
      BY <3>1, <3>2
  <2>3. CASE Load(t) \/ CasFails(t)
    <3>1. Observe(t, m_strong_count[op[t].b])
      BY <2>3 DEF Load, CasFails
    <3>2. CASE m_strong_count[op[t].b] > 0
      <4>1. op' = [op EXCEPT ![t].pc = "cas", ![t].count = m_strong_count[op[t].b]]
        BY <3>1, <3>2 DEF Observe
      <4>2. op'[t].pc = "cas"
        BY <2>0, <4>1 DEF Op
      <4> QED
        BY <4>2
    <3> QED
      BY <2>0, <3>2
  <2>4. CASE CasSucceeds(t)
    BY <2>0, <2>4 DEF CasSucceeds, Goto
  <2> QED
    BY <2>2, <2>3, <2>4 DEF Begin, Construct, CopyStrong, CopyWeak, Lock, Move, Clear, Invoke,
       Idle, Frame, Continue, StrongInc, CopyWeakInc, WeakInc, UpgradeWeakInc, StrongDec,
       ResetStorage, WeakDec, Delete, Return
<1>2. LockFailsOnlyWhenExpired <=> [][Faithful]_vars
  BY PTL DEF LockFailsOnlyWhenExpired
<1> QED
  BY <1>1, <1>2, Invariance, PTL DEF Spec

-------------------------------------------------------------------------------
(* SharedFunction implements SharedOwnership: its safety part, the steps.  *)
(* The callable thread u runs is that of its frame, while it is in call.   *)

Runs(o) == IF o.pc = "call" THEN o.b ELSE NULL
Calls == [u \in Threads |-> Runs(op[u])]

LEMMA CallsAre ==
  ASSUME NEW t \in Threads, Others(t)
  PROVE  Calls' = [Calls EXCEPT ![t] = Runs(op'[t])]
  BY DEF Others, Calls

(* Steps of a thread that neither begins nor ends a call.                  *)
LEMMA CallsKeep ==
  ASSUME NEW t \in Threads, Others(t), op[t].pc # "call", op'[t].pc # "call"
  PROVE  Calls' = Calls
  BY DEF Others, Calls, Runs

LEMMA OwnershipInit == Init => Ownership!Init
  BY DEF Init, Ownership!Init, Ownership!Handles, Handles, Idle, Frame

LEMMA ReleasingIsNoCall == \A h, old : Releasing(h, old).pc # "call"
  BY DEF Releasing, At, Idle, Frame

(* A handle is set to a block its source holds, or to none.                *)
LEMMA AssignShares ==
  ASSUME IInv, NEW t \in Threads, op[t].pc # "call", UNCHANGED storage,
         NEW h \in Handles, NEW b, AssignThenRelease(t, h, b),
         \/ b = NULL
         \/ /\ b \in Blocks /\ \E src \in Handles : m_storage[src] = b
            /\ h \in Strong => storage[b] = "live"
  PROVE  Ownership!Next
<1>1. m_storage' = [m_storage EXCEPT ![h] = b] /\ Calls' = Calls
  <2>1. op'[t] = Releasing(h, m_storage[h]) /\ Others(t)
    BY SetFrame DEF AssignThenRelease, IInv
  <2>2. op'[t].pc # "call"
    BY <2>1, ReleasingIsNoCall
  <2> QED
    BY <2>1, <2>2, CallsKeep DEF AssignThenRelease
<1>2. Ownership!Handles = Handles
  BY DEF Ownership!Handles, Handles
<1>3. CASE b = NULL
  <2>1. Ownership!Drop(h)
    BY <1>1, <1>3 DEF Ownership!Drop, Calls, Runs
  <2> QED
    BY <1>2, <2>1 DEF Ownership!Next
<1>4. CASE /\ b \in Blocks /\ \E src \in Handles : m_storage[src] = b
           /\ h \in Strong => storage[b] = "live"
  <2>1. Ownership!Share(h, b)
    BY <1>1, <1>2, <1>4 DEF Ownership!Share, Ownership!HoldersIn, Calls, Runs
  <2> QED
    BY <1>2, <1>4, <2>1 DEF Ownership!Next
<1> QED
  BY <1>3, <1>4

LEMMA BeginRefines ==
  ASSUME IInv, NEW t \in Threads, Begin(t)
  PROVE  Ownership!Next \/ UNCHANGED Ownership!vars
<1>0. op[t] = Idle /\ op[t].pc = "idle" /\ TypeOK
  BY DEF Begin, Construct, CopyStrong, CopyWeak, Lock, Move, Clear, Invoke, Idle, Frame, IInv
<1>1. Ownership!Handles = Handles /\ Strong \subseteq Handles
  BY DEF Ownership!Handles, Handles
<1>2. ASSUME NEW h \in Strong, NEW b \in Blocks, Construct(t, h, b) PROVE Ownership!Next
  <2>1. Ownership!Create(h, b)
    BY <1>2 DEF Construct, Ownership!Create
  <2> QED
    BY <2>1 DEF Ownership!Next
<1>3. ASSUME UNCHANGED <<storage, m_storage>>, NEW p, NEW dst, NEW src, NEW b,
             p # "call", op' = [op EXCEPT ![t] = Frame(p, dst, src, b)]
      PROVE  UNCHANGED Ownership!vars
  <2>1. op'[t] = Frame(p, dst, src, b) /\ Others(t)
    BY <1>0, <1>3, SetFrame
  <2>2. op'[t].pc # "call"
    BY <1>3, <2>1 DEF Frame
  <2>3. Calls' = Calls
    BY <1>0, <2>1, <2>2, CallsKeep
  <2> QED
    BY <1>3, <2>3 DEF Ownership!vars, Calls, Runs
<1>4. ASSUME NEW dst, NEW src, CopyStrong(t, dst, src) \/ CopyWeak(t, dst, src) \/ Lock(t, dst, src)
      PROVE  UNCHANGED Ownership!vars
  BY <1>3, <1>4 DEF CopyStrong, CopyWeak, Lock
<1>5. ASSUME NEW dst \in Handles, NEW src \in Handles, Move(t, dst, src) PROVE Ownership!Next
  <2>1. op'[t] = Releasing(dst, m_storage[dst]) /\ Others(t)
    BY <1>0, <1>5, SetFrame DEF Move
  <2>2. op'[t].pc # "call"
    BY <2>1, ReleasingIsNoCall
  <2>3. Calls' = Calls
    BY <1>0, <2>1, <2>2, CallsKeep
  <2>4. Ownership!Transfer(dst, src)
    BY <1>5, <2>3 DEF Move, Ownership!Transfer, Calls, Runs
  <2>5. dst \in Strong <=> src \in Strong
    BY <1>5 DEF Move
  <2>6. (dst \in Strong /\ src \in Strong) \/ (dst \in Weak /\ src \in Weak)
    BY <2>5 DEF Handles
  <2> QED
    BY <2>4, <2>6 DEF Ownership!Next
<1>6. ASSUME NEW h \in Handles, Clear(t, h) PROVE Ownership!Next
  BY <1>0, <1>6, AssignShares DEF Clear
<1>7. ASSUME NEW h \in Strong, Invoke(t, h) PROVE Ownership!Next
  <2>1. op'[t] = Frame("call", NULL, h, m_storage[h]) /\ Others(t)
    BY <1>0, <1>7, SetFrame DEF Invoke
  <2>2. Calls' = [Calls EXCEPT ![t] = m_storage[h]]
    BY <2>1, CallsAre DEF Runs, Frame
  <2>3. Calls[t] = NULL
    BY <1>0 DEF Calls, Runs
  <2>4. storage[m_storage[h]] = "live"
    BY <1>7, OwnedIsLive DEF Invoke, OwnedCallableIsLive
  <2>5. Ownership!StartCall(t, h)
    BY <1>7, <2>2, <2>3, <2>4 DEF Invoke, Ownership!StartCall, Calls, Runs
  <2> QED
    BY <2>5 DEF Ownership!Next
<1> QED
  BY <1>2, <1>4, <1>5, <1>6, <1>7 DEF Begin

(* Taking a count, and giving one back, is nothing to the users; the       *)
(* handle set, the callable reset and the block deleted are.               *)
LEMMA ContinueRefines ==
  ASSUME IInv, NEW t \in Threads, Continue(t)
  PROVE  Ownership!Next \/ UNCHANGED Ownership!vars
<1> DEFINE b == op[t].b
<1>0. TypeOK /\ LocalOK(t) /\ NULL \notin Handles
  BY Assumption DEF IInv, Handles
<1>1. ASSUME NEW p, Goto(t, p), op[t].pc # "call", p # "call" PROVE Calls' = Calls
  BY <1>0, <1>1, GotoFrame, CallsKeep
<1>2. CASE StrongInc(t) \/ CasSucceeds(t) \/ StrongDec(t)
  <2>1. Calls' = Calls /\ UNCHANGED <<storage, m_storage>>
    BY <1>1, <1>2 DEF StrongInc, CasSucceeds, StrongDec
  <2> QED
    BY <2>1 DEF Ownership!vars, Calls, Runs
<1>3. CASE CopyWeakInc(t) \/ UpgradeWeakInc(t) \/ WeakInc(t)
  <2>1. /\ op[t].pc \in {"copy_weak_inc", "upgrade_weak_inc", "weak_inc"}
        /\ AssignThenRelease(t, op[t].dst, b) /\ UNCHANGED storage
    BY <1>3 DEF CopyWeakInc, UpgradeWeakInc, WeakInc
  <2>2. op[t].dst \in Handles /\ op[t].src \in Handles /\ m_storage[op[t].src] = b /\ b \in Blocks
    BY <1>0, <2>1 DEF LocalOK, Handles
  <2>3. op[t].dst \in Strong => storage[b] = "live"
    <3>1. op[t].pc = "weak_inc" => op[t].dst \notin Strong
      BY <1>0, Assumption DEF LocalOK
    <3> QED
      BY <2>1, <3>1, OwnedIsLive DEF OwnedCallableIsLive
  <2> QED
    BY <2>1, <2>2, <2>3, AssignShares
<1>4. CASE Load(t) \/ CasFails(t)
  <2>1. Observe(t, m_strong_count[b]) /\ op[t].pc \in {"load", "cas"} /\ UNCHANGED storage
    BY <1>4 DEF Load, CasFails
  <2>2. CASE m_strong_count[b] > 0
    <3>1. op' = [op EXCEPT ![t].pc = "cas", ![t].count = m_strong_count[b]] /\ UNCHANGED m_storage
      BY <2>1, <2>2 DEF Observe
    <3>2. op'[t].pc = "cas" /\ Others(t)
      BY <1>0, <3>1 DEF TypeOK, Op, Others
    <3>3. Calls' = Calls
      BY <2>1, <3>2, CallsKeep
    <3> QED
      BY <2>1, <3>1, <3>3 DEF Ownership!vars, Calls, Runs
  <2>3. CASE ~(m_strong_count[b] > 0)
    <3>1. AssignThenRelease(t, op[t].dst, NULL) /\ op[t].dst \in Handles
      BY <1>0, <2>1, <2>3 DEF Observe, LocalOK, Handles
    <3> QED
      BY <2>1, <3>1, AssignShares
  <2> QED
    BY <2>2, <2>3
<1>5. CASE ResetStorage(t)
  <2>1. /\ op[t].pc = "reset_storage" /\ storage' = [storage EXCEPT ![b] = "reset"]
        /\ UNCHANGED m_storage /\ Calls' = Calls
    BY <1>1, <1>5 DEF ResetStorage
  <2>2. b \in Blocks /\ storage[b] = "live" /\ HoldersIn(Strong, b) = {}
    BY <1>0, <2>1, OneReaper DEF SingleReaper, LocalOK
  <2>3. m_strong_count[b] = 0
    BY <2>1, <2>2 DEF IInv, Life, ThreadsAt
  <2>4. \A u \in Threads : Calls[u] # b
    <3> SUFFICES ASSUME NEW u \in Threads, op[u].pc = "call", op[u].b = b PROVE FALSE
      BY <2>2, Assumption DEF Calls, Runs
    <3> QED
      BY <2>3, StepStart
  <2>5. Ownership!ResetCallable(b)
    BY <2>1, <2>2, <2>4 DEF Ownership!ResetCallable, Ownership!HoldersIn, HoldersIn, Calls, Runs
  <2> QED
    BY <2>2, <2>5 DEF Ownership!Next
<1>6. CASE WeakDec(t)
  <2>1. /\ op' = [op EXCEPT ![t] = IF m_weak_count[b] = 1 THEN At("delete", b) ELSE Idle]
        /\ op[t].pc = "weak_dec" /\ UNCHANGED <<storage, m_storage>>
    BY <1>6 DEF WeakDec
  <2>2. op'[t].pc # "call" /\ Others(t)
    <3>1. op'[t] = (IF m_weak_count[b] = 1 THEN At("delete", b) ELSE Idle) /\ Others(t)
      BY <1>0, <2>1, SetFrame
    <3> QED
      BY <3>1 DEF At, Idle, Frame
  <2>3. Calls' = Calls
    BY <2>1, <2>2, CallsKeep
  <2> QED
    BY <2>1, <2>3 DEF Ownership!vars, Calls, Runs
<1>7. CASE Delete(t)
  <2>1. /\ op[t].pc = "delete" /\ storage' = [storage EXCEPT ![b] = "deleted"]
        /\ op' = [op EXCEPT ![t] = Idle] /\ UNCHANGED m_storage
    BY <1>7 DEF Delete
  <2>2. op'[t].pc # "call" /\ Others(t)
    <3>1. op'[t] = Idle /\ Others(t)
      BY <1>0, <2>1, SetFrame
    <3> QED
      BY <3>1 DEF Idle, Frame
  <2>3. Calls' = Calls
    BY <2>1, <2>2, CallsKeep
  <2>4. b \in Blocks /\ storage[b] = "reset" /\ HoldersIn(Handles, b) = {}
    BY <1>0, <2>1, OneReaper DEF SingleReaper, LocalOK
  <2>5. Ownership!DeleteBlock(b)
    BY <2>1, <2>3, <2>4 DEF Ownership!DeleteBlock, Ownership!HoldersIn, HoldersIn,
       Ownership!Handles, Handles, Calls, Runs
  <2> QED
    BY <2>4, <2>5 DEF Ownership!Next
<1> QED
  BY <1>2, <1>3, <1>4, <1>5, <1>6, <1>7 DEF Continue

LEMMA ReturnRefines ==
  ASSUME IInv, NEW t \in Threads, Return(t)
  PROVE  Ownership!Next
<1>1. op[t].pc = "call" /\ op'[t] = Idle /\ Others(t) /\ UNCHANGED <<storage, m_storage>>
  BY SetFrame DEF Return, IInv
<1>2. Calls' = [Calls EXCEPT ![t] = NULL]
  BY <1>1, CallsAre DEF Runs, Idle, Frame
<1>3. Calls[t] # NULL
  BY <1>1, Assumption DEF IInv, LocalOK, Calls, Runs
<1>4. Ownership!EndCall(t)
  BY <1>1, <1>2, <1>3 DEF Ownership!EndCall, Calls, Runs
<1> QED
  BY <1>4 DEF Ownership!Next

(* The counters and the steps between implement the handles and the        *)
(* callable they share, for any number of threads, handles and blocks.     *)
(* That what nobody owns is given up in the end is left to model checking. *)
THEOREM SafeOwnership == Spec => Ownership!Safe
<1>1. IInv /\ [Next]_vars => [Ownership!Next]_(Ownership!vars)
  <2>1. ASSUME UNCHANGED vars PROVE UNCHANGED Ownership!vars
    BY <2>1 DEF vars, Ownership!vars
  <2> QED
    BY <2>1, BeginRefines, ContinueRefines, ReturnRefines DEF Next
<1> QED
  BY <1>1, OwnershipInit, Invariance, PTL DEF Spec, Ownership!Safe

================================================================================
