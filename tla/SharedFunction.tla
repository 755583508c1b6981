---------------------------- MODULE SharedFunction -----------------------------
(***************************************************************************)
(* daw::shared_function and daw::weak_shared_function                      *)
(* (include/daw/daw_shared_function.h): handles that share one heap block  *)
(* holding a callable, counted by two separate atomic integers.            *)
(*                                                                         *)
(* Every read-modify-write of a counter is an action of its own, and so    *)
(* are reset_storage and delete, so that any other thread may run between  *)
(* two of them. What a thread does to a handle object alone is merged with *)
(* the counter step beside it: a handle is an ordinary C++ object, and a   *)
(* program without data races never lets another thread look at it while   *)
(* an operation writes it (MayWrite, MayRead).                             *)
(*                                                                         *)
(* A handle that is not constructed and one that is empty are both NULL:   *)
(* a constructor is the assignment to such a handle.                       *)
(***************************************************************************)
EXTENDS Integers, FiniteSets

CONSTANTS Threads,      \* the threads that use the handles
          Strong, Weak, \* shared_function and weak_shared_function objects
          Blocks,       \* the storage blocks a run may allocate
          NULL

ASSUME Assumption ==
  /\ IsFiniteSet(Threads) /\ IsFiniteSet(Strong) /\ IsFiniteSet(Weak)
  /\ Strong \cap Weak = {}
  /\ NULL \notin Strong \cup Weak \cup Blocks

VARIABLES
  m_strong_count, \* m_strong_count[b]
  m_weak_count,   \* m_weak_count[b]
  storage,        \* storage[b]: "unborn", "live", "reset" (m_func reset) or "deleted"
  m_storage,      \* m_storage[h]: the block handle h points to, or NULL
  op              \* op[t]: where thread t is and the locals of that function

vars == <<m_strong_count, m_weak_count, storage, m_storage, op>>

Handles == Strong \cup Weak

PCs == {"idle",
        "strong_inc", "copy_weak_inc",               \* strong_copy
        "load", "cas", "upgrade_weak_inc",           \* weak_upgrade
        "weak_inc",                                  \* weak_copy
        "strong_dec", "reset_storage",               \* strong_release
        "weak_dec", "delete",                        \* weak_release
        "call"}                                      \* call

Op == [pc: PCs, dst: Handles \cup {NULL}, src: Handles \cup {NULL},
       b: Blocks \cup {NULL}, count: Nat]

Frame(pc, dst, src, b) ==
  [pc |-> pc, dst |-> dst, src |-> src, b |-> b, count |-> 0]

Idle == Frame("idle", NULL, NULL, NULL)

Init ==
  /\ m_strong_count = [b \in Blocks |-> 0]
  /\ m_weak_count = [b \in Blocks |-> 0]
  /\ storage = [b \in Blocks |-> "unborn"]
  /\ m_storage = [h \in Handles |-> NULL]
  /\ op = [t \in Threads |-> Idle]

-------------------------------------------------------------------------------
(* Which handles a race-free program lets a thread use.                    *)

MayRead(h) == \A t \in Threads : op[t].dst # h
MayWrite(h) == MayRead(h) /\ \A t \in Threads : op[t].src # h

At(pc, b) == Frame(pc, NULL, NULL, b)

(* strong_release( old ) or weak_release( old ), by the kind of handle.    *)
Releasing(h, old) ==
  IF old = NULL THEN Idle
  ELSE IF h \in Strong THEN At("strong_dec", old) ELSE At("weak_dec", old)

(* m_storage = b, then the release of what h held before.                  *)
AssignThenRelease(t, h, b) ==
  /\ m_storage' = [m_storage EXCEPT ![h] = b]
  /\ op' = [op EXCEPT ![t] = Releasing(h, m_storage[h])]

-------------------------------------------------------------------------------
(* Operations a thread begins.                                             *)

(* shared_function( fn ): make_fn_storage, with both counts starting at 1. *)
Construct(t, h, b) ==
  /\ op[t] = Idle
  /\ h \in Strong /\ m_storage[h] = NULL /\ MayWrite(h)
  /\ storage[b] = "unborn"
  /\ storage' = [storage EXCEPT ![b] = "live"]
  /\ m_strong_count' = [m_strong_count EXCEPT ![b] = 1]
  /\ m_weak_count' = [m_weak_count EXCEPT ![b] = 1]
  /\ m_storage' = [m_storage EXCEPT ![h] = b]
  /\ UNCHANGED op

(* Copy construction or assignment of a shared_function, from one that is  *)
(* not empty (from an empty one it is Clear).                              *)
CopyStrong(t, dst, src) ==
  /\ op[t] = Idle
  /\ dst \in Strong /\ src \in Strong /\ dst # src
  /\ m_storage[src] # NULL /\ MayWrite(dst) /\ MayRead(src)
  /\ op' = [op EXCEPT ![t] = Frame("strong_inc", dst, src, m_storage[src])]
  /\ UNCHANGED <<m_strong_count, m_weak_count, storage, m_storage>>

(* get_weak( ), or copy of a weak_shared_function, into a weak handle.     *)
CopyWeak(t, dst, src) ==
  /\ op[t] = Idle
  /\ dst \in Weak /\ src \in Handles /\ dst # src
  /\ m_storage[src] # NULL /\ MayWrite(dst) /\ MayRead(src)
  /\ op' = [op EXCEPT ![t] = Frame("weak_inc", dst, src, m_storage[src])]
  /\ UNCHANGED <<m_strong_count, m_weak_count, storage, m_storage>>

(* dst = src.lock( ).                                                      *)
Lock(t, dst, src) ==
  /\ op[t] = Idle
  /\ dst \in Strong /\ src \in Weak
  /\ m_storage[src] # NULL /\ MayWrite(dst) /\ MayRead(src)
  /\ op' = [op EXCEPT ![t] = Frame("load", dst, src, m_storage[src])]
  /\ UNCHANGED <<m_strong_count, m_weak_count, storage, m_storage>>

(* Mutant of Move: no check for self assignment.                           *)
MoveOntoItself(t, dst, src) ==
  /\ op[t] = Idle
  /\ (dst \in Strong <=> src \in Strong)
  /\ m_storage[src] # NULL /\ MayWrite(dst) /\ MayWrite(src)
  /\ m_storage' = [m_storage EXCEPT ![src] = NULL, ![dst] = m_storage[src]]
  /\ op' = [op EXCEPT ![t] = Releasing(dst, m_storage[dst])]
  /\ UNCHANGED <<m_strong_count, m_weak_count, storage>>

(* Move construction or assignment, between handles of one kind: no count  *)
(* changes but those of what dst gives up.                                 *)
Move(t, dst, src) ==
  /\ op[t] = Idle
  /\ dst # src /\ (dst \in Strong <=> src \in Strong)
  /\ m_storage[src] # NULL /\ MayWrite(dst) /\ MayWrite(src)
  /\ m_storage' = [m_storage EXCEPT ![dst] = m_storage[src], ![src] = NULL]
  /\ op' = [op EXCEPT ![t] = Releasing(dst, m_storage[dst])]
  /\ UNCHANGED <<m_strong_count, m_weak_count, storage>>

(* The destructors, and any assignment from an empty handle.               *)
Clear(t, h) ==
  /\ op[t] = Idle
  /\ m_storage[h] # NULL /\ MayWrite(h)
  /\ AssignThenRelease(t, h, NULL)
  /\ UNCHANGED <<m_strong_count, m_weak_count, storage>>

(* operator( ): the handle is only read while its callable runs.           *)
Invoke(t, h) ==
  /\ op[t] = Idle
  /\ h \in Strong /\ m_storage[h] # NULL /\ MayRead(h)
  /\ op' = [op EXCEPT ![t] = Frame("call", NULL, h, m_storage[h])]
  /\ UNCHANGED <<m_strong_count, m_weak_count, storage, m_storage>>

Begin(t) ==
  \/ \E h \in Strong, b \in Blocks : Construct(t, h, b)
  \/ \E dst, src \in Strong : CopyStrong(t, dst, src)
  \/ \E dst \in Weak, src \in Handles : CopyWeak(t, dst, src)
  \/ \E dst \in Strong, src \in Weak : Lock(t, dst, src)
  \/ \E dst, src \in Handles : Move(t, dst, src)
  \/ \E h \in Handles : Clear(t, h)
  \/ \E h \in Strong : Invoke(t, h)

-------------------------------------------------------------------------------
(* Steps of an operation under way. b is the block the thread works on.    *)

Goto(t, p) == op' = [op EXCEPT ![t].pc = p]

(* strong_copy: ++m_strong_count, and only then ++m_weak_count.            *)
StrongInc(t) ==
  LET b == op[t].b IN
  /\ op[t].pc = "strong_inc"
  /\ m_strong_count' = [m_strong_count EXCEPT ![b] = @ + 1]
  /\ Goto(t, "copy_weak_inc")
  /\ UNCHANGED <<m_weak_count, storage, m_storage>>

(* Mutant of CopyWeakInc and UpgradeWeakInc: no ++m_weak_count.            *)
WeakIncLost(t) ==
  /\ op[t].pc \in {"copy_weak_inc", "upgrade_weak_inc"}
  /\ AssignThenRelease(t, op[t].dst, op[t].b)
  /\ UNCHANGED <<m_strong_count, m_weak_count, storage>>

CopyWeakInc(t) ==
  LET b == op[t].b IN
  /\ op[t].pc = "copy_weak_inc"
  /\ m_weak_count' = [m_weak_count EXCEPT ![b] = @ + 1]
  /\ AssignThenRelease(t, op[t].dst, b)
  /\ UNCHANGED <<m_strong_count, storage>>

(* weak_copy.                                                              *)
WeakInc(t) ==
  LET b == op[t].b IN
  /\ op[t].pc = "weak_inc"
  /\ m_weak_count' = [m_weak_count EXCEPT ![b] = @ + 1]
  /\ AssignThenRelease(t, op[t].dst, b)
  /\ UNCHANGED <<m_strong_count, storage>>

(* weak_upgrade: the value it reads decides; 0 means that lock( ) returns  *)
(* an empty shared_function, which dst is assigned.                        *)
Observe(t, count) ==
  IF count > 0
  THEN /\ op' = [op EXCEPT ![t].pc = "cas", ![t].count = count]
       /\ UNCHANGED m_storage
  ELSE AssignThenRelease(t, op[t].dst, NULL)

Load(t) ==
  /\ op[t].pc = "load"
  /\ Observe(t, m_strong_count[op[t].b])
  /\ UNCHANGED <<m_strong_count, m_weak_count, storage>>

(* Mutant of CasSucceeds: a fetch_add in place of the CAS.                 *)
CasNotCompared(t) ==
  LET b == op[t].b IN
  /\ op[t].pc = "cas"
  /\ m_strong_count' = [m_strong_count EXCEPT ![b] = @ + 1]
  /\ Goto(t, "upgrade_weak_inc")
  /\ UNCHANGED <<m_weak_count, storage, m_storage>>

CasSucceeds(t) ==
  LET b == op[t].b IN
  /\ op[t].pc = "cas"
  /\ m_strong_count[b] = op[t].count
  /\ m_strong_count' = [m_strong_count EXCEPT ![b] = op[t].count + 1]
  /\ Goto(t, "upgrade_weak_inc")
  /\ UNCHANGED <<m_weak_count, storage, m_storage>>

(* Mutant of CasFails: one attempt only.                                   *)
CasFailsOnce(t) ==
  /\ op[t].pc = "cas"
  /\ AssignThenRelease(t, op[t].dst, NULL)
  /\ UNCHANGED <<m_strong_count, m_weak_count, storage>>

(* compare_exchange_weak may also fail when the counts agree.              *)
CasFails(t) ==
  /\ op[t].pc = "cas"
  /\ Observe(t, m_strong_count[op[t].b])
  /\ UNCHANGED <<m_strong_count, m_weak_count, storage>>

UpgradeWeakInc(t) ==
  LET b == op[t].b IN
  /\ op[t].pc = "upgrade_weak_inc"
  /\ m_weak_count' = [m_weak_count EXCEPT ![b] = @ + 1]
  /\ AssignThenRelease(t, op[t].dst, b)
  /\ UNCHANGED <<m_strong_count, storage>>

(* Mutant of StrongDec: m_strong_count-- == 0.                             *)
StrongDecPost(t) ==
  LET b == op[t].b IN
  /\ op[t].pc = "strong_dec"
  /\ m_strong_count' = [m_strong_count EXCEPT ![b] = @ - 1]
  /\ Goto(t, IF m_strong_count[b] = 0 THEN "reset_storage" ELSE "weak_dec")
  /\ UNCHANGED <<m_weak_count, storage, m_storage>>

(* strong_release: the thread that takes the strong count to 0 resets the  *)
(* callable; every thread then goes on to weak_release.                    *)
StrongDec(t) ==
  LET b == op[t].b IN
  /\ op[t].pc = "strong_dec"
  /\ m_strong_count' = [m_strong_count EXCEPT ![b] = @ - 1]
  /\ Goto(t, IF m_strong_count[b] = 1 THEN "reset_storage" ELSE "weak_dec")
  /\ UNCHANGED <<m_weak_count, storage, m_storage>>

ResetStorage(t) ==
  LET b == op[t].b IN
  /\ op[t].pc = "reset_storage"
  /\ storage' = [storage EXCEPT ![b] = "reset"]
  /\ Goto(t, "weak_dec")
  /\ UNCHANGED <<m_strong_count, m_weak_count, m_storage>>

(* Mutant of WeakDec: m_weak_count-- == 0.                                 *)
WeakDecPost(t) ==
  LET b == op[t].b IN
  /\ op[t].pc = "weak_dec"
  /\ m_weak_count' = [m_weak_count EXCEPT ![b] = @ - 1]
  /\ op' = [op EXCEPT ![t] = IF m_weak_count[b] = 0 THEN At("delete", b) ELSE Idle]
  /\ UNCHANGED <<m_strong_count, storage, m_storage>>

(* weak_release: the thread that takes the weak count to 0 deletes.        *)
WeakDec(t) ==
  LET b == op[t].b IN
  /\ op[t].pc = "weak_dec"
  /\ m_weak_count' = [m_weak_count EXCEPT ![b] = @ - 1]
  /\ op' = [op EXCEPT ![t] = IF m_weak_count[b] = 1 THEN At("delete", b) ELSE Idle]
  /\ UNCHANGED <<m_strong_count, storage, m_storage>>

Delete(t) ==
  LET b == op[t].b IN
  /\ op[t].pc = "delete"
  /\ storage' = [storage EXCEPT ![b] = "deleted"]
  /\ op' = [op EXCEPT ![t] = Idle]
  /\ UNCHANGED <<m_strong_count, m_weak_count, m_storage>>

(* The callable returns; call( ) ensured on entry that it was there.       *)
Return(t) ==
  /\ op[t].pc = "call"
  /\ op' = [op EXCEPT ![t] = Idle]
  /\ UNCHANGED <<m_strong_count, m_weak_count, storage, m_storage>>

Continue(t) ==
  \/ StrongInc(t) \/ CopyWeakInc(t) \/ WeakInc(t)
  \/ Load(t) \/ CasSucceeds(t) \/ CasFails(t) \/ UpgradeWeakInc(t)
  \/ StrongDec(t) \/ ResetStorage(t) \/ WeakDec(t) \/ Delete(t)

Next == \E t \in Threads : Begin(t) \/ Continue(t) \/ Return(t)

(* A thread inside an operation of the library keeps running. Nobody has   *)
(* to begin an operation, and the callable need not return.                *)
Spec == Init /\ [][Next]_vars /\ \A t \in Threads : WF_vars(Continue(t))

-------------------------------------------------------------------------------
(* Properties.                                                             *)

(* Every variable has its type; the counters never go below 0.             *)
TypeOK ==
  /\ m_strong_count \in [Blocks -> Nat]
  /\ m_weak_count \in [Blocks -> Nat]
  /\ storage \in [Blocks -> {"unborn", "live", "reset", "deleted"}]
  /\ m_storage \in [Handles -> Blocks \cup {NULL}]
  /\ op \in [Threads -> Op]

(* The threads that, between two steps, owe block b one strong count, or   *)
(* one weak count, beyond what the handles account for.                    *)
HoldersIn(H, b) == {h \in H : m_storage[h] = b}
ThreadsAt(pcs, b) == {t \in Threads : op[t].pc \in pcs /\ op[t].b = b}
StrongInFlight == {"copy_weak_inc", "upgrade_weak_inc", "strong_dec"}
WeakInFlight == {"strong_dec", "reset_storage", "weak_dec"}

(* The counters of a block count what they are for at every instant: the   *)
(* strong handles, or all handles, that hold it, and the operations that   *)
(* have taken a count for a handle they have not set yet or have not given *)
(* back the count of a handle they have cleared. So no count is lost or    *)
(* given back twice, in whatever order the two increments of strong_copy,  *)
(* the CAS of weak_upgrade and the decrements of other threads mix.        *)
CountsExact ==
  \A b \in Blocks :
    /\ m_strong_count[b] = Cardinality(HoldersIn(Strong, b))
                           + Cardinality(ThreadsAt(StrongInFlight, b))
    /\ m_weak_count[b] = Cardinality(HoldersIn(Handles, b))
                         + Cardinality(ThreadsAt(WeakInFlight, b))

(* No operation under way works on a deleted block, and no handle points   *)
(* to one: the block outlives every access strong_copy, weak_upgrade,      *)
(* weak_copy, the releases and call make to it.                            *)
NoUseAfterDelete ==
  /\ \A t \in Threads : op[t].b # NULL => storage[op[t].b] \in {"live", "reset"}
  /\ \A h \in Handles : m_storage[h] # NULL => storage[m_storage[h]] \in {"live", "reset"}

(* While a strong handle holds a block, a lock has won its CAS, or the     *)
(* callable runs, the callable has not been reset: daw_ensure( m_func ) in *)
(* call never fires and lock( ) never returns a handle to a dead callable. *)
OwnedCallableIsLive ==
  /\ \A h \in Strong : m_storage[h] # NULL => storage[m_storage[h]] = "live"
  /\ \A t \in Threads : op[t].pc \in {"copy_weak_inc", "upgrade_weak_inc", "call"}
                          => storage[op[t].b] = "live"

(* At most one thread ever gets to reset a callable, and at most one to    *)
(* delete a block; when it does, that has not been done yet and nobody can *)
(* reach the block any more.                                               *)
SingleReaper ==
  \A t \in Threads :
    LET b == op[t].b IN
    /\ op[t].pc = "reset_storage" =>
         /\ storage[b] = "live" /\ HoldersIn(Strong, b) = {}
         /\ ThreadsAt({"reset_storage"}, b) = {t}
    /\ op[t].pc = "delete" =>
         /\ storage[b] = "reset" /\ HoldersIn(Handles, b) = {}
         /\ {u \in Threads : op[u].b = b} = {t}

(* Nothing leaks: a callable nobody owns is reset unless some operation    *)
(* under way is about to see to it, and so is a block nobody holds.        *)
NoLeak ==
  \A b \in Blocks :
    /\ storage[b] = "live" =>
         HoldersIn(Strong, b) # {} \/ ThreadsAt(StrongInFlight \cup {"reset_storage"}, b) # {}
    /\ storage[b] = "reset" =>
         HoldersIn(Handles, b) # {} \/ ThreadsAt(WeakInFlight \cup {"delete"}, b) # {}

(* What the operations under way know. While one takes a count, its source *)
(* handle still holds the block; a release works on a block that is in no  *)
(* handle of its own any more.                                             *)
LocalOK(t) ==
  LET o == op[t] IN
  /\ o.pc = "idle" => o = Idle
  /\ o.pc \in {"strong_inc", "copy_weak_inc"} => o.dst \in Strong /\ o.src \in Strong
  /\ o.pc \in {"load", "cas", "upgrade_weak_inc"} => o.dst \in Strong /\ o.src \in Weak
  /\ o.pc = "weak_inc" => o.dst \in Weak /\ o.src \in Handles
  /\ o.pc = "call" => o.dst = NULL /\ o.src \in Strong
  /\ o.pc \in {"strong_dec", "reset_storage", "weak_dec", "delete"} =>
       o.dst = NULL /\ o.src = NULL
  /\ o.pc = "cas" => o.count > 0
  /\ o.pc # "idle" => o.b \in Blocks
  /\ o.src # NULL => m_storage[o.src] = o.b

(* No other operation uses the handle an operation is about to write.      *)
Exclusive ==
  \A t, u \in Threads :
    op[t].dst # NULL =>
      /\ op[t].dst # op[u].src
      /\ t # u => op[t].dst # op[u].dst

(* The life of a block: from the counts to what has become of it and of    *)
(* the callable in it.                                                     *)
Life(b) ==
  /\ storage[b] \in {"unborn", "deleted"} =>
       m_weak_count[b] = 0 /\ \A t \in Threads : op[t].b # b
  /\ m_strong_count[b] > 0 => storage[b] = "live"
  /\ m_weak_count[b] > 0 => storage[b] \in {"live", "reset"}
  /\ storage[b] = "live" /\ m_strong_count[b] = 0 => ThreadsAt({"reset_storage"}, b) # {}
  /\ storage[b] = "reset" /\ m_weak_count[b] = 0 => ThreadsAt({"delete"}, b) # {}
  /\ \A t \in ThreadsAt({"reset_storage"}, b) :
       storage[b] = "live" /\ m_strong_count[b] = 0 /\ ThreadsAt({"reset_storage"}, b) = {t}
  /\ \A t \in ThreadsAt({"delete"}, b) :
       storage[b] = "reset" /\ m_weak_count[b] = 0 /\ {u \in Threads : op[u].b = b} = {t}

(* The inductive invariant: the safety properties above follow from it.    *)
IInv ==
  /\ TypeOK
  /\ CountsExact
  /\ \A t \in Threads : LocalOK(t)
  /\ Exclusive
  /\ \A b \in Blocks : Life(b)

(* Once the strong count of a block has dropped to 0 it stays there: no    *)
(* lock, however it interleaves with the last release, revives a callable. *)
NoResurrection ==
  [][\A b \in Blocks :
       storage[b] # "unborn" /\ m_strong_count[b] = 0 => m_strong_count'[b] = 0]_vars

(* lock( ) comes back empty only when the callable has expired for good,   *)
(* never because it lost a race with another copy or with another lock.    *)
LockFailsOnlyWhenExpired ==
  [][\A t \in Threads :
       op[t].pc \in {"load", "cas"}
         /\ op'[t].pc \notin {"load", "cas", "upgrade_weak_inc"}
       => m_strong_count[op[t].b] = 0]_vars

(* The counters and the steps between implement SharedOwnership, where     *)
(* there are only handles and the callable they share, and so each callable *)
(* nobody owns is reset in the end and each block nobody holds is deleted. *)
Ownership == INSTANCE SharedOwnership
               WITH calls <- [t \in Threads |->
                                IF op[t].pc = "call" THEN op[t].b ELSE NULL]
ImplementsOwnership == Ownership!Spec
================================================================================
