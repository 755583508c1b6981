---------------------------- MODULE SharedOwnership ----------------------------
(***************************************************************************)
(* What shared_function promises its users, without the two counters: a    *)
(* storage block holds a callable from the moment it is created until no   *)
(* strong handle owns it, the memory of the block outlives every handle,   *)
(* each is given up exactly once, and neither is kept for ever.            *)
(*                                                                         *)
(* Handles of both kinds are slots that hold a block or NULL.              *)
(***************************************************************************)
EXTENDS Naturals

CONSTANTS Threads,      \* the threads that run operations
          Strong, Weak, \* shared_function and weak_shared_function objects
          Blocks,       \* the storage blocks a run may allocate
          NULL

VARIABLES storage,   \* storage[b]: "unborn", "live", "reset" or "deleted"
          m_storage, \* m_storage[h]: the block handle h holds, or NULL
          calls      \* calls[t]: the block whose callable t is running, or NULL

vars == <<storage, m_storage, calls>>

Handles == Strong \cup Weak

HoldersIn(H, b) == {h \in H : m_storage[h] = b}

Init ==
  /\ storage = [b \in Blocks |-> "unborn"]
  /\ m_storage = [h \in Handles |-> NULL]
  /\ calls = [t \in Threads |-> NULL]

(* A callable is stored in a new block, owned by one strong handle.        *)
Create(h, b) ==
  /\ storage[b] = "unborn"
  /\ m_storage[h] = NULL
  /\ storage' = [storage EXCEPT ![b] = "live"]
  /\ m_storage' = [m_storage EXCEPT ![h] = b]
  /\ UNCHANGED calls

(* A handle comes to hold a block that another handle holds. A strong      *)
(* handle may do so only while the callable is there.                      *)
Share(h, b) ==
  /\ HoldersIn(Handles, b) # {}
  /\ h \in Strong => storage[b] = "live"
  /\ m_storage' = [m_storage EXCEPT ![h] = b]
  /\ UNCHANGED <<storage, calls>>

(* A handle takes over what another handle of the same kind holds.         *)
Transfer(h, from) ==
  /\ h # from
  /\ m_storage[from] # NULL
  /\ m_storage' = [m_storage EXCEPT ![h] = m_storage[from], ![from] = NULL]
  /\ UNCHANGED <<storage, calls>>

Drop(h) ==
  /\ m_storage' = [m_storage EXCEPT ![h] = NULL]
  /\ UNCHANGED <<storage, calls>>

(* The callable is destroyed once, when nobody owns or runs it.            *)
ResetCallable(b) ==
  /\ storage[b] = "live"
  /\ HoldersIn(Strong, b) = {}
  /\ \A t \in Threads : calls[t] # b
  /\ storage' = [storage EXCEPT ![b] = "reset"]
  /\ UNCHANGED <<m_storage, calls>>

(* The block is deleted once, after its callable, when no handle holds it. *)
DeleteBlock(b) ==
  /\ storage[b] = "reset"
  /\ HoldersIn(Handles, b) = {}
  /\ storage' = [storage EXCEPT ![b] = "deleted"]
  /\ UNCHANGED <<m_storage, calls>>

StartCall(t, h) ==
  /\ calls[t] = NULL
  /\ m_storage[h] # NULL
  /\ storage[m_storage[h]] = "live"
  /\ calls' = [calls EXCEPT ![t] = m_storage[h]]
  /\ UNCHANGED <<storage, m_storage>>

EndCall(t) ==
  /\ calls[t] # NULL
  /\ calls' = [calls EXCEPT ![t] = NULL]
  /\ UNCHANGED <<storage, m_storage>>

Next ==
  \/ \E b \in Blocks : ResetCallable(b) \/ DeleteBlock(b)
  \/ \E h \in Strong, b \in Blocks : Create(h, b)
  \/ \E h \in Handles, b \in Blocks : Share(h, b)
  \/ \E h \in Strong, from \in Strong : Transfer(h, from)
  \/ \E h \in Weak, from \in Weak : Transfer(h, from)
  \/ \E h \in Handles : Drop(h)
  \/ \E t \in Threads : EndCall(t)
  \/ \E t \in Threads, h \in Strong : StartCall(t, h)

Safe == Init /\ [][Next]_vars

(* Nothing is kept for ever: what may be given up for good is given up.    *)
Fair == \A b \in Blocks : WF_vars(ResetCallable(b)) /\ WF_vars(DeleteBlock(b))

Spec == Safe /\ Fair
================================================================================
