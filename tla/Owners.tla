--------------------------------- MODULE Owners ---------------------------------
(***************************************************************************)
(* The handles that own an object: unique_ptr, maybe_unique_ptr,           *)
(* unique_array_t and unique_resource, the counted rc_ptr for one object   *)
(* and for an array, and ScopeGuard, whose object is a call it owes.       *)
(*                                                                         *)
(* A program has some handles of one kind and does anything with them that *)
(* their interface allows. To delete an object is to run its deleter, or   *)
(* the function of a guard. Some calls leave an object in more hands, or   *)
(* in fewer, than its handles know; misused keeps the objects they were    *)
(* made with, so that the properties can say what is right for all others. *)
(***************************************************************************)
EXTENDS Integers, FiniteSets

CONSTANTS Handles, Objects,
          None \* nullptr, or an optional without a value

ASSUME OwnersAssumption == None \notin Objects /\ IsFiniteSet(Handles)

Rc == {"rc_ptr", "rc_array"}
Kinds == Rc \cup {"unique_ptr", "maybe_unique_ptr", "unique_array", "unique_resource", "ScopeGuard"}

VARIABLES kind, \* the kind of handle the program uses
          w     \* the handles and the objects

ownersVars == <<kind, w>>

(* A handle that is not alive owns nothing. *)
OwnersInit ==
  /\ kind \in Kinds
  /\ w = [alive   |-> {},
          ptr     |-> [h \in Handles |-> None],  \* the pointer, value or function
          owned   |-> [h \in Handles |-> TRUE],  \* m_owned
          count   |-> [o \in Objects |-> 0],     \* *m_ref_count
          deletes |-> [o \in Objects |-> 0],     \* how often o was deleted
          made    |-> {},                        \* the objects there are or were
          kept    |-> {},                        \* those the program keeps itself
          misused |-> {}]

-------------------------------------------------------------------------------
(* Parts of operations, as functions from one w to the next.               *)

Deleted(s, o) == IF o = None THEN s ELSE [s EXCEPT !.deletes[o] = @ + 1]
Point(s, h, o) == [s EXCEPT !.ptr[h] = o]
Blame(s, objects) == [s EXCEPT !.misused = @ \cup (objects \ {None})]
Keep(s, o) == [s EXCEPT !.kept = @ \cup ({o} \ {None})]

(* The pointer of g goes to h.                                             *)
Hand(s, h, g) == [s EXCEPT !.ptr = [@ EXCEPT ![h] = s.ptr[g], ![g] = None]]

(* A maybe_unique_ptr that is moved from is released first, which sets     *)
(* m_owned, and only then is its m_owned read: the other always owns.      *)
HandMaybe(s, h, g) ==
  LET own == [Hand(s, h, g) EXCEPT !.owned = [@ EXCEPT ![h] = TRUE, ![g] = TRUE]]
  IN IF s.owned[g] THEN own ELSE Blame(own, {s.ptr[g]})

(* Mutant of RcReset: the last one does not count itself out.              *)
RcResetEarly(s, h) ==
  LET o == s.ptr[h] IN
  IF o = None THEN s
  ELSE IF s.count[o] = 1 THEN Point(Deleted(s, o), h, None)
  ELSE [Point(s, h, None) EXCEPT !.count[o] = IF @ > 2 THEN @ - 1 ELSE @]

(* rc_ptr::reset: only the last one forgets the object.                    *)
RcReset(s, h) ==
  LET o == s.ptr[h]
      less == [s EXCEPT !.count[o] = @ - 1]
  IN IF o = None THEN s
     ELSE IF less.count[o] = 0 THEN Point(Deleted(less, o), h, None) ELSE less

(* reset( ) of maybe_unique_ptr, which may not own what it points to.      *)
Forget(s, h) ==
  IF s.owned[h] THEN Point(Deleted(s, s.ptr[h]), h, None)
  ELSE [Point(s, h, None) EXCEPT !.owned[h] = TRUE]

(* reset( ), clear( ), and what the destructors do. unique_resource keeps  *)
(* the value it has deleted, ScopeGuard the function it has run.           *)
Reset(s, h) ==
  CASE kind \in Rc -> RcReset(s, h)
    [] kind = "maybe_unique_ptr" -> Forget(s, h)
    [] kind \in {"unique_resource", "ScopeGuard"} -> Deleted(s, s.ptr[h])
    [] OTHER -> Point(Deleted(s, s.ptr[h]), h, None)

(* What is undefined is not followed: a count that was deleted is not used. *)
Alive(h) == h \in w.alive /\ (kind \in Rc /\ w.ptr[h] # None => w.deletes[w.ptr[h]] = 0)

Fresh(o) == o \in Objects /\ o \notin w.made

(* o is made and given to h, which already lets go of what it had.         *)
Give(s, h, o, owned) ==
  [(IF owned THEN s ELSE Keep(s, o)) EXCEPT
     !.made = @ \cup {o}, !.ptr[h] = o, !.owned[h] = owned, !.count[o] = IF kind \in Rc THEN 1 ELSE 0]

MayNotOwn == IF kind = "maybe_unique_ptr" THEN BOOLEAN ELSE {TRUE}

-------------------------------------------------------------------------------
(* Operations.                                                             *)

Construct(h) ==
  /\ h \notin w.alive /\ kind # "ScopeGuard"
  /\ w' = [w EXCEPT !.alive = @ \cup {h}]

ConstructWith(h, o, owned) ==
  /\ h \notin w.alive /\ Fresh(o) /\ owned \in MayNotOwn
  /\ w' = [Give(w, h, o, owned) EXCEPT !.alive = @ \cup {h}]

(* A guard that is moved from has a function still: the move of an         *)
(* std::optional leaves both with one.                                     *)
MoveConstruct(h, g) ==
  LET new == [w EXCEPT !.alive = @ \cup {h}] IN
  /\ h \notin w.alive /\ Alive(g)
  /\ w' = CASE kind = "maybe_unique_ptr" -> HandMaybe(new, h, g)
            [] kind = "ScopeGuard" -> Blame(Point(new, h, w.ptr[g]), {w.ptr[g]})
            [] OTHER -> Hand(new, h, g)

Shared(s, h, o) == IF o = None THEN Point(s, h, o) ELSE [Point(s, h, o) EXCEPT !.count[o] = @ + 1]

CopyConstruct(h, g) ==
  /\ h \notin w.alive /\ Alive(g) /\ kind \in Rc
  /\ w' = Shared([w EXCEPT !.alive = @ \cup {h}], h, w.ptr[g])

(* The rc_ptr for one object does not take the null pointer of an empty    *)
(* one, and so keeps what it has just counted itself out of, if others     *)
(* share it.                                                               *)
CopyAssign(h, g) ==
  LET s == Reset(w, h) IN
  /\ Alive(h) /\ Alive(g) /\ kind \in Rc
  /\ w' = IF h = g THEN w
          ELSE IF kind = "rc_ptr" /\ s.ptr[g] = None THEN Blame(s, {s.ptr[h]})
          ELSE Shared(s, h, s.ptr[g])

(* unique_resource::operator=, reset( rhs.release( ) ), to itself too.     *)
TakeOver(s, h, g) ==
  LET from == Point(s, g, None) IN Point(Deleted(from, from.ptr[h]), h, s.ptr[g])

MoveAssign(h, g) ==
  /\ Alive(h) /\ Alive(g)
  /\ w' = CASE kind = "unique_resource" -> TakeOver(w, h, g)
            [] kind = "ScopeGuard" /\ h # g -> Blame(Point(w, h, w.ptr[g]), {w.ptr[h], w.ptr[g]})
            [] kind = "maybe_unique_ptr" /\ h # g -> HandMaybe(Reset(w, h), h, g)
            [] kind \in Rc \cup {"unique_ptr", "unique_array"} /\ h # g -> Hand(Reset(w, h), h, g)
            [] OTHER -> w
  /\ kind = "unique_resource" => w.ptr[g] # None

(* From a maybe_unique_ptr to another type: m_ptr is assigned, which       *)
(* deletes what it points to, owned or not.                                *)
MoveAssignConverted(h, g) ==
  LET s == Hand(Deleted(w, w.ptr[h]), h, g) IN
  /\ Alive(h) /\ Alive(g) /\ h # g /\ kind = "maybe_unique_ptr"
  /\ w' = Blame([s EXCEPT !.owned = [@ EXCEPT ![h] = w.owned[g], ![g] = TRUE]],
                IF w.owned[h] THEN {} ELSE {w.ptr[h]})

(* reset( p ), and emplace of unique_resource. That of an owning           *)
(* maybe_unique_ptr hands p to m_ptr.reset twice, the second of which      *)
(* deletes it.                                                             *)
ResetTo(h, o, owned) ==
  /\ Alive(h) /\ Fresh(o) /\ owned \in MayNotOwn
  /\ kind \in {"unique_ptr", "maybe_unique_ptr", "unique_resource"}
  /\ w' = LET s == Give(Reset(w, h), h, o, owned) IN
          IF kind = "maybe_unique_ptr" /\ w.owned[h] THEN Blame(Deleted(s, o), {o}) ELSE s

(* reset( ), and run_now, whose function returns.                          *)
ResetNow(h) ==
  /\ Alive(h) /\ kind # "unique_array"
  /\ kind = "ScopeGuard" => w.ptr[h] # None
  /\ w' = IF kind = "ScopeGuard" THEN Point(Reset(w, h), h, None)
          ELSE Blame(Reset(w, h), {Reset(w, h).ptr[h]})

(* run_now, whose function throws: it is not cancelled.                    *)
RunThrows(h) ==
  /\ Alive(h) /\ kind = "ScopeGuard" /\ w.ptr[h] # None
  /\ w' = Blame(Reset(w, h), {w.ptr[h]})

(* release( ), and cancel( ). That of unique_resource needs a value.       *)
Release(h) ==
  /\ Alive(h) /\ kind \notin Rc \cup {"unique_array"}
  /\ kind = "unique_resource" => w.ptr[h] # None
  /\ w' = [Keep(Point(w, h, None), w.ptr[h]) EXCEPT !.owned[h] = TRUE]

Swap(h, g) ==
  /\ Alive(h) /\ Alive(g) /\ kind \in Rc \cup {"unique_ptr", "maybe_unique_ptr"}
  /\ w' = [w EXCEPT !.ptr = [@ EXCEPT ![h] = w.ptr[g], ![g] = w.ptr[h]],
                    !.owned = [@ EXCEPT ![h] = w.owned[g], ![g] = w.owned[h]]]

Destroy(h) ==
  /\ Alive(h)
  /\ w' = [Point(Reset(w, h), h, None) EXCEPT !.owned[h] = TRUE, !.alive = @ \ {h}]

(* An object that is deleted twice is undefined: no step follows.          *)
OwnersNext ==
  /\ UNCHANGED kind /\ \A o \in Objects : w.deletes[o] <= 1
  /\ \E h \in Handles :
       \/ Construct(h) \/ ResetNow(h) \/ RunThrows(h) \/ Release(h) \/ Destroy(h)
       \/ \E o \in Objects, owned \in BOOLEAN : ConstructWith(h, o, owned) \/ ResetTo(h, o, owned)
       \/ \E g \in Handles : \/ MoveConstruct(h, g) \/ CopyConstruct(h, g) \/ CopyAssign(h, g)
                             \/ MoveAssign(h, g) \/ MoveAssignConverted(h, g) \/ Swap(h, g)

OwnersSpec == OwnersInit /\ [][OwnersNext]_ownersVars

-------------------------------------------------------------------------------
(* Properties.                                                             *)

Sound == w.made \ w.misused
Holders(o) == {h \in w.alive : w.ptr[h] = o}

(* Whatever sequence of moves, copies, resets, swaps and destructions a    *)
(* program makes: an object is deleted at most once, never while a handle  *)
(* points to it, and never if the program keeps it; so long as no call     *)
(* named above as one that loses track was made with it.                   *)
DeletedOnce ==
  \A o \in Sound : /\ w.deletes[o] + (IF o \in w.kept THEN 1 ELSE 0) <= 1
                   /\ Holders(o) # {} => w.deletes[o] = 0

(* Nor is an object lost: until it is deleted, a handle that will delete   *)
(* it points to it, or the program keeps it.                               *)
NothingLost ==
  \A o \in Sound : w.deletes[o] = 1 \/ o \in w.kept \/ \E h \in Holders(o) : w.owned[h]

(* The count of an rc_ptr is the number of those that share the object;    *)
(* with the other kinds an object has one owner at most, and none if the   *)
(* program keeps it.                                                       *)
OwnersCounted ==
  \A o \in Sound :
    IF kind \in Rc THEN w.count[o] = Cardinality(Holders(o))
    ELSE Cardinality({h \in Holders(o) : w.owned[h]}) <= (IF o \in w.kept THEN 0 ELSE 1)

(* All three: every object has its owners to the last, and one deletion.   *)
OwnersSound == DeletedOnce /\ NothingLost /\ OwnersCounted
================================================================================
