------------------------------- MODULE Structures -------------------------------
(***************************************************************************)
(* The sequential parts of the library that keep state, side by side: the  *)
(* handles of Owners, the files of MappedFile, the queues of RingAdaptor   *)
(* and BitQueue, the tables of HashTables and OrderedMap, the graph of     *)
(* BoundedGraph, the vector of BoundedVector, the objects of Holders, the  *)
(* pointers of CheckedPointers, the vectors of Vectors and the storage of  *)
(* SplitBuffer. They share no state. A program uses one of them, and the   *)
(* others stay as they begin.                                              *)
(***************************************************************************)
EXTENDS Owners, MappedFile, RingAdaptor, BitQueue, HashTables, BoundedVector, Holders, Vectors, TLC,
  CheckedPointers, OrderedMap, SplitBuffer, BoundedGraph

VARIABLE part

structureVars ==
  <<part, ownersVars, mappedVars, ringVars, bitVars, tableVars, boundedVars, holders, vs, opts, ptrs, orderedVars, sb,
    perfect, bg>>

Idle(p, unused) == part # p => unused

StructuresInit ==
  /\ part \in {"owners", "mapped file", "ring", "bits", "hash table", "bounded vector", "holders", "vectors",
              "optionals", "pointers", "ordered map", "split buffer", "perfect hash", "bounded graph"}
  /\ OwnersInit /\ Idle("owners", kind = "unique_ptr")
  /\ MappedInit /\ Idle("mapped file", platform = "posix")
  /\ RingInit /\ Idle("ring", ring.capacity = 1)
  /\ BitsInit /\ Idle("bits", bits.size = 0)
  /\ TableInit /\ Idle("hash table", table.kind = "hash_set" /\ \A k \in Keys : table.home[k] = 0)
  /\ \A j, k \in Keys : j < k => table.home[j] <= table.home[k] \* keys are alike: one order of them will do
  /\ BoundedInit /\ Idle("bounded vector", ~bounded.string /\ bounded.index = 0)
  /\ HoldersInit /\ Idle("holders", holders.kind = "expected")
  /\ VectorsInit /\ Idle("vectors", ~vs.copy /\ ~vs.move /\ ~vs.swap /\ ~vs.nothrow)
  /\ OptionalsInit /\ Idle("optionals", opts.kind = "value" /\ opts.objects[1] = 0 /\ opts.objects[2] = 0)
  /\ CheckedInit /\ Idle("pointers", ptrs.safe /\ \A h \in 1..2 : pointer(h) = Safe(NullPtr, NullPtr, 0))
  /\ OrderedInit
  /\ SplitInit /\ Idle("split buffer", ~sb.propagate /\ sb.at[2].alloc = sb.at[1].alloc)
  /\ sb.at[1].alloc = CHOOSE a \in SplitAllocators : TRUE \* allocators are alike: one to begin with will do
  /\ IF part = "perfect hash" THEN PerfectInit ELSE perfect = Unbuilt(1, [k \in {1} |-> 0], 0)
  /\ IF part = "bounded graph" THEN BoundedGraphInit ELSE bg = NoNodes([id \in NodeIds |-> 0])

OthersRest ==
  /\ Idle("owners", UNCHANGED ownersVars)
  /\ Idle("mapped file", UNCHANGED mappedVars)
  /\ Idle("ring", UNCHANGED ringVars)
  /\ Idle("bits", UNCHANGED bitVars)
  /\ Idle("hash table", UNCHANGED tableVars)
  /\ Idle("bounded vector", UNCHANGED boundedVars)
  /\ Idle("holders", UNCHANGED holders)
  /\ Idle("vectors", UNCHANGED vs)
  /\ Idle("optionals", UNCHANGED opts)
  /\ Idle("pointers", UNCHANGED ptrs)
  /\ Idle("ordered map", UNCHANGED orderedVars)
  /\ Idle("split buffer", UNCHANGED sb)
  /\ Idle("perfect hash", UNCHANGED perfect)
  /\ Idle("bounded graph", UNCHANGED bg)

StructuresNext ==
  /\ UNCHANGED part
  /\ OthersRest
  /\ \/ part = "owners" /\ OwnersNext
     \/ part = "mapped file" /\ MappedNext
     \/ part = "ring" /\ RingNext
     \/ part = "bits" /\ BitsNext
     \/ part = "hash table" /\ TableNext
     \/ part = "bounded vector" /\ BoundedNext
     \/ part = "holders" /\ HoldersNext
     \/ part = "vectors" /\ VectorsNext
     \/ part = "optionals" /\ OptionalsNext
     \/ part = "pointers" /\ CheckedNext
     \/ part = "ordered map" /\ OrderedNext
     \/ part = "split buffer" /\ SplitNext
     \/ part = "perfect hash" /\ PerfectNext
     \/ part = "bounded graph" /\ BoundedGraphNext

VectorSym == Permutations(VectorNames)
StructuresSpec == StructuresInit /\ [][StructuresNext]_structureVars

-------------------------------------------------------------------------------
(* Properties, besides those of the parts.                                 *)

(* Parts that are not used are as they began.                              *)
Of(p, property) == part = p => property

(* Both queues give back what was put in, in its order: see RingIsQueue    *)
(* and BitsInOrder.                                                        *)
QueuesInOrder == Of("ring", RingIsQueue) /\ Of("bits", BitsInOrder)

(* What owns an object, and what only points to one but checks where it    *)
(* points: see OwnersSound and PointersStay.                               *)
PointersSound == Of("owners", OwnersSound) /\ Of("pointers", PointersStay)

(* Every table has what was put in: see TableHolds, OrderedHolds,          *)
(* PerfectFinds and BoundedGraphHolds.                                     *)
TablesHold ==
  /\ Of("hash table", TableHolds) /\ Of("ordered map", OrderedHolds)
  /\ Of("perfect hash", PerfectFinds) /\ Of("bounded graph", BoundedGraphHolds)

(* What holds something or nothing: see ValueOrException and               *)
(* OptionalsOrdered.                                                       *)
HoldersSound == Of("holders", ValueOrException) /\ Of("optionals", OptionalsOrdered)

(* What vectors own, and what is in the storage they grow into: see        *)
(* VectorsOwn and SplitBuffersHold.                                        *)
StorageOwned == Of("vectors", VectorsOwn) /\ Of("split buffer", SplitBuffersHold)
================================================================================
