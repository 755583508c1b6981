# Verification of daw header_libraries

TLA+ models, TLC model checking and TLAPS proofs for the C++ header library
under `include/daw/`. The library is some 350 headers; much of it is
compile-time type functions and adaptors around one call. This project is about
the rest: shared ownership between threads, waiting on atomics, a graph and the
algorithms that walk it, vectors that have to survive exceptions, the owners,
queues, tables and holders that keep state from call to call, and the functions
that keep none - sorting, searching, integers, views, iterators, pipelines and
parsers - and are easy to get wrong at a boundary.

Line numbers below are those of the headers in `include/daw/`.

## Inventory

| Component | State | Operations | Interacts with | What makes it correct |
|---|---|---|---|---|
| `shared_function`, `weak_shared_function` (`daw_shared_function.h`) | per heap block: `m_strong_count`, `m_weak_count`, the callable; per handle: `m_storage` | construct, copy, move, assign, destroy, `get_weak`, `lock`, call | handles in different threads meet in the two counters of a block | counts equal holders; callable and block outlive their users, are given up once, and are given up |
| timed waits (`daw_atomic_wait.h`) | locals of a call: `final_time`, `current`, `tries`; `start_time`, `count` of `poll_with_backoff` | `atomic_wait_for`, `_if_for`, `_value_equal_for`, and `_until` forms | reads an atomic that other threads write, and clocks | the result is true; not early; late by no more than one short sleep and what the scheduler takes; returns |
| untimed waits (`daw_atomic_wait.h`) | local `current` | `atomic_wait_if`, `atomic_wait_value_equal` | `std::atomic_wait_explicit`, writers that store and notify | no lost wake-up; returns on the predicate only |
| `graph_t` (`daw_graph.h`) | `cur_id`, `m_nodes` with incoming and outgoing sets | add and remove nodes, directed and undirected edges | the walks read it, `mst` changes it | both ends of an edge agree; no dangling edge; ids unique for ever |
| walks and `mst` (`daw_graph_algorithm.h`) | `path` / `root_nodes`, `visited`, `excluded_edges` | `topological_sorted_walk`, `bfs_walk`, `dfs_walk`, `mst` | call user code for each node; `mst` removes edges while it walks | order, completeness, termination; a tree per root, no node cut off |
| `vector` and `split_buffer` (`vector.h`, `split_buffer.h`) | `m_begin`, `m_end`, `m_endcap_`, raw memory, the allocator | insert, remove, assign, reserve in many forms; copy, move, swap, overwrite | element constructors, assignments and the allocator, which may throw | element lifetimes; contents; exception guarantees; memory goes back to the allocator it is from |
| owners: `rc_ptr`, `unique_ptr`, `maybe_unique_ptr`, `unique_array_t`, `unique_resource`, `ScopeGuard` | a pointer or value, whether it is owned, a count | construct, copy, move, assign, reset, release, destroy | other handles of the same object | each object deleted once, when its last owner lets go |
| `memory_mapped_file_t` (`daw_memory_mapped_file.h`) | handle and mapping | open, close, move, destroy | the operating system, each call of which may fail | everything opened is closed, once |
| queues: `ring_adaptor`, `basic_bit_queue` | two counters; a number and a size | push, pop at both ends | | first in, first out, at every limit |
| tables: `hash_set_t`, `static_hash_t`, `bounded_hash_map`, `bounded_hash_set_t`, `ordered_map` | cells, keys in probe order or sorted | insert, find, erase, iterate | | what was inserted is found, once |
| `perfect_hash_table` (`daw_min_perfect_hash.h`) | salts of the buckets, the slots | built once, then `find`, `[]` | the hash of the caller | every key of its items is found, no other |
| `bounded_graph_t` (`deprecated/daw_bounded_graph.h`) | nodes and their edges in bounded tables | add, remove, find | keeps everything in `bounded_hash_set_t` and `bounded_hash_map` | as `graph_t`, within a capacity |
| bounded containers: `bounded_vector_t`, `bounded_string` | an array and a size | insert, erase, resize, swap | | contents within the capacity |
| holders: `expected_t`, `checked_expected_t`, `union_pair_t`, `value_ptr`, `stack_function`, `optional` | a value, an exception or nothing | assign, copy, move, emplace, clear, compare | constructors that may throw | holds the value last given or the exception, never both; comparisons agree |
| checked pointers: `safe_pointer`, `not_null` | a pointer, its range, whether the object is gone | move, jump, compare, dereference | the object they point at, which may be destroyed | never outside the range, never at what is gone |
| `basic_string_view` (`daw_string_view.h`) | first, last and one bit: a terminator follows | pops, removals, substrings, searches | | the parts are the text; the bit is true; searches find the first |
| UInt types (`daw_uint_types.h`), rotations, masks | none | arithmetic between any widths | | results modulo the width |
| sorting (`daw_sort_n.h`), algorithms (`daw_algorithm.h`) | locals | `sort`, networks, counting sort; searches, splits, rearrangements | comparisons of the caller | sorted in place and within the range; each finds or arranges what it is named for |
| loops of `daw_algorithm.h` and of whole containers | locals; the range they write to | copies, transforms, removals, sums | user functions, and the range itself when it is also the output | the loop gives what it would if it read first and wrote afterwards |
| `static_bitset` (`daw_static_bitset.h`) | an array of words | single bits, operators, shifts | | the same as one number of that many bits |
| old string types (`deprecated/daw_string_view1.h`, `daw_bounded_string.h`) | a range, or an array and a size | searches, pops, removals, comparisons | | agree with each other and with a plain sequence |
| views: `view`, `span`, `contiguous_view`, `span_writer` | first, last, size | remove, pop, split, subspan, write | | a part of the part before, never outside it |
| pipelines (`pipelines/`) | the iterators of a view over a view | `Filter`, `Take`, `Zip`, `Chunk`, `Split` and more; folds | the view below, the functions of the caller | the lazy view gives the elements that the definition over sequences gives |
| iterators (`iterator/`) | a place, a base and a few numbers | steps, jumps, differences, comparisons | the iterator below | where it looks, and how far apart two are, depends on the moves only |
| parsers (`daw_parser_helper_sv.h`, `daw_parse_to.h`, `daw_parser_addons.h` and others) | a place in a text | splits, trims, numbers, quoted texts, arguments | | what is taken and what is left are the text; the number is the one written |
| the rest: compile-time atomics, callables, traits, hashes, other deprecated headers | none that lasts, or one access | | | not modelled; see below |

Threads meet only in `daw_shared_function.h`, `daw_atomic_wait.h`,
`daw_cx_atomic.h` (a wrapper of `std::atomic`), `daw_allow_once.h` and
`daw_countable_resource.h`. Nothing is persistent and there are no messages, so
crashes, restarts and delivery do not arise. What is hard here: the order of
accesses by several threads; values that are stale when they are used; clocks
read between other steps; exceptions, and failing system calls, in the middle of
an operation; structures that are changed while they are walked; long sequences
of legal calls that leave an owner, a table or a flag in a state none of them
expects; boundaries of sizes and widths.

## Modules

| Module | About | Kind |
|---|---|---|
| `SharedOwnership` | what sharing a callable means, without counters | abstract specification |
| `SharedFunction`, `MCSharedFunction`, `SharedFunctionProofs` | both handle types, one action per access to a counter | detailed specification that implements `SharedOwnership`; its symmetry for TLC; proofs |
| `AtomicWaitFor`, `AtomicWaitForProofs` | the timed waits | specification, proofs |
| `AtomicWaitIf`, `MCAtomicWaitIf`, `AtomicWaitIfProofs` | the untimed waits | specification, instance, proofs |
| `DirectedGraph` | a directed graph: nodes and pairs | abstract specification |
| `Graph` | `graph_t`; implements `DirectedGraph` | specification |
| `GraphWalks`, `SpanningTree` | the three walks; `mst`, whose removals are the `RemoveDirectedEdge` of `Graph` | specifications |
| `GraphAlgorithms` | a program that changes a graph and runs walks and `mst` on it | composition |
| `GraphAlgorithmsProofs` | `Graph`, `GraphWalks`, `SpanningTree` and `GraphAlgorithms` | proofs |
| `Vector`, `VectorProofs` | the elements of one vector, with exceptions | specification, proofs |
| `Vectors` | several vectors, their memory and their allocators | specification |
| `SplitBuffer` | two split buffers, their elements, memory and allocators | specification |
| `Owners`, `CheckedPointers`, `MappedFile`, `RingAdaptor`, `BitQueue`, `HashTables`, `OrderedMap`, `BoundedVector`, `Holders` | the sequential parts that keep state, one module each | specifications |
| `PartsProofs` | `Owners`, `CheckedPointers`, `RingAdaptor`, `MappedFile` on POSIX systems, `BitQueue`, `HashTables`, `OrderedMap` and `BoundedGraph` | proofs |
| `BoundedGraph` | `bounded_graph_t`, whose nodes and edges are in the tables of `HashTables` | specification |
| `Structures` | a program that uses any one of these, `SplitBuffer` and `Vectors` | composition |
| `StructuresProofs` | `BoundedVector`, `Holders`, `Vectors` and `SplitBuffer`; `Structures` with these and the parts of `PartsProofs` | proofs |
| `Sorting`, `Algorithms`, `Loops`, `StringView`, `OldStrings`, `Parsers`, `UIntTypes`, `StaticBitset`, `Views`, `Pipelines`, `Iterators` | functions that keep nothing between calls, or only a place in a text or a range | specifications, against reference definitions |
| `PureFunctions` | a program that uses any one of these | composition |
| `ViewsProofs` | `Views` | proofs |

`Graph`, `GraphWalks` and `SpanningTree` share the graph, and `GraphAlgorithms`
is where they meet. The parts of `Structures` and those of `PureFunctions` share
no state in the code either; the composition only runs them side by side, with
`part` and `used` for the one the program uses.

Variables and actions carry the names of the code. Definitions headed *Mutant
of ...* are plausible slips of the programmer; no specification uses them, and
they serve to show that a property notices when the code is changed that way.
Which lines a definition stands for is recorded in `PROJECT.json` under `map`. A
helper whose lines are those of the operation it belongs to has no entry of its
own there.

Most small modules check a behaviour of the code that is right *except* after a
call that the code gets wrong in a known way. Such a call is modelled as the
code has it, unless it cannot be compiled. It sets a mark (`misused`, `followed`, `both`, ...) that the
property names, so that each property says for which programs it holds. These
named deviations are listed with each module.

### SharedFunction

`m_strong_count`, `m_weak_count` and `storage` are functions of a block,
`m_storage` of a handle; `op[t]` is the operation thread `t` is in, with its
locals. `strong_copy` is `StrongInc` then `CopyWeakInc`; `weak_upgrade` is
`Load`, then `CasSucceeds` or `CasFails` any number of times, then
`UpgradeWeakInc`; `strong_release` is `StrongDec`, perhaps `ResetStorage`, then
`WeakDec` and perhaps `Delete`. Between any two of these any other thread may
run. A handle is an ordinary object: `MayRead` and `MayWrite` keep a program
free of data races on handles, as C++ demands of it, so the steps that only
touch a handle are merged with their neighbours. Copying an empty handle has no
effect but on the target, and is `Clear`. The atomics are taken as
sequentially consistent: the relaxed increment of the weak count at line 56 and
the relaxed load at line 49 are not told apart from stronger ones. A callable
that is trivially destructible has no `std::optional` around it, and
`reset_storage` does nothing; `"reset"` then stands for "given up".

### AtomicWaitFor

One waiting thread is enough, since it only reads. `w` holds its place and its
locals; each load of the atomic and each reading of the clock is an action.
`Write` and `Tick` are the rest of the world, at any time. The condition is a
set of values, `Satisfying`: for `atomic_wait_for` all but `old`, for
`atomic_wait_if_for` those of the predicate. The limits 16 (yields) and 64
(polls), and the thresholds of the back-off, are constants. `past` records the
values held since the call, the time the caller asked for, whether a value waited
for was loaded in time, the polls made after `final_time`, and when the last sleep
began; only properties read it. The clock is read in one step (`NotElapsed`, 55-57)
and the sleep chosen by that reading begins in a later one (`GoToSleep`, 28 and
30), any time afterwards. `sleep_for` sleeps at least as long as asked, and no upper
limit is assumed. So no bound on the time of a return can hold: what
`OversleepBounded` bounds is the code's own share, one poll after the time and a
sleep that, with the elapsed time it was chosen by, stays below one and a half
durations. Both clocks
are one: `final_time` uses the high-resolution clock, the `_until` forms a
clock of the caller's, and the model takes them to advance alike.

### AtomicWaitIf

`std::atomic_wait_explicit` is `Block`, `Changed` and `SpuriousWake`, after the
C++ standard. A notification reaches every blocked thread. For memory order the
model keeps, for each waiter, whether it has synchronized with the latest store
(`fresh`) and with the store its `current` comes from (`published`); an acquire
load sets both, the relaxed reload copies the former.

### Graph, GraphWalks, SpanningTree, GraphAlgorithms

`m_nodes` is its set of keys, `nodes`, and two functions from ids to sets.
Preconditions the code checks in debug builds are guards. `remove_node` is one
action that follows the order of its two loops, since with a loop at the node
the first changes the set the second goes through. In `GraphAlgorithms` a
program adds and removes nodes and edges (`Change`), starts an algorithm on the
graph those left, and goes on when it is over; `mst` changes the graph under the
same actions. One round of an algorithm's loop is one action. The order of an
`unordered_set` is not specified and a `ChildOrder` may be anything, so children
are stored in any order; the topological walk takes any node that is ready.

### Vector

A vector is a block of cells, each `Raw` or holding a value, and an offset
`end`. An operation is a list of steps on elements (`Construct`, `Assign`,
`Destroy`, `Temporary`, `Rotate`), in the order the code performs them;
`Attempt` either runs all of it or stops before a step that may throw. Using a
cell that holds nothing, or constructing over one that does, sets `fault`.
Growing (`Regrow`) builds the new block in a `split_buffer` and swaps at the
end. The argument of `push_back`, `insert` and `append` may be an element of
the vector itself. An element that was moved from is `Unspecified`. Elements
whose moves may throw are copyable, since a move-only type with throwing moves
has no guarantees in the code either. `pop_back_value` takes `on_exit_success`
to run when nothing throws (the code asks whether any exception is in flight).
`assign` of an input range is a `clear` and an `emplace_back` of each element
(341-348), which may throw after any number of them.

### Vectors

Names of vectors, two allocators that compare unequal, the three propagation
traits and whether moving an element is `noexcept`, blocks of memory that
remember the allocator they are from, and what each vector should hold
(`want`). The parts of an operation are functions on states (`Assigned`,
`MovedInto`, ...). *Deviations:* a constructor that fills the vector and throws
leaves its block (149, counted in `lost`); `resize_and_overwrite` with a greater
result destroys elements nobody built (845, `followed`).

### Owners

One variable `w` for handles and objects of one kind: pointers, `m_owned`,
counts, how often each object was deleted. *Deviations* (`misused`):
`rc_ptr::reset` and copy assignment from an empty one keep pointers they no
longer count (134-145, 87-99); a `maybe_unique_ptr` moved from becomes an owner
(74-76), resets its new pointer twice (168-176), and its converting assignment
deletes what it does not own (108-118); `unique_resource::reset` keeps the value
it deleted (52-56); a moved-from `ScopeGuard` stays engaged (43-44), and one
whose function throws in `run_now` runs it twice (61-66).

### MappedFile

`fdata_t` of each object and what the system has open. `Free` numbers are used
again, so a double close may hit another's file (`strays`). Each call of `open`
may fail. On POSIX everything is closed once (`RaiiOnPosix`); Windows is
finding 4. `operator bool` on Windows is inverted (345-348) and nothing here
depends on it.

### RingAdaptor, BitQueue

The ring keeps `m_head` and `m_tail` as counters modulo `SizeMax + 1`, beside
the `fifo` it should be. `emplace_back` and `put_back` write at the size
instead of the tail (99) and end the comparison (`followed`), as does a
capacity that does not divide 2^64 when a counter wraps, which
`RingAssumption` excludes. The bit queue is a number and a size, with shifts
and masks of that width, beside the list of bits. Popping from the back casts
before it shifts (112): `told.wanted` is compared only where the bits fit. The
powers of 2 and the number of a list of bits are recursive functions, so that
something can be proved about them.

### HashTables, OrderedMap, BoundedGraph

Tables are cells and a home for every key, so every collision pattern occurs.
*Deviations:* erasing breaks a probe sequence in the bounded tables (366);
inserting into a full table is undefined and not done. `find` of an absent key
gives an empty cell, and `end()` only if the table is full; an iterator that may
change a `bounded_hash_set_t` steps over its end (170). `find` on a constant set
and `size` of it cannot be compiled.

An `ordered_map` is a sorted list with keys that may be equivalent. Its
constructors from ranges and lists and its reverse iterators cannot be compiled;
its iterators give pairs whose keys may be changed, which the model never does.

`HashTables` also has `perfect_hash_table`, which is built bucket by bucket, with
any hash. *Deviation:* an
item alone in its bucket claims a slot and is then placed a second time, for
want of a `return` (269-282). The slots run out, and the constructor aborts or
looks for a salt for ever, when the items and those alone are more than the
slots. A key that was not given is found if it is `Key{ }` and falls on an
unclaimed slot; `[]` of an absent key gives another's value; two keys with equal
hashes never come apart.

`BoundedGraph` keeps nodes and edges in those tables and is followed until
erasing has made one of them lose something (`skewed`), or `remove_node` has run
past the end of a set of edges, which it does for a node with edges unless the
memory behind the set looks like a used cell (463).

### BoundedVector, Holders, CheckedPointers

`BoundedVector` covers the vector and the string built like it; `pop_front` has
its check inverted (273), `has_room` too (80), `swap` loses the tail of the
longer (344), and `bounded_string::erase` leaves no terminator (714). In
`Holders` a `checked_expected_t<void>` that is copy-assigned keeps its old
exception (248, mark `both`), and the pair and `stack_function` hold types whose
bytes may be copied.

`Holders` also has `optional`, and asks whether its comparisons, with values and with `nullopt` on
either side, follow one order. *Deviations:* `value >= opt` computes
`*opt > value`, and `nullopt >= opt` is `has_value()`. `->` of an optional of
values cannot be compiled; an `optional<T const &>` takes a temporary, and an
`optional<T &>` refers to another object only by assignment of an optional.
The comparisons of `value_ptr` are here too; its copy assignment cannot be
compiled, and assigning an rvalue to an empty one dereferences it.

A `safe_pointer` of `CheckedPointers` is an address, its range and a mark that
its object is gone. *Deviations:* `*` and `[]` give the first object of the range
wherever the pointer is (169), and may be used at its end; conversion forgets
that the object is gone (157); `+=` does not ask; a difference needs its right
side strictly inside. `nullptr ==` and the difference of pointers of different
constness cannot be compiled. `++` of `not_null` is unchecked.

### SplitBuffer

Two buffers with a front and a back gap, slots that are raw, hollow (moved from)
or hold a value, and blocks that remember their allocator. *Deviations:* sliding
the elements assigns to raw slots and leaves those it moved from undestroyed; an
element of the buffer pushed by reference dangles when the buffer grows;
`shrink_to_fit` swallows an exception and leaves elements it has moved from; the
move constructor with another allocator leaks its block if a move throws; move
assignment takes the block over though the allocator does not propagate and is
unequal. `reserve`, `emplace_back` and `push_back` of an rvalue cannot be
compiled. That raw and hollow slots are told apart from values is
`SplitBufferAssumption`.

### Sorting, Algorithms, Loops

`Sorting` has `sort` with its partition, its five-element and insertion cases,
`sort_to`, the networks and `counting_sort`, as recursive operators over
functions. Reading or writing outside the range, which the scans of the
partition avoid only by a sentinel, is recorded. *Deviation:* a descending
`counting_sort` writes every value to one place (747-784).

`Algorithms` asks one question at a time of every small range; predicates are
sets of values, comparisons a pre-order with `ClassSize` equivalent values.
*Deviations:* `split` drops the last piece (576); `begin_at` beyond
`PTRDIFF_MAX` is `begin`, but for `PTRDIFF_MAX + 1`, which as a `ptrdiff_t` is the
least one and overflows when `safe_advance` negates it (117; modelled as wrapping,
and `CallsAgree` says nothing of it); `binary_search` refuses an empty range with an
exception (348); `clamp` clips from above only; `are_equal` compares
only pairs; `not_equal` means different everywhere.

`Loops` runs what writes while it reads, over one memory that holds the input
and the output, which may overlap; the result is compared with reading all
before writing any. *Deviations:* `cartesian_product`, its `_map` and
`transform_many` walk their ranges in step and give no product; `consume_if`
shows its function elements that are kept, after the first that is not;
`extract_to` and `extract_all` lose elements whose key is there already;
`find_index_of` gives the size if there is nothing; `for_each_with_pos` clips
its start and not its count; predicates made of lvalues (737) keep references to
them and `in_range` tests its bounds after it has moved from them; `remove` of a
value that lies in the range compares with what has overwritten it; `iota_op`
with a step that is not positive constructs nothing and says it did. `gather`,
`transform_n` with an index, `satisfies_one` and `satisfies_all` with some
predicates, and several calls on whole containers cannot be compiled as they
stand; where only the declaration is at fault, what they compute is modelled.

### StringView, OldStrings, Parsers

A view is a range of a text with one mark, zero terminated; programs take it
apart with sequences of calls, of any length. *Deviations:* `substr` and the
unsafe pops keep the mark (1843); `try_pop_front_until(pred)` (1577-1585),
`find_last_not_of` at the size, `search`, which misses a match at the end, and
`search_last`, which gives the first, are excepted by name. The comments in the
source are contradicted by: `rfind` from a position, which looks back from it and
not onwards (2120, 2145, 2156): "aa".rfind("a", 0) is 0, and by the comments 1, so
that `SearchesMirror` compares it from the end only (`SearchesAgree` says that the
old type does the same); `try_pop_front_until` with a predicate, which drops a
character when it should do nothing (1568, 1583); the same with `nodiscard` for a
string (1497), which returns an empty view and no copy if it finds nothing; and `try_pop_back_until`
for a character (1625, 1641), whose result begins with the character and not
behind it. `PopsPartTheView` claims neither of the last two.

`OldStrings` compares the searches and comparisons of the older types with a
definition over sequences. *Deviations:* a search for a text longer than the
capacity of a `bounded_string` finds its beginning; views of literals made by
`make_string_view`, `split` and `==` with the literal on the left count its
terminator. `bounded_string::swap` calls itself with two arguments, and some
constructors of `string_view1` and its `resize` cannot be compiled.

`Parsers` gives each parser every short text, and states what is taken, what is
left and what number comes out. *Deviations:* `value_in` is inverted, and with it
`until_values`, `in_t` and `one_of`, as are `assert_equal`, `assert_not_equal`
and `assert_empty`; `split_on` and `split_if` never end once a divider is found;
`trim_right` and `trim` cut behind the first word and, with `trim_left`, leave a
text of blanks alone; `from_to` is empty if its start also ends it;
`find_first_of_any` begins at the second character and may not end;
`find_number` gives a sign and one digit, or one digit, and steps past the end;
`parse_int` takes up to `digits` characters and wraps, and reads `-` as 0;
`parse_unsigned_int` does not ask for digits; `parse_string_literal` takes a text
that ends in an escaped quote; `parse_to_value` of a `string_view` refuses empty
quotes and reads on if the closing one is missing; `values_from_stream` of a
stream with `str( )` reads all of its text whatever was read before;
`from_string` takes the number a text begins with.

### UIntTypes, StaticBitset

Integers have real widths, scaled: 2, 4, 6 and 8 bits for 8, 16, 32 and 64.
*Deviations:* `set_bit` masks with 32 bits (2883), and a divisor that is
truncated to a smaller width may become 0 (2597).

A bitset is its words, with the operations loop by loop, compared with one
number. *Deviations:* `set_bit`, `clear_bit` and `get_bit` use twice the index as
a mask; a number given to a bitset of exactly one word is lost, and one of a
width that ends inside a word keeps the wrong end; shifts lose the carried bits
beyond half a word. `<<=` by 0, or by several words and nothing else, shifts a word by its whole width (472).
Every shift by a word or more takes a word from outside the array, `m_data[-1]` (483) or
`m_data[size]` (517), and overwrites it with 0 afterwards; the model notes that in
`outside`, and `BitsetsCompute` says nothing of such shifts nor of a bitset that
has done one. Counts and operations of different
widths cannot be compiled; `to_string` runs below its words and is not modelled.

### Views, Pipelines, Iterators

A view of `Views` is first, last and size, with `span`'s size modulo
`SizeRange`, which is more than any array has elements; `span::pop_front` wraps,
`contiguous_view::subspan` counts from the wrong end, `view::remove_prefix` does not clip, `[]` of a `contiguous_view` that
may change lets the size pass as an index, and `crend( )` of a span of constants
is the reverse of its end.

`Pipelines` walks each lazy view step by step through its iterators, over every
small range, and each fold through its loop. *Deviations:* `TakeWhile` is
inverted; `Chunk` of 0 never goes on; its last piece, and `Slide` over fewer than
its size, reach past the end; `Map` over a range ignores its projection; `Split`
goes on by one character whatever the length of the delimiter and loses an empty
last piece; `Concat` and `Flatten` do not get past an empty range inside, and
`Concat` keeps iterators of ranges it was given by value; the distance of `Zip`
asks its first range only; `SumKahan` projects the wrong way; `EnumerateApply`
gives a function; `FilterValue` has an overload that gives an optional of what
the predicate returns. `Take` of an input range, `unique_view` of an lvalue, `[]`
of `iota` and the constant `+` and `-` of `Map` and `Elements` cannot be compiled.

`Iterators` moves each adaptor in any order by steps and jumps. *Deviations:* a
circular iterator moved backwards onto a multiple of the size is at its end
(60); `-` of a chunk iterator goes forwards and its difference counts elements;
the indexed iterator's `+`, `-` and `advance` refuse the end and its `++` goes one
too far; a comparison of `iota` never says greater, its `<=` is `<`, and `+=` and
`-=` ignore the step; a checked proxy whose checks are asked for makes that of
the dereference only, and its postfix steps move a copy; `+=` of `repeat_n_char`
goes against `++`; the constructor of `find_one` forgets what it found; the
postfix `++` of `pointer_iterator` returns a reference to a local;
`arg_iterator` compares the count of arguments, and its `at( )` refuses 0; the
type-erased `InputIterator` deletes its old copy with the function of the new
type; a zip of ranges of different lengths never equals the pair of its ends.

## Runs

| Run | Bounds | Properties |
|---|---|---|
| `shared_function_safety` | 3 threads, 3 strong and 2 weak handles, 2 blocks; symmetric in all | `CountsExact`, `NoUseAfterDelete`, `SingleReaper`, `NoLeak`, `NoResurrection`, `LockFailsOnlyWhenExpired` |
| `shared_function_ownership` | 2 threads, 3 strong and 2 weak handles, 1 block | `ImplementsOwnership`, liveness included |
| `atomic_wait_for` | 2 values, durations 0, 2, 4, deadlines 0 and 3, calls at 0 or 1, sleeps begun by 9, clock to 11; 2 yields, 1 poll | `ResultIsTrue`, `NeverEarly`, `OversleepBounded`, `Returns` |
| `atomic_wait_for_sighting` | the same | finds `FoundOnceSeen` violated (finding 1) |
| `atomic_wait_if` | 2 waiters with different predicates, 2 writers, 3 values | `WaitsForPredicate`, `NoLostWakeup`, `StandingValueIsSeen` |
| `atomic_wait_if_publication` | the same | finds `PublishedBeforeReturn` violated (finding 2) |
| `graph_algorithms` | 4 nodes, 6 edges at most, any sequence of changes and algorithms | `EdgesMirror`, `TopologicalWalk`, `WalkVisits`, `SpanningTrees`, `NothingCutOff`, `ImplementsGraph`, `Ends` |
| `vector` | 3 values, `max_size()` 5, up to 3 elements inserted at once | `LifetimesOK`, `DoesAsTold`, `ThrowsSafely` |
| `vector_append` | the same | finds `AppendIsStrong` violated (finding 3) |
| `structures` | 3 handles, 3 objects; addresses below 8 with an array of 3; 2 mapped files; ring capacities 1, 2, 4 with counters that wrap after 7; queue of 5 bits, values of 2; 4 keys in 3 cells; perfect hashes of 1, 3, 6 items; graphs of 2 vertices and 3 ids; ordered keys 0 to 2, 2 of a class; room for 3 elements; optionals of 0 to 2; 2 vectors, 2 allocators, 2 blocks, `max_size()` 2; split buffers of 4 slots together | `PointersSound`, `RaiiOnPosix`, `QueuesInOrder`, `TablesHold`, `BoundedHolds`, `HoldersSound`, `StorageOwned` |
| `mapped_file_raii` | 2 objects, 2 files at a time | finds `RaiiMappedFile` violated (finding 4) |
| `pure_functions` | 3 values, up to 8 elements to sort; texts of up to 3 letters of 2, to parse up to 5; widths 2, 4, 6, 8; words of 3 bits; ranges of up to 4 and needles of up to 2; arrays of up to 3; pipes of up to 4 elements of 2 values; iterators over up to 3 elements, jumps of up to 3 | `SortsInPlace`, `TextParts`, `StringsAgree`, `NumbersCompute`, `RangesDoAsNamed`, `ViewsSound`, `PipelinesSound`, `IteratorsSound`, `ParsesRight` |

What they show. `shared_function_*`: in every interleaving of the accesses to
the counters, both counts are exact, nothing is used after it is gone or given up
twice, `lock` is right about what has expired, and what nobody owns is destroyed
in the end. `atomic_*`: results are justified, waits are not early, poll at most
once after their time and choose no sleep beyond one and a half durations from the
reading it rests on, and none is lost. `graph_algorithms`: a graph stays a directed graph whatever
is called, and each algorithm gives the order, completeness or tree it promises
and ends. `vector`: element lifetimes, contents, and what is left after an
exception at any point. `structures`: no sequence of calls deletes an object
twice or never, moves a checked pointer outside its range, leaves a file open,
reorders a queue, loses a key, exceeds a capacity, holds a value beside an
exception, or gives memory to the wrong allocator, but for the deviations named
above. `pure_functions`: each function
agrees with a definition that does not follow its code, for every small input.

Why these bounds are enough:

- **Shared function.** The races are between a release and a copy or lock that
  has begun (two threads), and a third whose step makes the compare-exchange
  fail. Three strong handles allow a copy while another is released, two weak
  ones a lock while the other is dropped, and two blocks an assignment that
  releases one while it takes the other. A block is never reused, so more of
  them add nothing. The proofs drop the bounds. The refinement with liveness
  is checked on the smaller instance, without symmetry, which would be
  unsound for liveness.
- **Timed waits.** Durations that are negative, zero, over within one back-off
  step and over after the longest; every branch of the back-off is taken. A
  retry limit of 1 or 2 has the same branches as 64 or 16. The duration that is
  negative comes from a deadline 0 and a call at 1. The clock stops at 11, after
  every sleep of the instance is over: a wait reads the clock for the last time
  before a sleep at 8 at the latest, may begin the sleep one tick later
  (`LastSleep`), and sleeps for one or none.
- **Untimed waits.** `early` is satisfied by two values and `late` by one of
  them, so a store may satisfy one waiter, both or none; with two writers a
  second store falls anywhere into the other's store and notification.
- **Graphs.** Four nodes allow a node with several parents and children, cycles
  on and off the way, trees of two roots that share nodes, and a node with a loop
  among others. The algorithms start when all four nodes are there.
- **Vector.** Sizes 0 to 5 with up to 3 new elements put each insertion on both
  sides of every boundary: behind or before the end, more or fewer than the
  elements behind the position, more or fewer than the room. `max_size()` 5
  lies beyond the doublings 1, 2, 4, so `recommend` takes all branches.
  The view `Object` leaves out `last`, which only describes the step just taken
  and influences none.
- **Structures.** Three handles of three objects are an assignment between two
  while a third shares. Rings of one, two and four cells are full, empty and
  between at each place, and the counters wrap. Four keys in three cells fill
  a table and collide in every way; as keys are alike, their homes are taken in
  order. Six items are the fewest whose single buckets can use up the slots of
  a perfect hash. Two vertices with edges both ways and a third id that is not
  there meet each loop of the bounded graph; it is followed until its tables
  have lost something. The array of the checked pointer begins at 2, so a jump
  of 3 leaves it on either side. Two keys of each class show which of them an
  ordered map keeps. Four slots for both split buffers, every value a new one,
  hold growth at either end, sliding either way and running out. Two vectors
  with two allocators have every combination of traits. Ordered maps and split
  buffers are followed for four calls.
- **Pure functions.** Eight elements pass the thresholds 5 and 7 that stand for
  those of `sort` (recursion, five-way median), with duplicates. The widths
  keep their ratios, and each operator meets every pair of values. Texts of
  three letters put a match before, between and after others. Bitsets of 2, 3, 5
  and 6 bits over words of 3 are less than a word, one, part of two, and two.
  A circular iterator may go round twice. Texts to parse have five characters
  where two delimiters and what is around them matter, and numbers are those of
  8 bits, so that four characters already pass the largest.

`CHECK_DEADLOCK FALSE` stands in the configurations of systems that may stop:
handles all used up and empty, a walk that is over and a graph that is full, a
view that is empty, a question that is answered. (The waits never stop, and
their configurations check deadlock.)

### Fairness

- `SharedFunction`: weak fairness of `Continue(t)` for each thread: a thread
  inside a library function is scheduled. Nothing is assumed of callers, nor
  that a callable returns. `lock` could lose its compare-exchange again and
  again; the liveness shown, that of reset and delete, does not need it to win.
- `AtomicWaitFor`: weak fairness of the waiting thread and of the clock, which
  is what a scheduler and a clock are. The writers may do anything or nothing.
- `AtomicWaitIf`: weak fairness of a waiter that is not blocked, and of the
  notification that follows a store: a writer that has stored goes on to
  notify, which is what the documentation of `std::atomic_wait` asks of it.
- `GraphAlgorithms`: weak fairness of the algorithm that runs, one sequential
  program; none of the changes in between.

Everything else is safety of sequential code and assumes no fairness.

## Findings

1. `daw_atomic_wait.h:225`: a value seen in time may end in a timeout. The
   yielding phase stops on a satisfying value, be it the one loaded first, and the
   polling phase then loads again instead of using it. In the run the first load
   sees the value, another is stored before the second, and the time is over.
   The documentation (205-206) promises `found` "if the predicate evaluates to true before the timeout".
2. `daw_atomic_wait.h:179`: `atomic_wait_if` returns on the value of a relaxed
   load whatever `order` it was given (167-168, "Defaults to
   `std::memory_order_acquire`"). With two stores in a row the caller need not
   have synchronized with the one it returns on.
3. `vector.h:1029`: `append` documents the strong exception guarantee (1024),
   but within the capacity it keeps the elements built before the exception.
4. `daw_memory_mapped_file.h:260`: "a RAII Memory Mapped File object" (194), but
   on Windows a file that is empty or cannot be mapped leaves its handle open,
   and `cleanup_t` closes `nullptr` instead of the section (220).

Comments of `daw_string_view.h` that the code does not follow, of `rfind` and the
`try_pop_...`, are named under StringView above: no run is about them, and no
property claims the calls they are about. The other deviations named with the
modules are disagreements of the code with its names rather than with a sentence
of its documentation. All are modelled as the code is, and are under `hazards` in PROJECT.json with their lines where a
property meets them.

`bfs_walk` has no bound on the calls of `func` that is linear in the edges: two
entries of one node, both taken before its children are marked, each store all
of them, and so the calls can double from layer to layer. `OncePerEdge`, a part
of `WalkVisits`, is therefore stated for `dfs_walk` only.

## Proofs

TLAPS proves the following for all values of the constants that satisfy the
named `Assumption` of the module. TLC evaluates these assumptions in the runs.

- **SharedFunctionProofs**, for any finite sets of threads and handles and any
  blocks. The safety properties are not inductive: that a count is positive
  while somebody still needs it rests on exact counts, and exact counts on
  handles that nobody else writes meanwhile. `IInv` therefore adds what each
  operation knows of its handles and block (`LocalOK`), that a handle under
  assignment is used by nobody else (`Exclusive`), and how the counts go with
  the life of a block (`Life`): a block that is live with no strong count has
  one thread about to reset it, one that is reset with no weak count has one
  thread about to delete it. `CountsExact` is a sum of two cardinalities; the
  lemmas `ThreadsUpdate`, `HoldersUpdate` and `HoldersMove` say how each
  changes when one thread or handle does, so that every step is arithmetic.
  From `IInv` follow all invariants of the run, `TypeOK`, `OwnedCallableIsLive`
  and both action properties. `SafeOwnership` is the refinement without its
  fairness: every step of `SharedFunction` is a step of `SharedOwnership`, or
  none. `IInv` is needed for it where the last handle goes: who has brought the
  strong count to 0 is the one that destroys the callable.
- **AtomicWaitForProofs**, for any values, durations, deadlines and limits; of
  the back-off only `2 * LongSleep <= LongAfter` is assumed (8 ms and 128 ms).
  `InTime` says that `final_time` is not before the caller's time and
  `start_time` not before the moment `final_time` was computed from;
  `Loaded` that the value last loaded was held during the call; `Lateness` that a
  poll begun after `final_time` is followed by the return, and that a sleep about
  to begin rests on a reading within the duration, however long ago.
- **AtomicWaitIfProofs**, for any waiters, writers and predicates: a thread
  blocks only on a value its predicate refused, so if the value satisfies it
  now, its author has stored and not notified yet.
- **GraphAlgorithmsProofs**, for any number of nodes and edges: all safety
  properties of the run, and the refinement of `DirectedGraph`. For the graph
  alone, types, mirrored and non-dangling edges are inductive together (`IInv`),
  and with them every step of `graph_t` is a step of `DirectedGraph`, or none. The
  two loops of `remove_node` need the mirror: `RemovedNode` shows that they erase
  exactly the edges at the node. For the algorithms, *Reach*, the least set that
  holds a node and is closed under the edges, takes the place of the recursive reachability. `WalkInv`
  (the graph is consistent, and an algorithm runs on all nodes) is what the
  others rest on.
  - *Topological*: the nodes taken or ready are those whose parents are all
    taken (`TopologicalInv`), so no node comes before a parent, and the nodes that
    never come are those on a cycle or behind one.
  - *Visits*: what a taken node leads to is taken or waits (`VisitInv`), so a
    walk that is over has been everywhere. `CountInv` counts: a node is waiting
    or taken once for each edge followed to it. `DepthInv`: children wait above
    all that waited before. `BreadthInv`: `path` holds nodes of one distance
    and then of the next, and never another.
  - *`mst`*: the edges that have been followed make up a tree for each root, the
    entries that wait are edges of the graph (`MstInv`), so an edge that is removed
    leads to a node that is in the tree without it. `NothingCutOff`, an action property, follows: who could be
    reached before a removal still can.
- **VectorProofs**, for any `max_size()`, any values and any place of a throw:
  `LifetimesOK`. `IInv` says that the block is *good* for some capacity: below
  its end every cell has a value, from there on none has, and nothing was wrong
  so far. An operation is a list of steps. It is `Legal` if each step fits the
  end the ones before it leave, and `RunGood` and `AttemptGood` show that a legal
  list may be stopped anywhere, by a throw or because it is done. What is left is
  one lemma per operation (`InsertKept`, `EraseKept`, ...): its steps are legal.
  - `ThrowsSafely` has a like argument. A list of steps `Spares` a position if
    each step leaves alone the elements before it, so any number of them does;
    and where nothing at all may change, either only the first step can throw,
    or the work is done in a new block that nobody has seen yet.
  - `DoesAsTold` follows the contents through the steps of an operation. `Trace`
    is the row of blocks that a list of steps goes through; `CellWritten` and
    `CellKept` say what a step does to a cell, and `ConstructDoes`, `AssignDoes`,
    `MoveDoes`, `DestroyDoes`, `RotateDoes` and `InsertDoes` what a run of steps
    of one sort does to a part of the block. `Splices` and `BlockSplices` compare
    the block that results with what the standard says; one lemma per operation
    (`...Told`) joins its runs of steps. An element of the vector that is
    inserted into it is followed to where it has moved (`InsertDoes`).
- **StructuresProofs**, for any handles and objects, addresses, values, any
  capacities that divide the range of the counters, any room, vectors, allocators
  and blocks, any keys, hashes and salts: `PointersSound`, `QueuesInOrder`,
  `BoundedHolds`, `HoldersSound`, `StorageOwned` and `TablesHold`. `StructuresInv`
  puts the invariants of the parts side by side; as the parts share nothing,
  `StepsOfParts` makes of a step of the program one of each part or none.
  `OwnersInv`, `RingInv`, `BitsInv`, `PointersInv` and those of the tables are in
  PartsProofs.
  - `OwnersInv`: of each object that was not misused, it is deleted once if
    nobody points to it and the program does not keep it, and not at all
    otherwise; the handles that point to it own it; the count of an `rc_ptr` is
    the number of handles that point to it, and with every other kind there is
    one handle at most. `LetsGo` says what every kind of handle is like after a
    reset, and assignment and destruction start from there.
  - `RingInv`: the items are the cells from `head` on, by remainders of the
    capacity. The counters wrap; that the wrap does not disturb the remainders
    is where the capacity has to divide their range (`ModApart`, `RingFacts`).
  - `BitsInv`, of the queue of bits: the number holds the items,
    and what was popped last is what was told. Pushing makes one number of two
    (`NumberJoins`), popping cuts one in two (`Halved`, `NumberOfBits`): a number
    below `2^(m + n)` has the first `m` of its bits in its quotient by `2^n`, and
    the others in its remainder (`Divided`, `PowerAdds`). A number fits its width
    (`NumberFits`), so no shift or cast cuts anything off but where `told` says.
  - `PointersInv`: each pointer is in the range it was made for or one past it.
  - `BoundedInv`: the cells below the size are the items, with a zero behind
    those of a string.
  - `HoldersInv`: one content at most, and of a kind that the holder may have.
    `OptionalsInv`: an optional refers to something there is; `ComparesAsRanked`
    and `ComparesWithNone` then show every operator to be the order of ranks in
    which nothing comes first.
  - `VectorsInv`: the memory is sound, that is, each block is owned by one vector,
    came from the allocator the vector has now and has as many elements alive as
    its vector has items; and each vector holds what it was given. `VectorsOwn`
    follows. A copy, a move, a swap or a throw hands over blocks, or takes and
    gives back new ones, and the allocator goes with the block or does not as the
    traits say.
  - `SplitInv`: a buffer *fits* if its elements are alive between its ends and
    its gaps are raw until it slides, and is *good* if its block is also from its
    allocator (`FitBuffer`, `GoodBuffer`); the last call left what it was told to
    leave (`AsTold`).
    `RegrownIs` and `SlideIs` say what a new block and a slide leave. A
    buffer is good until an assignment has taken over a block it cannot give
    back (`misplaced`).
  - `TableInv`: until something is erased, every cell from a key's home to its own
    is taken (`Reached`), so a search ends there. Filling the cell a search ends at
    keeps that (`ReachedFill`). Emptying one may break it, so afterwards it is
    known only of the call before that what it put or erased is found or not.
  - `OrderedInv`: the pairs are those of the calls that were the first of their
    class, in the order of these, each with the value its class has (`Listed`).
  - `PerfectInv`: the items of the buckets placed so far have slots of their own,
    and besides these only one slot is claimed for each item alone
    (`PerfectGood`). Where too few slots are free, `TooFew` counts all (`Counted`)
    and finds that they cannot suffice. That some salt leads to free slots, if there
    are enough, is taken for granted by the model.
  - `BoundedGraphInv`: the tables have exactly the ids that are live and the edges
    between them, always; and all of them are in reach until an erasure skews a
    table, after which the graph is followed no further.
- **PartsProofs**, of mapped files, for any number of objects and of things the
  system may have open: `RaiiOnPosix`. The operations are compositions of functions on
  states, and inside `open` an object may hold a mapping that failed, so the
  invariant `FilesSound` is stated of a state, beside `NotFailed`, which holds between
  operations only. `RefilledSound` is the argument: who gives back what he holds,
  or takes what nobody has, leaves the rest sound; `HandedKeeps` is that of moves.
  That a number is used again after it was closed is harmless because nobody
  closes what he does not hold.
- **ViewsProofs**, for arrays of any length, of any numbers, and any size of a
  `size_t` that can count them: `ViewsSound`. `SeenInv` adds to `ViewsPart` what is
  known of a view: it begins in or behind the array, which keeps its length; and
  `NotAstray`: if it has not gone astray it is a part of the array. `Takes` says
  `ViewsPart` of any two views and a call, and there is a lemma for each way to
  take (`TakenFront`, `TakenBack`, `TakenTo`). For comparisons, `DecidedAt` finds
  the place that decides either way round, the longest beginning that is the
  same, from which both that the order is one (`OneOfThree`) and that what is
  equal looks equal (`AlikeIn`) follow.

An induction over data cannot be cited, since its theorem takes an operator. The
proofs that need one take the least number for which a property fails
(`LeastNatural`, by the well-foundedness of the finite sets) and
go on from the number before; that a recursive function is defined at all is
shown in the same way, by there being a solution for each length.

Only model-checked:

- liveness (`ImplementsOwnership` with its fairness, `Returns`,
  `StandingValueIsSeen`, `Ends`), which is beyond this prover, as are fairness
  and `ENABLED`;
- of `PureFunctions` all but `ViewsSound`: `Sorting`, `Algorithms`, `Loops`,
  `Parsers`, `Pipelines` and `StringView` use recursive operators, and what the
  others compute (folds over the words of a bitset, selections from a sequence)
  is a matter of induction over their input.

The violated properties are not theorems, of course.

## Not modelled, and why

Weak memory except in `AtomicWaitIf`; overflow of durations and of the `int`
counters of a block (2^31 handles); user code that changes a graph during a walk;
comparisons that are no strict weak ordering, which `not comp` at
`daw_graph_algorithm.h:99` makes of equal values; `block_append_from`
(`vector.h:1310-1331`), which appends elements nobody wrote until `reserve`
throws, and so has no behaviour to check.

Parts that cannot be compiled or have no defined behaviour, beside those named
with their modules: `bit_iterator` and `split_iterator`, `enumerate_tuple`, which
needs C++23, `extract_matching`, which uses the iterator it has just invalidated.
The node proxies of a graph (`daw_graph.h:138-343`) only forward; their `==` is
true for any two nodes of one graph. `safe_pointer<void>` has no arithmetic.

Of whole components: traits, concepts, tuples, `visit` and feature checks run in
the compiler and have no behaviour; callables are one call; `allow_once_t`, `countable_resource_t` and the compile-time atomics
are one atomic access per operation; `cxmath` computes in floating point, which
TLC does not have; hashes and random numbers mix bits that no property is about;
benchmarks, formatters and printing are input and output; deprecated headers
that nothing else uses are kept for old programs. PROJECT.json lists every
component with its reason.

## Plan

Done: shared ownership, both kinds of waits, graph, walks, spanning tree, vectors
and what they grow into, the stateful parts of the library, strings, integers,
algorithms, views, pipelines, iterators and parsers, with the proofs above.

1. Prove further: that iterators look at the element they should.
2. Model further: the iterators over a finished topological walk, `Sample`,
   the text forms of `static_bitset`, the members that `daw_cxmath.h` computes
   without floating point.
