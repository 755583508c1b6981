------------------------------ MODULE VectorProofs -----------------------------
(***************************************************************************)
(* Proofs that a vector never loses track of its elements, for every       *)
(* maximal size, every list of values and every place of a throw.          *)
(*                                                                         *)
(* IInv: the block is good for some capacity, that is, the cells below its *)
(* end have a value, those from its end on have none, and nothing was done *)
(* to an element that was not there.                                       *)
(*                                                                         *)
(* An operation is a list of steps. It is Legal when each step fits the    *)
(* end that those before it leave; legal steps can be stopped anywhere, by *)
(* a throw or because they are done, and leave a good block. So it is      *)
(* enough to show of each operation that its steps are legal.              *)
(*                                                                         *)
(* That a throw leaves alone what lies before an operation's position has  *)
(* a like argument: each of its steps spares the elements before it        *)
(* (Spares), so any number of them do; where nothing at all may change,    *)
(* only the first step can throw, or the work is done in a new block.      *)
(*                                                                         *)
(* That an operation does as told follows the contents: a Trace is the row *)
(* of blocks that a list of steps goes through, and a lemma for each sort  *)
(* of steps says what they do to a part of the block (ConstructDoes, ...). *)
(* Splices compares the block that results with what the operation is told *)
(* to leave; a lemma for each operation joins its runs of steps.           *)
(***************************************************************************)
EXTENDS Vector, FiniteSetTheorems, TLAPS

(* The values an element that is there may have.                           *)
Lives == Values \cup {Unspecified}

(* A block of capacity cap whose elements are where its end says.          *)
Cells(cap) == [0 .. cap - 1 -> Lives \cup {Raw}]
Blocks(cap) == [cells : Cells(cap), end : 0 .. cap, fault : BOOLEAN]
Good(b, cap) ==
  /\ b \in Blocks(cap)
  /\ \A i \in 0 .. cap - 1 : b.cells[i] = Raw <=> i >= b.end
  /\ ~ b.fault

(* An argument that can be read, and a step that can be done, when the     *)
(* block has its end at e.                                                 *)
Args == [at : Int, x : Lives, move : BOOLEAN]
StepKinds == {"construct", "assign", "destroy", "temporary", "rotate"}
Steps == [do : StepKinds, to : Int, arg : Args]

Readable(arg, e) == arg \in Args /\ arg.at < e
Fits(step, e, cap) ==
  /\ step \in Steps /\ Readable(step.arg, e)
  /\ step.do = "construct" => e < cap
  /\ step.do = "assign" => step.to \in 0 .. e - 1
  /\ step.do = "destroy" => e > 0
  /\ step.do = "rotate" => step.to \in 0 .. e - 1 /\ step.arg.at \in step.to .. e - 1

EndAfter(step, e) ==
  IF step.do = "construct" THEN e + 1 ELSE IF step.do = "destroy" THEN e - 1 ELSE e

(* ends[k] is where the end is after k of the steps.                       *)
Follows(steps, ends, e, cap) ==
  /\ ends \in [0 .. Len(steps) -> 0 .. cap] /\ ends[0] = e
  /\ \A k \in 1 .. Len(steps) :
       Fits(steps[k], ends[k - 1], cap) /\ ends[k] = EndAfter(steps[k], ends[k - 1])

(* All steps can be done one after the other, from an end at e to one at f.*)
Legal(steps, e, f, cap) ==
  /\ steps \in Seq(Steps)
  /\ \E ends : Follows(steps, ends, e, cap) /\ ends[Len(steps)] = f

IInv ==
  /\ \E cap \in 0 .. MaxSize : Good(v, cap)
  /\ nothrow \in BOOLEAN

-------------------------------------------------------------------------------
LEMMA Constants == /\ Raw \notin Lives /\ Default \in Lives /\ MaxSize \in Nat /\ MaxArgs \in Nat
                   /\ Values \subseteq Lives
  BY Assumption DEF Lives

(* What a good block is, piece by piece.                                   *)
LEMMA GoodHas ==
  ASSUME NEW cap \in Nat, NEW b, Good(b, cap)
  PROVE  /\ b = [cells |-> b.cells, end |-> b.end, fault |-> FALSE]
         /\ b \in Blocks(cap) /\ b.fault = FALSE
         /\ b.cells \in Cells(cap) /\ DOMAIN b.cells = 0 .. cap - 1
         /\ b.end \in 0 .. cap
         /\ \A i \in 0 .. cap - 1 : i < b.end => b.cells[i] # Raw
         /\ \A i \in 0 .. cap - 1 : i >= b.end => b.cells[i] = Raw
<1>1. b \in Blocks(cap) /\ b.fault = FALSE /\ \A i \in 0 .. cap - 1 : b.cells[i] = Raw <=> i >= b.end
  BY DEF Good, Blocks
<1>2. b.end \in 0 .. cap /\ b.cells \in Cells(cap)
  BY <1>1 DEF Blocks
<1>3. b = [cells |-> b.cells, end |-> b.end, fault |-> FALSE]
  BY <1>1 DEF Blocks
<1>4. ASSUME NEW i \in 0 .. cap - 1 PROVE (i < b.end => b.cells[i] # Raw) /\ (i >= b.end => b.cells[i] = Raw)
  BY <1>1, <1>2
<1> QED
  BY <1>1, <1>2, <1>3, <1>4 DEF Cells

(* And what makes one.                                                     *)
LEMMA GoodIs ==
  ASSUME NEW cap \in Nat, NEW c \in Cells(cap), NEW e \in 0 .. cap,
         \A i \in 0 .. cap - 1 : i < e => c[i] # Raw,
         \A i \in 0 .. cap - 1 : i >= e => c[i] = Raw
  PROVE  Good([cells |-> c, end |-> e, fault |-> FALSE], cap)
<1> DEFINE b == [cells |-> c, end |-> e, fault |-> FALSE]
<1>1. b \in Blocks(cap) /\ b.cells = c /\ b.end = e /\ b.fault = FALSE
  BY DEF Blocks
<1> HIDE DEF b
<1>2. ASSUME NEW i \in 0 .. cap - 1 PROVE b.cells[i] = Raw <=> i >= b.end
  BY <1>1
<1>3. Good(b, cap)
  BY <1>1, <1>2 DEF Good
<1> QED
  BY <1>3 DEF b

LEMMA CapacityIs ==
  ASSUME NEW cap \in Nat, NEW b, Good(b, cap)
  PROVE  Capacity(b) = cap /\ DOMAIN b.cells = 0 .. cap - 1
<1>1. DOMAIN b.cells = 0 .. cap - 1
  BY DEF Good, Blocks, Cells
<1>2. Cardinality(0 .. cap - 1) = cap
  BY FS_Interval
<1> QED
  BY <1>1, <1>2 DEF Capacity

LEMMA ContentsAre ==
  ASSUME NEW cap \in Nat, NEW b, Good(b, cap)
  PROVE  Contents(b) \in Seq(Lives) /\ Len(Contents(b)) = b.end
<1>1. b.end \in 0 .. cap /\ \A i \in 0 .. b.end - 1 : b.cells[i] \in Lives
  BY DEF Good, Blocks, Cells
<1>2. \A i \in 1 .. b.end : b.cells[i - 1] \in Lives
  BY <1>1
<1> QED
  BY <1>1, <1>2 DEF Contents

(* A block that is given elements has them at its front.                   *)
LEMMA HoldingGood ==
  ASSUME NEW xs \in Seq(Lives), NEW cap \in Nat, Len(xs) <= cap
  PROVE  Good(Holding(xs, cap), cap) /\ Holding(xs, cap).end = Len(xs)
<1> DEFINE c == [i \in 0 .. cap - 1 |-> IF i < Len(xs) THEN xs[i + 1] ELSE Raw]
<1>1. Holding(xs, cap) = [cells |-> c, end |-> Len(xs), fault |-> FALSE]
  BY DEF Holding, Block
<1>2. \A i \in 0 .. cap - 1 : i < Len(xs) => xs[i + 1] \in Lives
  OBVIOUS
<1>3. c \in [0 .. cap - 1 -> Lives \cup {Raw}]
  BY <1>2
<1>4. \A i \in 0 .. cap - 1 : c[i] = Raw <=> i >= Len(xs)
  BY <1>2, Constants
<1> HIDE DEF c
<1> QED
  BY <1>1, <1>3, <1>4 DEF Good, Blocks, Cells

(* Records of good blocks, written out.                                    *)
LEMMA WithCells ==
  ASSUME NEW cap \in Nat, NEW b, Good(b, cap), NEW c \in Cells(cap)
  PROVE  /\ [b EXCEPT !.cells = c] = [cells |-> c, end |-> b.end, fault |-> FALSE]
         /\ [b EXCEPT !.cells = c, !.fault = FALSE] = [cells |-> c, end |-> b.end, fault |-> FALSE]
<1>1. b \in Blocks(cap) /\ b.fault = FALSE
  BY GoodHas
<1> DEFINE p == [b EXCEPT !.cells = c]
           q == [b EXCEPT !.cells = c, !.fault = FALSE]
<1>2. /\ p \in Blocks(cap) /\ p.cells = c /\ p.end = b.end /\ p.fault = FALSE
      /\ q \in Blocks(cap) /\ q.cells = c /\ q.end = b.end /\ q.fault = FALSE
  BY <1>1 DEF Blocks
<1> HIDE DEF p, q
<1>3. /\ p = [cells |-> p.cells, end |-> p.end, fault |-> p.fault]
      /\ q = [cells |-> q.cells, end |-> q.end, fault |-> q.fault]
  BY <1>2 DEF Blocks
<1>4. /\ p = [cells |-> c, end |-> b.end, fault |-> FALSE]
      /\ q = [cells |-> c, end |-> b.end, fault |-> FALSE]
  BY <1>2, <1>3
<1> QED
  BY <1>4 DEF p, q

LEMMA WithEnd ==
  ASSUME NEW cap \in Nat, NEW c \in Cells(cap), NEW e \in 0 .. cap, NEW f \in 0 .. cap
  PROVE  [[cells |-> c, end |-> e, fault |-> FALSE] EXCEPT !.end = f]
           = [cells |-> c, end |-> f, fault |-> FALSE]
<1> DEFINE b == [cells |-> c, end |-> e, fault |-> FALSE]
           p == [b EXCEPT !.end = f]
<1>1. b \in Blocks(cap) /\ b.cells = c /\ b.fault = FALSE
  BY DEF Blocks
<1> HIDE DEF b
<1>2. p \in Blocks(cap) /\ p.cells = c /\ p.end = f /\ p.fault = FALSE
  BY <1>1 DEF Blocks
<1> HIDE DEF p
<1>3. p = [cells |-> p.cells, end |-> p.end, fault |-> p.fault]
  BY <1>2 DEF Blocks
<1>4. p = [cells |-> c, end |-> f, fault |-> FALSE]
  BY <1>2, <1>3
<1> QED
  BY <1>4 DEF p, b

(* A write to a cell is as it says: nothing was wrong.                     *)
LEMMA PutIs ==
  ASSUME NEW cap \in Nat, NEW b, Good(b, cap), NEW i \in 0 .. cap - 1, NEW x \in Lives \cup {Raw}
  PROVE  Put(b, i, x, TRUE) =
           [cells |-> [b.cells EXCEPT ![i] = x], end |-> b.end, fault |-> FALSE]
<1>1. DOMAIN b.cells = 0 .. cap - 1 /\ b.fault = FALSE /\ b.cells \in Cells(cap)
  BY GoodHas
<1> DEFINE c == [b.cells EXCEPT ![i] = x]
<1>2. (b.fault \/ ~ TRUE \/ i \notin DOMAIN b.cells) = FALSE
  BY <1>1
<1>3. Put(b, i, x, TRUE) = [b EXCEPT !.cells = c, !.fault = FALSE]
  BY <1>2 DEF Put
<1>5. c \in Cells(cap)
  BY <1>1 DEF Cells
<1> HIDE DEF c
<1>4. Put(b, i, x, TRUE) = [cells |-> c, end |-> b.end, fault |-> FALSE]
  BY <1>3, <1>5, WithCells
<1> QED
  BY <1>4 DEF c

(* An element that is there is replaced.                                   *)
LEMMA PutGood ==
  ASSUME NEW cap \in Nat, NEW b, Good(b, cap), NEW i \in 0 .. b.end - 1, NEW x \in Lives
  PROVE  Good(Put(b, i, x, TRUE), cap) /\ Put(b, i, x, TRUE).end = b.end
<1> DEFINE c == [b.cells EXCEPT ![i] = x]
<1>1. /\ b.cells \in Cells(cap) /\ b.end \in 0 .. cap
      /\ \A j \in 0 .. cap - 1 : j < b.end => b.cells[j] # Raw
      /\ \A j \in 0 .. cap - 1 : j >= b.end => b.cells[j] = Raw
  BY GoodHas
<1>2. i \in 0 .. cap - 1 /\ x # Raw /\ x \in Lives \cup {Raw} /\ i < b.end
  BY <1>1, Constants
<1>3. Put(b, i, x, TRUE) = [cells |-> c, end |-> b.end, fault |-> FALSE]
  BY <1>2, PutIs
<1>4. c \in Cells(cap)
  BY <1>1, <1>2 DEF Cells
<1>5. ASSUME NEW j \in 0 .. cap - 1
      PROVE  (j < b.end => c[j] # Raw) /\ (j >= b.end => c[j] = Raw)
  BY <1>1, <1>2 DEF Cells
<1>6. b.end \in 0 .. cap
  BY <1>1
<1> HIDE DEF c
<1>7. Good([cells |-> c, end |-> b.end, fault |-> FALSE], cap)
  BY <1>4, <1>5, <1>6, GoodIs
<1>8. [cells |-> c, end |-> b.end, fault |-> FALSE].end = b.end
  OBVIOUS
<1> QED
  BY <1>3, <1>7, <1>8

(* An argument is the value of an element, or of an object elsewhere.      *)
LEMMA ReadLives ==
  ASSUME NEW cap \in Nat, NEW b, Good(b, cap), NEW arg, Readable(arg, b.end)
  PROVE  Read(b, arg) \in Lives /\ Read(b, arg) # Raw
<1>1. arg.at \in Int /\ arg.x \in Lives /\ arg.at < b.end
  BY DEF Readable, Args
<1>2. b.end \in 0 .. cap /\ b.cells \in Cells(cap) /\ \A i \in 0 .. cap - 1 : i < b.end => b.cells[i] # Raw
  BY GoodHas
<1>3. arg.at >= 0 => arg.at \in 0 .. cap - 1
  BY <1>1, <1>2
<1>4. arg.at >= 0 => b.cells[arg.at] \in Lives
  BY <1>1, <1>2, <1>3 DEF Cells
<1>5. Read(b, arg) \in Lives
  BY <1>1, <1>4 DEF Read
<1> QED
  BY <1>5, Constants

(* What a step that fits needs, in terms of the block.                     *)
LEMMA FitsHas ==
  ASSUME NEW cap \in Nat, NEW b, Good(b, cap), NEW step, Fits(step, b.end, cap)
  PROVE  /\ Readable(step.arg, b.end)
         /\ step.do = "construct" => b.end \in 0 .. cap - 1
         /\ step.do = "assign" => step.to \in 0 .. b.end - 1
         /\ step.do = "destroy" => b.end \in 1 .. cap
         /\ step.do = "rotate" => step.to \in 0 .. b.end - 1 /\ step.arg.at \in step.to .. b.end - 1
<1>1. b.end \in 0 .. cap
  BY GoodHas
<1> QED
  BY <1>1 DEF Fits

(* What is moved from is there still.                                      *)
LEMMA WithoutGood ==
  ASSUME NEW cap \in Nat, NEW b, Good(b, cap), NEW step, Fits(step, b.end, cap)
  PROVE  Good(Without(b, step), cap) /\ Without(b, step).end = b.end
<1>1. CASE step.arg.move /\ step.arg.at >= 0
  <2>1. Readable(step.arg, b.end)
    BY FitsHas
  <2>2. b.end \in 0 .. cap
    BY GoodHas
  <2>3. step.arg.at \in 0 .. b.end - 1
    BY <1>1, <2>1, <2>2 DEF Readable, Args
  <2>4. Unspecified \in Lives
    BY DEF Lives
  <2> QED
    BY <1>1, <2>3, <2>4, PutGood DEF Without
<1>2. CASE ~(step.arg.move /\ step.arg.at >= 0)
  BY <1>2 DEF Without
<1> QED
  BY <1>1, <1>2

(* Each of the four steps that write keeps a block good, and puts its end  *)
(* where EndAfter says.                                                    *)
LEMMA ConstructGood ==
  ASSUME NEW cap \in Nat, NEW b, Good(b, cap), NEW step, Fits(step, b.end, cap), step.do = "construct"
  PROVE  Good(Do(b, step), cap) /\ Do(b, step).end = b.end + 1
<1> DEFINE x == Read(b, step.arg)
           w == Without(b, step)
           c == [w.cells EXCEPT ![b.end] = x]
<1>1. Readable(step.arg, b.end) /\ b.end \in 0 .. cap - 1
  BY FitsHas
<1>2. x \in Lives /\ x # Raw
  BY <1>1, ReadLives
<1>3. Good(w, cap) /\ w.end = b.end
  BY WithoutGood
<1>4. \A i \in 0 .. cap - 1 : i >= b.end => b.cells[i] = Raw
  BY GoodHas
<1>5. (x # Raw /\ b.cells[b.end] = Raw) = TRUE
  BY <1>1, <1>2, <1>4
<1>6. Do(b, step) = [Put(w, b.end, x, x # Raw /\ b.cells[b.end] = Raw) EXCEPT !.end = @ + 1]
  BY DEF Do
<1> HIDE DEF x, w
<1>7. /\ w.cells \in Cells(cap)
      /\ \A i \in 0 .. cap - 1 : i < w.end => w.cells[i] # Raw
      /\ \A i \in 0 .. cap - 1 : i >= w.end => w.cells[i] = Raw
  BY <1>3, GoodHas
<1>8. Put(w, b.end, x, TRUE) = [cells |-> c, end |-> w.end, fault |-> FALSE]
  <2>1. x \in Lives \cup {Raw}
    BY <1>2
  <2> QED
    BY <1>1, <1>3, <2>1, PutIs
<1>9. c \in Cells(cap)
  BY <1>1, <1>2, <1>7 DEF Cells
<1>10. ASSUME NEW i \in 0 .. cap - 1
       PROVE  (i < b.end + 1 => c[i] # Raw) /\ (i >= b.end + 1 => c[i] = Raw)
  BY <1>1, <1>2, <1>3, <1>7 DEF Cells
<1> HIDE DEF c
<1>11. b.end \in 0 .. cap /\ b.end + 1 \in 0 .. cap
  BY <1>1
<1>12. Do(b, step) = [cells |-> c, end |-> b.end + 1, fault |-> FALSE]
  <2>1. Put(w, b.end, x, x # Raw /\ b.cells[b.end] = Raw) = [cells |-> c, end |-> b.end, fault |-> FALSE]
    BY <1>3, <1>5, <1>8
  <2>2. [cells |-> c, end |-> b.end, fault |-> FALSE].end = b.end
    OBVIOUS
  <2>3. Do(b, step) = [[cells |-> c, end |-> b.end, fault |-> FALSE] EXCEPT !.end = b.end + 1]
    BY <1>6, <2>1, <2>2
  <2> QED
    BY <1>9, <1>11, <2>3, WithEnd
<1>13. Good([cells |-> c, end |-> b.end + 1, fault |-> FALSE], cap)
  BY <1>9, <1>10, <1>11, GoodIs
<1> QED
  BY <1>12, <1>13

LEMMA AssignGood ==
  ASSUME NEW cap \in Nat, NEW b, Good(b, cap), NEW step, Fits(step, b.end, cap), step.do = "assign"
  PROVE  Good(Do(b, step), cap) /\ Do(b, step).end = b.end
<1> DEFINE x == Read(b, step.arg)
           w == Without(b, step)
<1>1. Readable(step.arg, b.end) /\ step.to \in 0 .. b.end - 1
  BY FitsHas
<1>2. x \in Lives /\ x # Raw
  BY <1>1, ReadLives
<1>3. Good(w, cap) /\ w.end = b.end
  BY WithoutGood
<1>4. b.end \in 0 .. cap /\ \A i \in 0 .. cap - 1 : i < b.end => b.cells[i] # Raw
  BY GoodHas
<1>5. (x # Raw /\ b.cells[step.to] # Raw) = TRUE
  BY <1>1, <1>2, <1>4
<1>6. Do(b, step) = Put(w, step.to, x, x # Raw /\ b.cells[step.to] # Raw)
  BY DEF Do
<1> HIDE DEF x, w
<1>7. Good(Put(w, step.to, x, TRUE), cap) /\ Put(w, step.to, x, TRUE).end = w.end
  BY <1>1, <1>2, <1>3, PutGood
<1> QED
  BY <1>3, <1>5, <1>6, <1>7

LEMMA DestroyGood ==
  ASSUME NEW cap \in Nat, NEW b, Good(b, cap), NEW step, Fits(step, b.end, cap), step.do = "destroy"
  PROVE  Good(Do(b, step), cap) /\ Do(b, step).end = b.end - 1
<1> DEFINE c == [b.cells EXCEPT ![b.end - 1] = Raw]
<1>1. b.end \in 1 .. cap
  BY FitsHas
<1>2. /\ b.cells \in Cells(cap)
      /\ \A i \in 0 .. cap - 1 : i < b.end => b.cells[i] # Raw
      /\ \A i \in 0 .. cap - 1 : i >= b.end => b.cells[i] = Raw
  BY GoodHas
<1>3. b.end - 1 \in 0 .. cap - 1 /\ b.end - 1 \in 0 .. cap /\ b.end \in 0 .. cap
  BY <1>1
<1>4. (b.cells[b.end - 1] # Raw) = TRUE
  BY <1>1, <1>2, <1>3
<1>5. Do(b, step) = [Put(b, b.end - 1, Raw, b.cells[b.end - 1] # Raw) EXCEPT !.end = @ - 1]
  BY DEF Do
<1>6. Put(b, b.end - 1, Raw, TRUE) = [cells |-> c, end |-> b.end, fault |-> FALSE]
  <2>1. Raw \in Lives \cup {Raw}
    OBVIOUS
  <2> QED
    BY <1>3, <2>1, PutIs
<1>7. c \in Cells(cap)
  BY <1>2, <1>3 DEF Cells
<1>8. ASSUME NEW i \in 0 .. cap - 1
      PROVE  (i < b.end - 1 => c[i] # Raw) /\ (i >= b.end - 1 => c[i] = Raw)
  BY <1>1, <1>2, <1>3 DEF Cells
<1> HIDE DEF c
<1>9. Do(b, step) = [cells |-> c, end |-> b.end - 1, fault |-> FALSE]
  <2>1. Put(b, b.end - 1, Raw, b.cells[b.end - 1] # Raw) = [cells |-> c, end |-> b.end, fault |-> FALSE]
    BY <1>4, <1>6
  <2>2. [cells |-> c, end |-> b.end, fault |-> FALSE].end = b.end
    OBVIOUS
  <2>3. Do(b, step) = [[cells |-> c, end |-> b.end, fault |-> FALSE] EXCEPT !.end = b.end - 1]
    BY <1>5, <2>1, <2>2
  <2> QED
    BY <1>3, <1>7, <2>3, WithEnd
<1>10. Good([cells |-> c, end |-> b.end - 1, fault |-> FALSE], cap)
  BY <1>3, <1>7, <1>8, GoodIs
<1> QED
  BY <1>9, <1>10

LEMMA RotateGood ==
  ASSUME NEW cap \in Nat, NEW b, Good(b, cap), NEW step, Fits(step, b.end, cap), step.do = "rotate"
  PROVE  Good(Do(b, step), cap) /\ Do(b, step).end = b.end
<1> DEFINE first == step.to
           middle == step.arg.at
           n == b.end - first
           from(i) == first + ((i - first + middle - first) % n)
           c == [i \in DOMAIN b.cells |-> IF i \in first .. b.end - 1 THEN b.cells[from(i)] ELSE b.cells[i]]
<1>1. first \in 0 .. b.end - 1 /\ middle \in first .. b.end - 1
  BY FitsHas
<1>2. /\ b.end \in 0 .. cap
      /\ b.cells \in Cells(cap) /\ DOMAIN b.cells = 0 .. cap - 1
      /\ \A i \in 0 .. cap - 1 : i < b.end => b.cells[i] # Raw
      /\ \A i \in 0 .. cap - 1 : i >= b.end => b.cells[i] = Raw
  BY GoodHas
<1>3. n \in Nat \ {0} /\ first \in Int /\ middle \in Int /\ first >= 0 /\ b.end = first + n
  BY <1>1, <1>2
<1>4. Do(b, step) = [b EXCEPT !.cells = c]
  <2>1. Do(b, step) = Rotated(b, first, middle)
    BY DEF Do
  <2> QED
    BY <2>1 DEF Rotated
<1>5. ASSUME NEW i \in first .. b.end - 1 PROVE from(i) \in 0 .. cap - 1 /\ from(i) < b.end
  <2> HIDE DEF first, middle, n
  <2>1. (i - first + middle - first) % n \in 0 .. n - 1
    BY <1>3
  <2> QED
    BY <1>2, <1>3, <2>1
<1> HIDE DEF first, middle, n, from
<1>6. ASSUME NEW i \in 0 .. cap - 1
      PROVE  /\ c[i] \in Lives \cup {Raw}
             /\ i < b.end => c[i] # Raw
             /\ i >= b.end => c[i] = Raw
  <2>1. CASE i \in first .. b.end - 1
    <3>1. from(i) \in 0 .. cap - 1 /\ from(i) < b.end /\ i < b.end
      BY <1>2, <1>5, <2>1
    <3>2. c[i] = b.cells[from(i)]
      BY <1>2, <2>1
    <3> HIDE DEF c
    <3> QED
      BY <1>2, <3>1, <3>2 DEF Cells
  <2>2. CASE i \notin first .. b.end - 1
    <3>1. c[i] = b.cells[i]
      BY <1>2, <2>2
    <3> HIDE DEF c
    <3> QED
      BY <1>2, <3>1 DEF Cells
  <2> QED
    BY <2>1, <2>2
<1>7. c \in Cells(cap)
  <2>1. DOMAIN c = 0 .. cap - 1 /\ c = [i \in DOMAIN c |-> c[i]]
    BY <1>2
  <2> HIDE DEF c
  <2> QED
    BY <1>6, <2>1 DEF Cells
<1> HIDE DEF c
<1>8. Do(b, step) = [cells |-> c, end |-> b.end, fault |-> FALSE]
  BY <1>4, <1>7, WithCells
<1>9. Good([cells |-> c, end |-> b.end, fault |-> FALSE], cap)
  BY <1>2, <1>6, <1>7, GoodIs
<1> QED
  BY <1>8, <1>9

(* So every step does.                                                     *)
LEMMA DoGood ==
  ASSUME NEW cap \in Nat, NEW b, Good(b, cap), NEW step, Fits(step, b.end, cap)
  PROVE  Good(Do(b, step), cap) /\ Do(b, step).end = EndAfter(step, b.end)
<1>1. CASE step.do = "temporary"
  BY <1>1 DEF Do, EndAfter
<1>2. step.do \in StepKinds
  BY DEF Fits, Steps
<1> QED
  BY <1>1, <1>2, ConstructGood, AssignGood, DestroyGood, RotateGood DEF EndAfter, StepKinds

(* A step that throws leaves the block good too, with its end where it     *)
(* was.                                                                    *)
LEMMA BrokenGood ==
  ASSUME NEW cap \in Nat, NEW b, Good(b, cap), NEW step, Fits(step, b.end, cap)
  PROVE  Good(Broken(b, step), cap)
<1>1. CASE step.do # "rotate"
  BY <1>1 DEF Broken
<1>2. CASE step.do = "rotate"
  <2> DEFINE c == [i \in DOMAIN b.cells |->
                    IF i \in step.to .. b.end - 1 THEN Unspecified ELSE b.cells[i]]
  <2>1. /\ b.end \in 0 .. cap /\ b.cells \in Cells(cap)
        /\ DOMAIN b.cells = 0 .. cap - 1
        /\ \A i \in 0 .. cap - 1 : i < b.end => b.cells[i] # Raw
        /\ \A i \in 0 .. cap - 1 : i >= b.end => b.cells[i] = Raw
    BY GoodHas
  <2>2. Unspecified \in Lives /\ Unspecified # Raw
    BY Assumption DEF Lives
  <2>3. step.to \in 0 .. b.end - 1
    BY <1>2, FitsHas
  <2>4. c \in Cells(cap)
    BY <2>1, <2>2 DEF Cells
  <2>5. ASSUME NEW i \in 0 .. cap - 1
        PROVE  (i < b.end => c[i] # Raw) /\ (i >= b.end => c[i] = Raw)
    BY <2>1, <2>2, <2>3
  <2>6. Broken(b, step) = [b EXCEPT !.cells = c]
    BY <1>2 DEF Broken
  <2> HIDE DEF c
  <2>7. Broken(b, step) = [cells |-> c, end |-> b.end, fault |-> FALSE]
    BY <2>4, <2>6, WithCells
  <2>8. Good([cells |-> c, end |-> b.end, fault |-> FALSE], cap)
    BY <2>1, <2>4, <2>5, GoodIs
  <2> QED
    BY <2>7, <2>8
<1> QED
  BY <1>1, <1>2

-------------------------------------------------------------------------------
(* Induction, for what is done step by step.                               *)

(* A property some number has is one that a least number has: this stands  *)
(* for induction in what follows.                                          *)
LEMMA LeastNatural ==
  ASSUME NEW S \in SUBSET Nat, S # {}
  PROVE  \E m \in S : \A k \in S : m <= k
<1> DEFINE below(n) == 0 .. n
           W == {below(n) : n \in S}
<1>1. W \subseteq FiniteSubsetsOf(Nat)
  <2> SUFFICES ASSUME NEW n \in Nat PROVE IsFiniteSet(0 .. n) /\ 0 .. n \subseteq Nat
    BY DEF FiniteSubsetsOf
  <2> QED
    BY FS_Interval
<1>2. IsWellFoundedOn(StrictSubsetOrdering(Nat), FiniteSubsetsOf(Nat))
  BY FS_StrictSubsetOrderingWellFounded
<1>3. W # {}
  OBVIOUS
<1>4. PICK x \in W : \A y \in W : <<y, x>> \notin StrictSubsetOrdering(Nat)
  <2> HIDE DEF W
  <2> QED
    BY <1>1, <1>2, <1>3, WFMin
<1>5. PICK m \in S : x = 0 .. m
  OBVIOUS
<1>6. ASSUME NEW k \in S, k < m PROVE FALSE
  <2>1. 0 .. k \subseteq 0 .. m /\ 0 .. k # 0 .. m
    BY <1>6
  <2>2. <<0 .. k, x>> \in StrictSubsetOrdering(Nat)
    BY <1>5, <2>1 DEF StrictSubsetOrdering
  <2> QED
    BY <1>4, <2>2
<1> QED
  BY <1>6

(* Induction up to n, with the set of the numbers of which it is true.     *)
LEMMA UpTo ==
  ASSUME NEW n \in Nat, NEW S, 0 \in S, \A k \in 0 .. n - 1 : k \in S => k + 1 \in S
  PROVE  0 .. n \subseteq S
<1> SUFFICES ASSUME (0 .. n) \ S # {} PROVE FALSE
  OBVIOUS
<1>1. (0 .. n) \ S \in SUBSET Nat
  OBVIOUS
<1>2. PICK m \in (0 .. n) \ S : \A k \in (0 .. n) \ S : m <= k
  BY <1>1, LeastNatural
<1>3. m # 0 /\ m - 1 \in 0 .. n - 1 /\ m - 1 \notin (0 .. n) \ S
  BY <1>2
<1> QED
  BY <1>2, <1>3

(* What Run defines by recursion exists.                                   *)
LEMMA RunIs ==
  ASSUME NEW b, NEW steps, Len(steps) \in Nat
  PROVE  \E r : /\ r = [k \in 0 .. Len(steps) |-> IF k = 0 THEN b ELSE Do(r[k - 1], steps[k])]
                /\ Run(b, steps) = r[Len(steps)]
<1> DEFINE Is(r, m) == r = [k \in 0 .. m |-> IF k = 0 THEN b ELSE Do(r[k - 1], steps[k])]
           S == {m \in Nat : \E r : Is(r, m)}
<1>1. 0 \in S
  <2> DEFINE r == [k \in 0 .. 0 |-> b]
  <2>1. Is(r, 0)
    OBVIOUS
  <2> QED
    BY <2>1
<1>2. ASSUME NEW m \in Nat, m \in S PROVE m + 1 \in S
  <2>1. PICK r : Is(r, m)
    BY <1>2
  <2> DEFINE x == Do(r[m], steps[m + 1])
             t == [k \in 0 .. m + 1 |-> IF k = m + 1 THEN x ELSE r[k]]
  <2>2. \A k \in 0 .. m : t[k] = r[k]
    BY DEF t
  <2>3. t[m + 1] = Do(t[m], steps[m + 1])
    BY <2>2
  <2>4. ASSUME NEW k \in 0 .. m + 1
        PROVE  t[k] = IF k = 0 THEN b ELSE Do(t[k - 1], steps[k])
    <3>1. CASE k = m + 1
      BY <2>3, <3>1
    <3>2. CASE k \in 0 .. m
      <4>1. r[k] = IF k = 0 THEN b ELSE Do(r[k - 1], steps[k])
        BY <2>1, <3>2
      <4>2. k # 0 => t[k - 1] = r[k - 1]
        BY <2>2, <3>2
      <4> HIDE DEF t
      <4> QED
        BY <2>2, <3>2, <4>1, <4>2
    <3> QED
      BY <3>1, <3>2
  <2>5. t = [k \in 0 .. m + 1 |-> t[k]]
    OBVIOUS
  <2> HIDE DEF t
  <2>6. Is(t, m + 1)
    BY <2>4, <2>5
  <2> HIDE DEF Is
  <2> QED
    BY <2>6
<1> HIDE DEF S
<1>3. Len(steps) \in S
  <2>1. 0 .. Len(steps) \subseteq S
    <3>1. \A k \in 0 .. Len(steps) - 1 : k \in S => k + 1 \in S
      BY <1>2
    <3> QED
      BY <1>1, <3>1, UpTo
  <2> QED
    BY <2>1
<1>4. \E r : Is(r, Len(steps))
  BY <1>3 DEF S
<1> DEFINE done[k \in 0 .. Len(steps)] == IF k = 0 THEN b ELSE Do(done[k - 1], steps[k])
<1>5. done = [k \in 0 .. Len(steps) |-> IF k = 0 THEN b ELSE Do(done[k - 1], steps[k])]
  BY <1>4
<1>6. Run(b, steps) = done[Len(steps)]
  BY DEF Run
<1> HIDE DEF done
<1> QED
  BY <1>5, <1>6

(* Steps that are legal leave a good block, wherever they are stopped: the *)
(* first of them that did not would be one that does not fit.              *)
LEMMA RunGood ==
  ASSUME NEW cap \in Nat, NEW b, Good(b, cap), NEW steps, Len(steps) \in Nat,
         NEW ends, Follows(steps, ends, b.end, cap)
  PROVE  Good(Run(b, steps), cap) /\ Run(b, steps).end = ends[Len(steps)]
<1>1. PICK r : /\ r = [k \in 0 .. Len(steps) |-> IF k = 0 THEN b ELSE Do(r[k - 1], steps[k])]
               /\ Run(b, steps) = r[Len(steps)]
  BY RunIs
<1>2. r[0] = b /\ \A k \in 1 .. Len(steps) : r[k] = Do(r[k - 1], steps[k])
  BY <1>1
<1> DEFINE S == {k \in 0 .. Len(steps) : Good(r[k], cap) /\ r[k].end = ends[k]}
<1>3. 0 \in S
  BY <1>2 DEF Follows
<1>4. ASSUME NEW k \in 0 .. Len(steps) - 1, k \in S PROVE k + 1 \in S
  <2>1. k + 1 \in 1 .. Len(steps) /\ (k + 1) - 1 = k
    OBVIOUS
  <2>2. Fits(steps[k + 1], ends[k], cap) /\ ends[k + 1] = EndAfter(steps[k + 1], ends[k])
    BY <2>1 DEF Follows
  <2>3. Good(r[k], cap) /\ r[k].end = ends[k]
    BY <1>4
  <2>4. r[k + 1] = Do(r[k], steps[k + 1])
    BY <1>2, <2>1
  <2>5. Good(r[k + 1], cap) /\ r[k + 1].end = ends[k + 1]
    BY <2>2, <2>3, <2>4, DoGood
  <2> QED
    BY <2>5
<1> HIDE DEF S
<1>5. 0 .. Len(steps) \subseteq S
  BY <1>3, <1>4, UpTo
<1>6. Len(steps) \in S
  BY <1>5
<1> QED
  BY <1>1, <1>6 DEF S

(* The steps up to the k-th of those that can be done can be done.         *)
LEMMA PrefixFollows ==
  ASSUME NEW cap \in Nat, NEW e, NEW steps \in Seq(Steps), NEW ends, Follows(steps, ends, e, cap),
         NEW k \in 1 .. Len(steps)
  PROVE  /\ Len(SubSeq(steps, 1, k - 1)) = k - 1
         /\ \E more : Follows(SubSeq(steps, 1, k - 1), more, e, cap) /\ more[k - 1] = ends[k - 1]
<1> DEFINE s == SubSeq(steps, 1, k - 1)
           more == [i \in 0 .. k - 1 |-> ends[i]]
<1>1. Len(s) = k - 1 /\ \A i \in 1 .. k - 1 : s[i] = steps[i]
  OBVIOUS
<1>2. /\ ends \in [0 .. Len(steps) -> 0 .. cap] /\ ends[0] = e
      /\ \A i \in 1 .. Len(steps) :
           Fits(steps[i], ends[i - 1], cap) /\ ends[i] = EndAfter(steps[i], ends[i - 1])
  BY DEF Follows
<1>3. more \in [0 .. k - 1 -> 0 .. cap] /\ more[0] = e /\ more[k - 1] = ends[k - 1]
  BY <1>2
<1>4. ASSUME NEW i \in 1 .. k - 1
      PROVE  Fits(s[i], more[i - 1], cap) /\ more[i] = EndAfter(s[i], more[i - 1])
  <2>1. more[i] = ends[i] /\ more[i - 1] = ends[i - 1] /\ s[i] = steps[i] /\ i \in 1 .. Len(steps)
    BY <1>1
  <2> HIDE DEF more, s
  <2> QED
    BY <1>2, <2>1
<1> HIDE DEF more, s
<1>5. Follows(s, more, e, cap)
  BY <1>1, <1>3, <1>4 DEF Follows
<1> QED
  BY <1>1, <1>3, <1>5 DEF s

(* However steps that can be done end, the block is good.                  *)
LEMMA AttemptGood ==
  ASSUME NEW cap \in Nat, NEW b, Good(b, cap), NEW steps, NEW f, Legal(steps, b.end, f, cap),
         NEW op, NEW from, NEW to, NEW by, Attempt(op, from, to, by, b, steps)
  PROVE  Good(v', cap) /\ nothrow' = nothrow
<1>1. steps \in Seq(Steps) /\ Len(steps) \in Nat /\ DOMAIN steps = 1 .. Len(steps)
  BY DEF Legal
<1>2. PICK ends : Follows(steps, ends, b.end, cap)
  BY DEF Legal
<1>3. CASE End(op, from, to, by, Run(b, steps), FALSE)
  BY <1>1, <1>2, <1>3, RunGood DEF End
<1>4. ASSUME NEW k \in DOMAIN steps,
             End(op, from, to, by, Broken(Run(b, SubSeq(steps, 1, k - 1)), steps[k]), TRUE)
      PROVE  Good(v', cap) /\ nothrow' = nothrow
  <2> DEFINE s == SubSeq(steps, 1, k - 1)
  <2>1. k \in 1 .. Len(steps)
    BY <1>1
  <2>2. PICK more : Len(s) = k - 1 /\ Follows(s, more, b.end, cap) /\ more[k - 1] = ends[k - 1]
    BY <1>1, <1>2, <2>1, PrefixFollows
  <2> HIDE DEF s
  <2>3. Len(s) \in Nat /\ Len(s) = k - 1
    BY <2>1, <2>2
  <2>4. Good(Run(b, s), cap) /\ Run(b, s).end = more[Len(s)]
    BY <2>2, <2>3, RunGood
  <2>5. Fits(steps[k], ends[k - 1], cap)
    BY <1>2, <2>1 DEF Follows
  <2>6. Good(Broken(Run(b, s), steps[k]), cap)
    BY <2>2, <2>3, <2>4, <2>5, BrokenGood
  <2> QED
    BY <1>4, <2>6 DEF End, s
<1> QED
  BY <1>3, <1>4 DEF Attempt

-------------------------------------------------------------------------------
(* Which lists of steps can be done.                                       *)

(* How an operation is made up of legal steps.                             *)
LEMMA SeqIs ==
  ASSUME NEW n \in Nat, NEW S, NEW s, s = [k \in 1 .. n |-> s[k]], \A k \in 1 .. n : s[k] \in S
  PROVE  s \in Seq(S) /\ Len(s) = n
  OBVIOUS

LEMMA NoneLegal ==
  ASSUME NEW cap \in Nat, NEW e \in 0 .. cap
  PROVE  Legal(<<>>, e, e, cap)
<1> DEFINE ends == [k \in 0 .. 0 |-> e]
<1>1. <<>> \in Seq(Steps) /\ Len(<<>>) = 0
  OBVIOUS
<1>2. ends \in [0 .. 0 -> 0 .. cap] /\ ends[0] = e
  OBVIOUS
<1> HIDE DEF ends
<1>3. Follows(<<>>, ends, e, cap)
  BY <1>1, <1>2 DEF Follows
<1> QED
  BY <1>1, <1>2, <1>3 DEF Legal

LEMMA OneLegal ==
  ASSUME NEW cap \in Nat, NEW e \in 0 .. cap, NEW step, Fits(step, e, cap), EndAfter(step, e) \in 0 .. cap
  PROVE  Legal(<<step>>, e, EndAfter(step, e), cap)
<1> DEFINE f == EndAfter(step, e)
           ends == [k \in 0 .. 1 |-> IF k = 0 THEN e ELSE f]
<1>1. <<step>> \in Seq(Steps) /\ Len(<<step>>) = 1 /\ <<step>>[1] = step
  BY DEF Fits
<1>2. f \in 0 .. cap
  OBVIOUS
<1> HIDE DEF f
<1>3. ends \in [0 .. 1 -> 0 .. cap] /\ ends[0] = e /\ ends[1] = f
  BY <1>2
<1> HIDE DEF ends
<1>4. ASSUME NEW k \in 1 .. 1
      PROVE  Fits(<<step>>[k], ends[k - 1], cap) /\ ends[k] = EndAfter(<<step>>[k], ends[k - 1])
  <2>1. k = 1 /\ k - 1 = 0
    OBVIOUS
  <2> QED
    BY <1>1, <1>3, <2>1 DEF f
<1>5. Follows(<<step>>, ends, e, cap)
  BY <1>1, <1>3, <1>4 DEF Follows
<1>6. Legal(<<step>>, e, f, cap)
  BY <1>1, <1>3, <1>5 DEF Legal
<1> QED
  BY <1>6 DEF f

LEMMA ThenLegal ==
  ASSUME NEW cap \in Nat, NEW e, NEW f, NEW g, NEW s, NEW t,
         Legal(s, e, f, cap), Legal(t, f, g, cap)
  PROVE  Legal(s \o t, e, g, cap)
<1>1. s \in Seq(Steps) /\ t \in Seq(Steps)
  BY DEF Legal
<1>2. PICK d1 : Follows(s, d1, e, cap) /\ d1[Len(s)] = f
  BY DEF Legal
<1>3. PICK d2 : Follows(t, d2, f, cap) /\ d2[Len(t)] = g
  BY DEF Legal
<1> DEFINE m == Len(s)
           n == Len(t)
           ends == [k \in 0 .. m + n |-> IF k <= m THEN d1[k] ELSE d2[k - m]]
<1>4. m \in Nat /\ n \in Nat /\ s \o t \in Seq(Steps) /\ Len(s \o t) = m + n
  BY <1>1
<1>5. /\ d1 \in [0 .. m -> 0 .. cap] /\ d1[0] = e /\ d1[m] = f
      /\ \A k \in 1 .. m : Fits(s[k], d1[k - 1], cap) /\ d1[k] = EndAfter(s[k], d1[k - 1])
  BY <1>2 DEF Follows
<1>6. /\ d2 \in [0 .. n -> 0 .. cap] /\ d2[0] = f /\ d2[n] = g
      /\ \A k \in 1 .. n : Fits(t[k], d2[k - 1], cap) /\ d2[k] = EndAfter(t[k], d2[k - 1])
  BY <1>3 DEF Follows
<1>7. \A k \in 1 .. m : (s \o t)[k] = s[k]
  BY <1>1
<1>8. \A k \in m + 1 .. m + n : (s \o t)[k] = t[k - m]
  BY <1>1
<1> HIDE DEF m, n
<1>9. \A k \in 0 .. m : ends[k] = d1[k]
  BY <1>4
<1>10. \A k \in m .. m + n : ends[k] = d2[k - m]
  <2> SUFFICES ASSUME NEW k \in m .. m + n PROVE ends[k] = d2[k - m]
    OBVIOUS
  <2>1. CASE k = m
    <3>1. k - m = 0 /\ k \in 0 .. m + n
      BY <1>4, <2>1
    <3> QED
      BY <1>4, <1>5, <1>6, <2>1, <3>1
  <2>2. CASE k > m
    BY <1>4, <2>2
  <2> QED
    BY <1>4, <2>1, <2>2
<1>11. ends \in [0 .. m + n -> 0 .. cap]
  <2> SUFFICES ASSUME NEW k \in 0 .. m + n PROVE ends[k] \in 0 .. cap
    OBVIOUS
  <2> HIDE DEF ends
  <2>1. CASE k <= m
    BY <1>4, <1>5, <1>9, <2>1
  <2>2. CASE k > m
    <3>1. k \in m .. m + n /\ k - m \in 0 .. n
      BY <1>4, <2>2
    <3> QED
      BY <1>6, <1>10, <3>1
  <2> QED
    BY <1>4, <2>1, <2>2
<1> HIDE DEF ends
<1>12. ends[0] = e /\ ends[m + n] = g
  <2>1. 0 \in 0 .. m /\ m + n \in m .. m + n /\ (m + n) - m = n
    BY <1>4
  <2> QED
    BY <1>5, <1>6, <1>9, <1>10, <2>1
<1>13. ASSUME NEW k \in 1 .. m + n
       PROVE  Fits((s \o t)[k], ends[k - 1], cap) /\ ends[k] = EndAfter((s \o t)[k], ends[k - 1])
  <2>1. CASE k <= m
    <3>1. k \in 1 .. m /\ k \in 0 .. m /\ k - 1 \in 0 .. m
      BY <1>4, <2>1
    <3> QED
      BY <1>5, <1>7, <1>9, <3>1
  <2>2. CASE k > m
    <3>1. /\ k \in m + 1 .. m + n /\ k \in m .. m + n /\ k - 1 \in m .. m + n
          /\ k - m \in 1 .. n /\ (k - 1) - m = (k - m) - 1
      BY <1>4, <2>2
    <3>2. ends[k] = d2[k - m] /\ ends[k - 1] = d2[(k - m) - 1]
      BY <1>10, <3>1
    <3> QED
      BY <1>6, <1>8, <3>1, <3>2
  <2> QED
    BY <1>4, <2>1, <2>2
<1>14. Follows(s \o t, ends, e, cap)
  BY <1>4, <1>11, <1>12, <1>13 DEF Follows
<1> QED
  BY <1>4, <1>12, <1>14 DEF Legal

(* Steps that leave the end where it is.                                   *)
LEMMA FlatLegal ==
  ASSUME NEW cap \in Nat, NEW e \in 0 .. cap, NEW s \in Seq(Steps),
         \A k \in 1 .. Len(s) :
           Fits(s[k], e, cap) /\ s[k].do # "construct" /\ s[k].do # "destroy"
  PROVE  Legal(s, e, e, cap)
<1> DEFINE ends == [k \in 0 .. Len(s) |-> e]
<1>1. Len(s) \in Nat
  OBVIOUS
<1>2. ends \in [0 .. Len(s) -> 0 .. cap] /\ ends[0] = e /\ ends[Len(s)] = e
  BY <1>1
<1>3. ASSUME NEW k \in 1 .. Len(s)
      PROVE  Fits(s[k], ends[k - 1], cap) /\ ends[k] = EndAfter(s[k], ends[k - 1])
  <2>1. ends[k - 1] = e /\ ends[k] = e
    BY <1>1
  <2> QED
    BY <2>1 DEF EndAfter
<1> HIDE DEF ends
<1>4. Follows(s, ends, e, cap)
  BY <1>2, <1>3 DEF Follows
<1> QED
  BY <1>2, <1>4 DEF Legal

(* The single steps of which the operations are made.                      *)
LEMMA ConstructFits ==
  ASSUME NEW cap \in Nat, NEW e \in 0 .. cap, e < cap, NEW arg, Readable(arg, e)
  PROVE  Construct(arg) \in Steps /\ Fits(Construct(arg), e, cap) /\ EndAfter(Construct(arg), e) = e + 1
<1>1. arg \in Args
  BY DEF Readable
<1>2. Construct(arg) \in Steps
  BY <1>1 DEF Construct, Steps, StepKinds
<1>3. Construct(arg).do = "construct" /\ Construct(arg).arg = arg
  BY DEF Construct
<1> QED
  BY <1>2, <1>3 DEF Fits, EndAfter

LEMMA AssignFits ==
  ASSUME NEW cap \in Nat, NEW e \in 0 .. cap, NEW i \in 0 .. e - 1, NEW arg, Readable(arg, e)
  PROVE  /\ Assign(i, arg) \in Steps /\ Fits(Assign(i, arg), e, cap)
         /\ Assign(i, arg).do # "construct" /\ Assign(i, arg).do # "destroy"
<1>1. arg \in Args /\ i \in Int
  BY DEF Readable
<1>2. Assign(i, arg) \in Steps
  BY <1>1 DEF Assign, Steps, StepKinds
<1>3. Assign(i, arg).do = "assign" /\ Assign(i, arg).arg = arg /\ Assign(i, arg).to = i
  BY DEF Assign
<1> QED
  BY <1>2, <1>3 DEF Fits

LEMMA DestroyFits ==
  ASSUME NEW cap \in Nat, NEW e \in 1 .. cap
  PROVE  Destroy \in Steps /\ Fits(Destroy, e, cap) /\ EndAfter(Destroy, e) = e - 1
<1>1. Value(Default) \in Args /\ Value(Default).at = -1
  BY Constants DEF Value, Args
<1>2. Destroy \in Steps
  BY <1>1 DEF Destroy, Steps, StepKinds
<1>3. Destroy.do = "destroy" /\ Destroy.arg = Value(Default)
  BY DEF Destroy
<1>4. Readable(Destroy.arg, e)
  BY <1>1, <1>3 DEF Readable
<1> QED
  BY <1>2, <1>3, <1>4 DEF Fits, EndAfter

(* Elements are constructed one after the other at the end.                *)
LEMMA ConstructLegal ==
  ASSUME NEW cap \in Nat, NEW e \in 0 .. cap, NEW args, NEW n \in Nat, e + n <= cap,
         DOMAIN args = 1 .. n, \A k \in 1 .. n : Readable(args[k], e)
  PROVE  /\ ConstructAll(args) \in Seq(Steps) /\ Len(ConstructAll(args)) = n
         /\ Legal(ConstructAll(args), e, e + n, cap)
<1> DEFINE s == ConstructAll(args)
           ends == [k \in 0 .. n |-> e + k]
<1>1. ASSUME NEW k \in 1 .. n
      PROVE  /\ s[k] = Construct(args[k]) /\ Construct(args[k]) \in Steps
             /\ Fits(s[k], ends[k - 1], cap) /\ ends[k] = EndAfter(s[k], ends[k - 1])
  <2>1. s[k] = Construct(args[k])
    BY DEF ConstructAll
  <2>2. ends[k - 1] = e + (k - 1) /\ ends[k] = e + k /\ e + (k - 1) \in 0 .. cap /\ e + (k - 1) < cap
    OBVIOUS
  <2>3. Readable(args[k], e + (k - 1))
    BY DEF Readable, Args
  <2> HIDE DEF s, ends
  <2> QED
    BY <2>1, <2>2, <2>3, ConstructFits
<1>2. s = [k \in 1 .. n |-> Construct(args[k])]
  BY DEF ConstructAll
<1>3. s \in Seq(Steps) /\ Len(s) = n
  <2> HIDE DEF s
  <2>1. \A k \in 1 .. n : Construct(args[k]) \in Steps
    BY <1>1
  <2> QED
    BY <1>2, <2>1
<1>4. ends \in [0 .. n -> 0 .. cap] /\ ends[0] = e /\ ends[n] = e + n
  OBVIOUS
<1> HIDE DEF s, ends
<1>5. Follows(s, ends, e, cap)
  BY <1>1, <1>3, <1>4 DEF Follows
<1>6. Legal(s, e, e + n, cap)
  BY <1>3, <1>4, <1>5 DEF Legal
<1> QED
  BY <1>3, <1>6 DEF s

(* The end is destroyed back to f, one element at a time.                  *)
LEMMA DestroyLegal ==
  ASSUME NEW cap \in Nat, NEW e \in 0 .. cap, NEW n \in 0 .. e
  PROVE  Legal(DestroyLast(n), e, e - n, cap)
<1> DEFINE s == DestroyLast(n)
           ends == [k \in 0 .. n |-> e - k]
<1>1. s = [k \in 1 .. n |-> Destroy] /\ n \in Nat
  BY DEF DestroyLast
<1>2. ASSUME NEW k \in 1 .. n
      PROVE  s[k] \in Steps /\ Fits(s[k], ends[k - 1], cap) /\ ends[k] = EndAfter(s[k], ends[k - 1])
  <2>1. s[k] = Destroy
    BY <1>1
  <2>2. ends[k - 1] = e - (k - 1) /\ ends[k] = e - k /\ e - (k - 1) \in 1 .. cap /\ (e - (k - 1)) - 1 = e - k
    OBVIOUS
  <2> HIDE DEF s, ends
  <2> QED
    BY <2>1, <2>2, DestroyFits
<1>3. s \in Seq(Steps) /\ Len(s) = n
  <2> HIDE DEF s
  <2>1. \A k \in 1 .. n : Destroy \in Steps
    BY <1>1, <1>2
  <2> QED
    BY <1>1, <2>1
<1>4. ends \in [0 .. n -> 0 .. cap] /\ ends[0] = e /\ ends[n] = e - n
  OBVIOUS
<1> HIDE DEF s, ends
<1>5. Follows(s, ends, e, cap)
  BY <1>2, <1>3, <1>4 DEF Follows
<1>6. Legal(s, e, e - n, cap)
  BY <1>3, <1>4, <1>5 DEF Legal
<1> QED
  BY <1>6 DEF s

-------------------------------------------------------------------------------
(* The steps of an insertion into the room there is can be done.           *)

(* Arguments of the operations are readable as long as no step went below  *)
(* them.                                                                   *)
LEMMA ElementReadable ==
  ASSUME NEW e \in Nat, NEW i \in 0 .. e - 1
  PROVE  /\ Readable(ElementAt(i), e) /\ Readable(Moved(ElementAt(i)), e)
         /\ ElementAt(i).at = i /\ Moved(ElementAt(i)).at = i
<1>1. ElementAt(i) \in Args /\ ElementAt(i).at = i
  BY Constants DEF ElementAt, Args
<1>2. Moved(ElementAt(i)) \in Args /\ Moved(ElementAt(i)).at = i
  BY <1>1 DEF Moved, Args
<1> QED
  BY <1>1, <1>2 DEF Readable

LEMMA ValueReadable ==
  ASSUME NEW e \in Nat, NEW x \in Lives
  PROVE  Readable(Value(x), e) /\ Readable(Moved(Value(x)), e)
<1>1. Value(x) \in Args /\ Value(x).at = -1
  BY DEF Value, Args
<1>2. Moved(Value(x)) \in Args /\ Moved(Value(x)).at = -1
  BY <1>1 DEF Moved, Args
<1> QED
  BY <1>1, <1>2 DEF Readable

LEMMA FollowedReadable ==
  ASSUME NEW e \in Nat, NEW at \in Nat, NEW n \in Nat, NEW arg, Readable(arg, e)
  PROVE  Readable(Followed(arg, at, n), e + n)
<1>1. arg \in Args /\ arg.at \in Int /\ arg.at < e
  BY DEF Readable, Args
<1>2. CASE arg.at >= at
  <2>1. arg.at + n \in Int /\ arg.at + n < e + n
    BY <1>1
  <2>2. [arg EXCEPT !.at = arg.at + n] \in Args /\ [arg EXCEPT !.at = arg.at + n].at = arg.at + n
    BY <1>1, <2>1 DEF Args
  <2> QED
    BY <1>2, <2>1, <2>2 DEF Followed, Readable
<1>3. CASE ~(arg.at >= at)
  <2>1. arg.at < e + n
    BY <1>1
  <2> QED
    BY <1>1, <1>3, <2>1 DEF Followed, Readable
<1> QED
  BY <1>2, <1>3

(* The elements from at to the end e move n on; the end is at e + n - r,   *)
(* and the r elements that come to lie beyond it are constructed there.    *)
LEMMA MoveLegal ==
  ASSUME NEW cap \in Nat, NEW e \in 0 .. cap, NEW at \in 0 .. e, NEW n \in Nat, NEW r \in 0 .. n,
         r <= e - at, n > e - at => r = e - at, n <= e - at => r = n, e + n <= cap
  PROVE  Legal(MoveRange(at, e, at + n, e + n - r), e + n - r, e + n, cap)
<1> DEFINE m == e + n - r
           k0 == m - (at + n)
           args == [k \in 1 .. r |-> Moved(ElementAt(at + k0 + k - 1))]
           down == [k \in 1 .. k0 |-> Assign(m - k, Moved(ElementAt(at + k0 - k)))]
<1>1. m \in 0 .. cap /\ m + r <= cap /\ m + r = e + n /\ k0 = e - at - r /\ k0 \in Nat /\ r \in Nat
      /\ (e - at) - k0 = r /\ m + r \in 0 .. cap
  OBVIOUS
<1>2. MoveRange(at, e, at + n, m) = ConstructAll(args) \o down
  <2>1. [k \in 1 .. r |-> Construct(Moved(ElementAt(at + k0 + k - 1)))] = ConstructAll(args)
    BY DEF ConstructAll
  <2>2. e - at - k0 = r
    BY <1>1
  <2>3. MoveRange(at, e, at + n, m) =
          [k \in 1 .. e - at - k0 |-> Construct(Moved(ElementAt(at + k0 + k - 1)))] \o down
    BY DEF MoveRange
  <2> QED
    BY <2>1, <2>2, <2>3
<1>3. ASSUME NEW k \in 1 .. r PROVE Readable(args[k], m)
  <2>1. at + k0 + k - 1 \in 0 .. m - 1
    BY <1>1
  <2>2. Readable(Moved(ElementAt(at + k0 + k - 1)), m)
    BY <1>1, <2>1, ElementReadable
  <2> QED
    BY <2>2
<1>4. ASSUME NEW k \in 1 .. k0
      PROVE  /\ down[k] \in Steps /\ Fits(down[k], m + r, cap)
             /\ down[k].do # "construct" /\ down[k].do # "destroy"
  <2>1. m - k \in 0 .. (m + r) - 1 /\ at + k0 - k \in 0 .. (m + r) - 1 /\ m + r \in Nat
    BY <1>1
  <2>2. Readable(Moved(ElementAt(at + k0 - k)), m + r)
    BY <2>1, ElementReadable
  <2>3. down[k] = Assign(m - k, Moved(ElementAt(at + k0 - k)))
    OBVIOUS
  <2> QED
    BY <1>1, <2>1, <2>2, <2>3, AssignFits
<1>5. Legal(ConstructAll(args), m, m + r, cap)
  <2>1. DOMAIN args = 1 .. r
    OBVIOUS
  <2> HIDE DEF args, m, k0
  <2> QED
    BY <1>1, <1>3, <2>1, ConstructLegal
<1>6. Legal(down, m + r, m + r, cap)
  <2>1. down = [k \in 1 .. k0 |-> down[k]]
    OBVIOUS
  <2> HIDE DEF down, m, k0
  <2>2. down \in Seq(Steps) /\ Len(down) = k0
    BY <1>1, <1>4, <2>1, SeqIs
  <2> QED
    BY <1>1, <1>4, <2>2, FlatLegal
<1> HIDE DEF args, down
<1>7. Legal(ConstructAll(args) \o down, m, m + r, cap)
  BY <1>5, <1>6, ThenLegal
<1> QED
  BY <1>1, <1>2, <1>7

(* The steps of insert: elements after the place are moved up, then the    *)
(* new ones assigned or constructed.                                       *)
LEMMA InsertLegal ==
  ASSUME NEW cap \in Nat, NEW e \in 0 .. cap, NEW at \in 0 .. e, NEW args \in Seq(Args),
         e + Len(args) <= cap, \A k \in 1 .. Len(args) : Readable(args[k], e)
  PROVE  Legal(InsertSteps(e, at, args), e, e + Len(args), cap)
<1> DEFINE n == Len(args)
           r == IF n > e - at THEN e - at ELSE n
           new == SubSeq(args, r + 1, n)
           move == IF r = 0 THEN <<>> ELSE MoveRange(at, e, at + n, e + n - r)
           over == [k \in 1 .. r |-> Assign(at + k - 1, Followed(args[k], at, n))]
<1>1. /\ n \in Nat /\ r \in 0 .. n /\ r <= e - at /\ (n > e - at => r = e - at) /\ (n <= e - at => r = n)
      /\ e + n - r \in 0 .. cap /\ e + n \in 0 .. cap /\ n - r \in Nat /\ e + n <= cap
  OBVIOUS
<1>2. InsertSteps(e, at, args) = ConstructAll(new) \o move \o over
  BY DEF InsertSteps
<1> HIDE DEF r
<1>3. Legal(ConstructAll(new), e, e + n - r, cap)
  <2>1. Len(new) = n - r /\ DOMAIN new = 1 .. n - r /\ \A k \in 1 .. n - r : new[k] = args[k + r]
    BY <1>1
  <2>2. ASSUME NEW k \in 1 .. n - r PROVE Readable(new[k], e)
    <3>1. k + r \in 1 .. n
      BY <1>1
    <3> QED
      BY <2>1, <3>1
  <2>3. e + (n - r) <= cap /\ e + (n - r) = e + n - r
    BY <1>1
  <2> HIDE DEF new, n
  <2> QED
    BY <1>1, <2>1, <2>2, <2>3, ConstructLegal
<1>4. Legal(move, e + n - r, e + n, cap)
  <2>1. CASE r = 0
    BY <1>1, <2>1, NoneLegal
  <2>2. CASE r # 0
    <3>1. Legal(MoveRange(at, e, at + n, e + n - r), e + n - r, e + n, cap)
      <4> HIDE DEF n
      <4> QED
        BY <1>1, MoveLegal
    <3> QED
      BY <2>2, <3>1
  <2> QED
    BY <2>1, <2>2
<1>5. Legal(over, e + n, e + n, cap)
  <2>1. ASSUME NEW k \in 1 .. r
        PROVE  /\ over[k] \in Steps /\ Fits(over[k], e + n, cap)
               /\ over[k].do # "construct" /\ over[k].do # "destroy"
    <3>1. Readable(args[k], e) /\ e \in Nat /\ at \in Nat
      BY <1>1
    <3>2. Readable(Followed(args[k], at, n), e + n)
      BY <1>1, <3>1, FollowedReadable
    <3>3. at + k - 1 \in 0 .. (e + n) - 1
      BY <1>1
    <3>4. over[k] = Assign(at + k - 1, Followed(args[k], at, n))
      OBVIOUS
    <3> HIDE DEF over, n
    <3> QED
      BY <1>1, <3>2, <3>3, <3>4, AssignFits
  <2>2. over = [k \in 1 .. r |-> over[k]]
    OBVIOUS
  <2> HIDE DEF over, n
  <2>3. r \in Nat /\ \A k \in 1 .. r : over[k] \in Steps
    BY <1>1, <2>1
  <2>4. over \in Seq(Steps) /\ Len(over) = r
    BY <2>2, <2>3, SeqIs
  <2> QED
    BY <1>1, <2>1, <2>4, FlatLegal
<1> HIDE DEF new, move, over, n
<1>6. Legal(ConstructAll(new) \o move \o over, e, e + n, cap)
  BY <1>3, <1>4, <1>5, ThenLegal
<1> QED
  BY <1>2, <1>6 DEF n

-------------------------------------------------------------------------------
(* Each operation leaves a good block.                                     *)

Kept == (\E c \in 0 .. MaxSize : Good(v', c)) /\ nothrow' = nothrow

(* The sizes the operations compute.                                       *)
LEMMA SizeIs ==
  ASSUME NEW cap \in 0 .. MaxSize, Good(v, cap)
  PROVE  /\ cap \in Nat /\ size \in 0 .. cap /\ size \in Nat /\ capacity = cap
         /\ contents \in Seq(Lives) /\ Len(contents) = size
<1>1. cap \in Nat
  BY Constants
<1>2. v.end \in 0 .. cap
  BY <1>1, GoodHas
<1>3. Capacity(v) = cap
  BY <1>1, CapacityIs
<1>4. Contents(v) \in Seq(Lives) /\ Len(Contents(v)) = v.end
  BY <1>1, ContentsAre
<1> QED
  BY <1>1, <1>2, <1>3, <1>4 DEF size, capacity, contents

LEMMA RecommendIs ==
  ASSUME NEW c \in Nat, NEW n \in Nat
  PROVE  Recommend(c, n) \in Nat /\ Recommend(c, n) >= n
  BY Constants DEF Recommend

(* An operation in place, done or stopped by a throw.                      *)
LEMMA AttemptKept ==
  ASSUME NEW cap \in 0 .. MaxSize, NEW b, Good(b, cap), NEW steps, NEW f, Legal(steps, b.end, f, cap),
         NEW op, NEW from, NEW to, NEW by, Attempt(op, from, to, by, b, steps)
  PROVE  Kept
<1>1. cap \in Nat
  BY Constants
<1>2. Good(v', cap) /\ nothrow' = nothrow
  BY <1>1, AttemptGood
<1> QED
  BY <1>2 DEF Kept

(* An operation in a new block: the old one is kept when it throws.        *)
LEMMA RegrowKept ==
  ASSUME NEW cap \in 0 .. MaxSize, Good(v, cap), NEW op, NEW to \in Nat, NEW at \in 0 .. size,
         NEW xs \in Seq(Lives), to >= size + Len(xs), Regrow(op, to, at, xs)
  PROVE  Kept
<1> DEFINE new == SubSeq(contents, 1, at) \o xs \o SubSeq(contents, at + 1, size)
<1>1. cap \in Nat /\ size \in Nat /\ contents \in Seq(Lives) /\ Len(contents) = size
  BY SizeIs
<1>2. new \in Seq(Lives) /\ Len(new) = size + Len(xs)
  <2>1. SubSeq(contents, 1, at) \in Seq(Lives) /\ Len(SubSeq(contents, 1, at)) = at
    BY <1>1
  <2>2. /\ SubSeq(contents, at + 1, size) \in Seq(Lives)
        /\ Len(SubSeq(contents, at + 1, size)) = size - at
    BY <1>1
  <2>3. /\ SubSeq(contents, 1, at) \o xs \in Seq(Lives)
        /\ Len(SubSeq(contents, 1, at) \o xs) = at + Len(xs)
    BY <2>1
  <2>4. new \in Seq(Lives) /\ Len(new) = (at + Len(xs)) + (size - at)
    BY <2>2, <2>3
  <2>5. (at + Len(xs)) + (size - at) = size + Len(xs)
    BY <1>1
  <2> QED
    BY <2>4, <2>5
<1> HIDE DEF new
<1>3. CASE to <= MaxSize /\ End(op, at, at, xs, Holding(new, to), FALSE)
  <2>1. to \in 0 .. MaxSize /\ Len(new) <= to
    BY <1>1, <1>2, <1>3, Constants
  <2>2. Good(Holding(new, to), to)
    BY <1>2, <2>1, HoldingGood
  <2> QED
    BY <1>3, <2>1, <2>2 DEF End, Kept
<1>4. CASE End(op, at, at, xs, v, TRUE)
  BY <1>4 DEF End, Kept
<1> QED
  BY <1>3, <1>4 DEF Regrow, new

(* What a list of arguments is worth.                                      *)
LEMMA ReadAllLives ==
  ASSUME NEW cap \in 0 .. MaxSize, Good(v, cap), NEW args \in Seq(Args),
         \A k \in 1 .. Len(args) : Readable(args[k], size)
  PROVE  ReadAll(args) \in Seq(Lives) /\ Len(ReadAll(args)) = Len(args)
<1>1. cap \in Nat
  BY SizeIs
<1>2. \A k \in 1 .. Len(args) : Read(v, args[k]) \in Lives
  BY <1>1, ReadLives DEF size
<1>3. Len(args) \in Nat /\ DOMAIN args = 1 .. Len(args)
  OBVIOUS
<1> QED
  BY <1>2, <1>3 DEF ReadAll

LEMMA ArgumentReadable ==
  ASSUME NEW cap \in 0 .. MaxSize, Good(v, cap), NEW arg \in Arguments
  PROVE  arg \in Args /\ Readable(arg, size)
<1>1. size \in Nat
  BY SizeIs
<1>2. \A x \in Values : Readable(Value(x), size) /\ Readable(Moved(Value(x)), size)
  BY <1>1, Constants, ValueReadable
<1>3. \A i \in 0 .. size - 1 : Readable(ElementAt(i), size)
  BY <1>1, ElementReadable
<1>4. Readable(arg, size)
  BY <1>2, <1>3 DEF Arguments
<1> QED
  BY <1>4 DEF Readable

LEMMA ValuesReadable ==
  ASSUME NEW xs \in Seq(Lives), NEW e \in Nat
  PROVE  /\ AsValues(xs) \in Seq(Args) /\ Len(AsValues(xs)) = Len(xs)
         /\ \A k \in 1 .. Len(xs) : Readable(AsValues(xs)[k], e)
         /\ AsMoved(xs) \in Seq(Args) /\ Len(AsMoved(xs)) = Len(xs)
         /\ \A k \in 1 .. Len(xs) : Readable(AsMoved(xs)[k], e)
<1>1. Len(xs) \in Nat /\ DOMAIN xs = 1 .. Len(xs)
  OBVIOUS
<1>2. \A k \in 1 .. Len(xs) : xs[k] \in Lives
  OBVIOUS
<1>3. \A k \in 1 .. Len(xs) : Readable(Value(xs[k]), e) /\ Readable(Moved(Value(xs[k])), e)
  BY <1>2, ValueReadable
<1>4. \A k \in 1 .. Len(xs) : Value(xs[k]) \in Args /\ Moved(Value(xs[k])) \in Args
  BY <1>3 DEF Readable
<1>5. AsValues(xs) = [k \in 1 .. Len(xs) |-> Value(xs[k])]
  BY <1>1 DEF AsValues
<1>6. AsMoved(xs) = [k \in 1 .. Len(xs) |-> Moved(Value(xs[k]))]
  BY <1>1 DEF AsMoved
<1> QED
  BY <1>1, <1>3, <1>4, <1>5, <1>6

LEMMA RangeLives ==
  ASSUME NEW xs \in Ranges
  PROVE  xs \in Seq(Lives)
<1>1. PICK n \in 0 .. MaxArgs : xs \in [1 .. n -> Values]
  BY DEF Ranges
<1>2. n \in Nat
  BY Constants
<1>3. xs \in Seq(Values)
  BY <1>1, <1>2
<1> QED
  BY <1>3, Constants

(* One lemma per operation: whether it is done or throws, the vector is    *)
(* good after it.                                                          *)
LEMMA InsertKept ==
  ASSUME NEW cap \in 0 .. MaxSize, Good(v, cap), NEW at \in 0 .. size, NEW args \in Seq(Args),
         \A k \in 1 .. Len(args) : Readable(args[k], size), Insert(at, args)
  PROVE  Kept
<1>1. cap \in Nat /\ size \in 0 .. cap /\ size \in Nat /\ capacity = cap /\ Len(args) \in Nat
  BY SizeIs
<1>2. CASE size + Len(args) <= capacity
  <2>1. Legal(InsertSteps(size, at, args), size, size + Len(args), cap)
    BY <1>1, <1>2, InsertLegal
  <2>2. Attempt("insert", at, at, ReadAll(args), v, InsertSteps(size, at, args))
    BY <1>2 DEF Insert
  <2> QED
    BY <2>1, <2>2, AttemptKept DEF size
<1>3. CASE ~(size + Len(args) <= capacity)
  <2>1. ReadAll(args) \in Seq(Lives) /\ Len(ReadAll(args)) = Len(args)
    BY ReadAllLives
  <2>2. Recommended(Len(args)) \in Nat /\ Recommended(Len(args)) >= size + Len(args)
    <3>1. size + Len(args) \in Nat /\ capacity \in Nat
      BY <1>1
    <3> QED
      BY <3>1, RecommendIs DEF Recommended
  <2>3. Regrow("insert", Recommended(Len(args)), at, ReadAll(args))
    BY <1>3 DEF Insert
  <2> QED
    BY <2>1, <2>2, <2>3, RegrowKept
<1> QED
  BY <1>2, <1>3

LEMMA PushBackKept ==
  ASSUME NEW cap \in 0 .. MaxSize, Good(v, cap), NEW arg \in Arguments, PushBack(arg)
  PROVE  Kept
<1>1. cap \in Nat /\ size \in 0 .. cap /\ size \in Nat /\ capacity = cap
  BY SizeIs
<1>2. arg \in Args /\ Readable(arg, size)
  BY ArgumentReadable
<1>3. CASE size < capacity
  <2>1. Fits(Construct(arg), size, cap) /\ EndAfter(Construct(arg), size) = size + 1 /\ size + 1 \in 0 .. cap
    BY <1>1, <1>2, <1>3, ConstructFits
  <2>2. Legal(<<Construct(arg)>>, size, size + 1, cap)
    BY <1>1, <2>1, OneLegal
  <2>3. Attempt("push_back", size, size, ReadAll(<<arg>>), v, <<Construct(arg)>>)
    BY <1>3 DEF PushBack
  <2> QED
    BY <2>2, <2>3, AttemptKept DEF size
<1>4. CASE ~(size < capacity)
  <2>1. <<arg>> \in Seq(Args) /\ Len(<<arg>>) = 1 /\ \A k \in 1 .. 1 : Readable(<<arg>>[k], size)
    BY <1>2
  <2>2. ReadAll(<<arg>>) \in Seq(Lives) /\ Len(ReadAll(<<arg>>)) = 1
    BY <2>1, ReadAllLives
  <2>3. Recommended(1) \in Nat /\ Recommended(1) >= size + 1
    <3>1. size + 1 \in Nat /\ capacity \in Nat
      BY <1>1
    <3> QED
      BY <3>1, RecommendIs DEF Recommended
  <2>4. Regrow("push_back", Recommended(1), size, ReadAll(<<arg>>)) /\ size \in 0 .. size
    BY <1>1, <1>4 DEF PushBack
  <2> QED
    BY <2>2, <2>3, <2>4, RegrowKept
<1> QED
  BY <1>3, <1>4

LEMMA PopBackKept ==
  ASSUME NEW cap \in 0 .. MaxSize, Good(v, cap), PopBack
  PROVE  Kept
<1>1. cap \in Nat /\ size \in 0 .. cap
  BY SizeIs
<1>2. size > 0 /\ Attempt("pop_back", size - 1, size, <<>>, v, <<Destroy>>)
  BY DEF PopBack
<1>3. size \in 1 .. cap /\ size - 1 \in 0 .. cap
  BY <1>1, <1>2
<1>4. Legal(<<Destroy>>, size, size - 1, cap)
  BY <1>1, <1>3, OneLegal, DestroyFits
<1> QED
  BY <1>2, <1>4, AttemptKept DEF size

(* An element is moved out, and the last one is destroyed.                 *)
LEMMA TemporaryFits ==
  ASSUME NEW cap \in Nat, NEW e \in 0 .. cap, NEW arg, Readable(arg, e)
  PROVE  /\ Temporary(arg) \in Steps /\ Fits(Temporary(arg), e, cap) /\ EndAfter(Temporary(arg), e) = e
<1>1. arg \in Args
  BY DEF Readable
<1>2. Temporary(arg) \in Steps
  BY <1>1 DEF Temporary, Steps, StepKinds
<1>3. Temporary(arg).do = "temporary" /\ Temporary(arg).arg = arg
  BY DEF Temporary
<1> QED
  BY <1>2, <1>3 DEF Fits, EndAfter

LEMMA PopBackValueKept ==
  ASSUME NEW cap \in 0 .. MaxSize, Good(v, cap), PopBackValue
  PROVE  Kept
<1> DEFINE back == ElementAt(size - 1)
           arg == IF nothrow THEN Moved(back) ELSE back
<1>1. cap \in Nat /\ size \in 0 .. cap
  BY SizeIs
<1>2. size > 0 /\ Attempt("pop_back_value", size - 1, size, <<>>, v, <<Temporary(arg), Destroy>>)
  BY DEF PopBackValue
<1>3. size \in 1 .. cap /\ size - 1 \in 0 .. cap /\ size \in Nat /\ size - 1 \in 0 .. size - 1
  BY <1>1, <1>2
<1>4. Readable(arg, size)
  BY <1>3, ElementReadable
<1> HIDE DEF arg
<1>5. Legal(<<Temporary(arg)>>, size, size, cap)
  <2>1. Fits(Temporary(arg), size, cap) /\ EndAfter(Temporary(arg), size) = size
    BY <1>1, <1>4, TemporaryFits
  <2> QED
    BY <1>1, <2>1, OneLegal
<1>6. Legal(<<Destroy>>, size, size - 1, cap)
  BY <1>1, <1>3, OneLegal, DestroyFits
<1>7. <<Temporary(arg), Destroy>> = <<Temporary(arg)>> \o <<Destroy>>
  OBVIOUS
<1>8. Legal(<<Temporary(arg), Destroy>>, size, size - 1, cap)
  BY <1>1, <1>5, <1>6, <1>7, ThenLegal
<1> QED
  BY <1>2, <1>8, AttemptKept DEF size

LEMMA EmplaceKept ==
  ASSUME NEW cap \in 0 .. MaxSize, Good(v, cap), NEW at \in 0 .. size, NEW x \in Values, Emplace(at, x)
  PROVE  Kept
<1> DEFINE temporary == IF at = size THEN <<>> ELSE <<Temporary(Value(x))>>
           arg == IF at = size THEN Value(x) ELSE Moved(Value(x))
<1>1. cap \in Nat /\ size \in 0 .. cap /\ size \in Nat /\ capacity = cap /\ x \in Lives
  BY SizeIs, Constants
<1>2. Readable(Value(x), size) /\ Readable(arg, size)
  BY <1>1, ValueReadable
<1>3. CASE size < capacity
  <2>1. Legal(temporary, size, size, cap)
    <3>1. CASE at = size
      BY <1>1, <3>1, NoneLegal
    <3>2. CASE at # size
      <4>1. Fits(Temporary(Value(x)), size, cap) /\ EndAfter(Temporary(Value(x)), size) = size
        BY <1>1, <1>2, TemporaryFits
      <4>2. Legal(<<Temporary(Value(x))>>, size, size, cap)
        BY <1>1, <4>1, OneLegal
      <4> QED
        BY <3>2, <4>2
    <3> QED
      BY <3>1, <3>2
  <2> HIDE DEF temporary, arg
  <2>2. /\ <<arg>> \in Seq(Args) /\ Len(<<arg>>) = 1
        /\ \A k \in 1 .. Len(<<arg>>) : Readable(<<arg>>[k], size)
    BY <1>2 DEF Readable
  <2>3. size + Len(<<arg>>) <= cap
    BY <1>1, <1>3, <2>2
  <2>4. Legal(InsertSteps(size, at, <<arg>>), size, size + Len(<<arg>>), cap)
    BY <1>1, <2>2, <2>3, InsertLegal
  <2>5. Legal(temporary \o InsertSteps(size, at, <<arg>>), size, size + Len(<<arg>>), cap)
    BY <1>1, <2>1, <2>4, ThenLegal
  <2>6. Attempt("emplace", at, at, <<x>>, v, temporary \o InsertSteps(size, at, <<arg>>))
    BY <1>3 DEF Emplace, temporary, arg
  <2> QED
    BY <2>5, <2>6, AttemptKept DEF size
<1>4. CASE ~(size < capacity)
  <2>1. <<x>> \in Seq(Lives) /\ Len(<<x>>) = 1
    BY <1>1
  <2>2. Recommended(1) \in Nat /\ Recommended(1) >= size + 1
    <3>1. size + 1 \in Nat /\ capacity \in Nat
      BY <1>1
    <3> QED
      BY <3>1, RecommendIs DEF Recommended
  <2>3. Regrow("emplace", Recommended(1), at, <<x>>)
    BY <1>4 DEF Emplace
  <2> QED
    BY <2>1, <2>2, <2>3, RegrowKept
<1> QED
  BY <1>3, <1>4

LEMMA EraseKept ==
  ASSUME NEW cap \in 0 .. MaxSize, Good(v, cap), NEW from \in 0 .. size, NEW to \in 0 .. size,
         Erase(from, to)
  PROVE  Kept
<1> DEFINE moves == [k \in 1 .. size - to |-> Assign(from + k - 1, Moved(ElementAt(to + k - 1)))]
<1>1. cap \in Nat /\ size \in 0 .. cap /\ size \in Nat /\ from < to /\ size - to \in Nat
  BY SizeIs DEF Erase
<1>2. ASSUME NEW k \in 1 .. size - to
      PROVE  /\ moves[k] \in Steps /\ Fits(moves[k], size, cap)
             /\ moves[k].do # "construct" /\ moves[k].do # "destroy"
  <2>1. from + k - 1 \in 0 .. size - 1 /\ to + k - 1 \in 0 .. size - 1
    BY <1>1
  <2>2. Readable(Moved(ElementAt(to + k - 1)), size)
    BY <1>1, <2>1, ElementReadable
  <2>3. moves[k] = Assign(from + k - 1, Moved(ElementAt(to + k - 1)))
    OBVIOUS
  <2> QED
    BY <1>1, <2>1, <2>2, <2>3, AssignFits
<1>3. moves = [k \in 1 .. size - to |-> moves[k]]
  OBVIOUS
<1>4. Attempt("erase", from, to, <<>>, v, moves \o DestroyLast(to - from))
  BY DEF Erase
<1> HIDE DEF moves
<1>5. moves \in Seq(Steps) /\ Len(moves) = size - to
  <2>1. \A k \in 1 .. size - to : moves[k] \in Steps
    BY <1>2
  <2> QED
    BY <1>1, <1>3, <2>1, SeqIs
<1>6. Legal(moves, size, size, cap)
  BY <1>1, <1>2, <1>5, FlatLegal
<1>7. Legal(DestroyLast(to - from), size, size - (to - from), cap)
  <2>1. to - from \in 0 .. size
    BY <1>1
  <2> QED
    BY <1>1, <2>1, DestroyLegal
<1>8. Legal(moves \o DestroyLast(to - from), size, size - (to - from), cap)
  BY <1>1, <1>6, <1>7, ThenLegal
<1> QED
  BY <1>4, <1>8, AttemptKept DEF size

(* append adds copies of a value.                                          *)
LEMMA CopiesAre ==
  ASSUME NEW n \in Nat, NEW arg \in Args
  PROVE  LET args == [k \in 1 .. n |-> arg]
         IN  args \in Seq(Args) /\ Len(args) = n /\ DOMAIN args = 1 .. n /\ \A k \in 1 .. n : args[k] = arg
  OBVIOUS

LEMMA AppendKept ==
  ASSUME NEW cap \in 0 .. MaxSize, Good(v, cap), NEW n \in 1 .. MaxArgs, NEW arg \in Arguments,
         AppendCopies(n, arg)
  PROVE  Kept
<1> DEFINE args == [k \in 1 .. n |-> arg]
<1>1. cap \in Nat /\ size \in 0 .. cap /\ size \in Nat /\ capacity = cap /\ n \in Nat
  BY SizeIs, Constants
<1>2. arg \in Args /\ Readable(arg, size)
  BY ArgumentReadable
<1>3. args \in Seq(Args) /\ Len(args) = n /\ DOMAIN args = 1 .. n /\ \A k \in 1 .. n : Readable(args[k], size)
  BY <1>1, <1>2, CopiesAre
<1>4. CASE size + n <= capacity
  <2>1. Attempt("append", size, size, ReadAll(args), v, ConstructAll(args))
    BY <1>4 DEF AppendCopies
  <2> HIDE DEF args
  <2>2. Legal(ConstructAll(args), size, size + n, cap)
    BY <1>1, <1>3, <1>4, ConstructLegal
  <2> QED
    BY <2>1, <2>2, AttemptKept DEF size
<1>5. CASE ~(size + n <= capacity)
  <2>1. Regrow("append", Recommended(n), size, ReadAll(args))
    BY <1>5 DEF AppendCopies
  <2> HIDE DEF args
  <2>2. ReadAll(args) \in Seq(Lives) /\ Len(ReadAll(args)) = n
    BY <1>3, ReadAllLives
  <2>3. Recommended(n) \in Nat /\ Recommended(n) >= size + n
    <3>1. size + n \in Nat /\ capacity \in Nat
      BY <1>1
    <3> QED
      BY <3>1, RecommendIs DEF Recommended
  <2>4. size \in 0 .. size /\ Recommended(n) >= size + Len(ReadAll(args))
    BY <1>1, <2>2, <2>3
  <2> QED
    BY <2>1, <2>2, <2>3, <2>4, RegrowKept
<1> QED
  BY <1>4, <1>5

LEMMA ShrinkKept ==
  ASSUME NEW cap \in 0 .. MaxSize, Good(v, cap), NEW n \in 0 .. size, Shrink(n)
  PROVE  Kept
<1>1. cap \in Nat /\ size \in 0 .. cap
  BY SizeIs
<1>2. size - n \in 0 .. size
  BY <1>1
<1>3. Legal(DestroyLast(size - n), size, size - (size - n), cap)
  BY <1>1, <1>2, DestroyLegal
<1>4. Attempt("shrink", n, size, <<>>, v, DestroyLast(size - n))
  BY DEF Shrink
<1> QED
  BY <1>3, <1>4, AttemptKept DEF size

LEMMA ReserveKept ==
  ASSUME NEW cap \in 0 .. MaxSize, Good(v, cap), NEW n \in 0 .. MaxSize + 1, Reserve(n)
  PROVE  Kept
<1>1. cap \in Nat /\ size \in 0 .. cap /\ size \in Nat /\ capacity = cap
  BY SizeIs
<1>2. n > capacity /\ Regrow("reserve", n, size, <<>>)
  BY DEF Reserve
<1>3. <<>> \in Seq(Lives) /\ Len(<<>>) = 0 /\ size \in 0 .. size /\ n \in Nat /\ n >= size + 0
  BY <1>1, <1>2
<1> QED
  BY <1>2, <1>3, RegrowKept

LEMMA ShrinkToFitKept ==
  ASSUME NEW cap \in 0 .. MaxSize, Good(v, cap), ShrinkToFit
  PROVE  Kept
<1>1. size \in 0 .. cap /\ size \in Nat /\ contents \in Seq(Lives) /\ Len(contents) = size
  BY SizeIs
<1>2. PICK b \in {v, Holding(contents, size)} : v' = b /\ nothrow' = nothrow
  BY DEF ShrinkToFit, End
<1>3. size \in 0 .. MaxSize
  BY <1>1, Constants
<1>4. Good(Holding(contents, size), size)
  BY <1>1, HoldingGood
<1> QED
  BY <1>2, <1>3, <1>4 DEF Kept

(* A vector that never had a block.                                        *)
LEMMA NullGood == Good(Null, 0) /\ Null.end = 0
<1>1. <<>> \in Seq(Lives) /\ Len(<<>>) = 0 /\ Len(<<>>) <= 0
  OBVIOUS
<1>2. Good(Holding(<<>>, 0), 0) /\ Holding(<<>>, 0).end = Len(<<>>)
  BY <1>1, HoldingGood
<1> QED
  BY <1>1, <1>2 DEF Null

LEMMA AssignAllKept ==
  ASSUME NEW cap \in 0 .. MaxSize, Good(v, cap), NEW xs \in Seq(Lives), AssignAll(xs)
  PROVE  Kept
<1> DEFINE n == Len(xs)
           both == IF n < size THEN n ELSE size
           over == [k \in 1 .. both |-> Assign(k - 1, Value(xs[k]))]
           new == AsValues(SubSeq(xs, both + 1, n))
           room == Recommend(0, n)
<1>1. cap \in Nat /\ size \in 0 .. cap /\ size \in Nat /\ capacity = cap /\ n \in Nat
  BY SizeIs
<1>2. CASE n <= capacity
  <2>1. Attempt("assign", 0, size, xs, v, over \o ConstructAll(new) \o DestroyLast(size - both))
    BY <1>2 DEF AssignAll
  <2>2. both \in Nat /\ both <= n /\ both <= size /\ n <= cap /\ (both = n \/ both = size)
    BY <1>1, <1>2
  <2> HIDE DEF both
  <2>3. ASSUME NEW k \in 1 .. both
        PROVE  /\ over[k] \in Steps /\ Fits(over[k], size, cap)
               /\ over[k].do # "construct" /\ over[k].do # "destroy"
    <3>1. k - 1 \in 0 .. size - 1 /\ xs[k] \in Lives
      BY <1>1, <2>2
    <3>2. Readable(Value(xs[k]), size)
      BY <1>1, <3>1, ValueReadable
    <3>3. over[k] = Assign(k - 1, Value(xs[k]))
      OBVIOUS
    <3> QED
      BY <1>1, <3>1, <3>2, <3>3, AssignFits
  <2>4. over = [k \in 1 .. both |-> over[k]]
    OBVIOUS
  <2> HIDE DEF over
  <2>5. over \in Seq(Steps) /\ Len(over) = both
    <3>1. \A k \in 1 .. both : over[k] \in Steps
      BY <2>3
    <3> QED
      BY <2>2, <2>4, <3>1, SeqIs
  <2>6. Legal(over, size, size, cap)
    BY <1>1, <2>3, <2>5, FlatLegal
  <2>7. Legal(ConstructAll(new), size, size + (n - both), cap)
    <3>1. SubSeq(xs, both + 1, n) \in Seq(Lives) /\ Len(SubSeq(xs, both + 1, n)) = n - both
      BY <1>1, <2>2
    <3>2. /\ new \in Seq(Args) /\ Len(new) = n - both
          /\ \A k \in 1 .. n - both : Readable(new[k], size)
      BY <1>1, <3>1, ValuesReadable
    <3> HIDE DEF new, n
    <3>3. n - both \in Nat /\ size + (n - both) <= cap /\ DOMAIN new = 1 .. n - both
      BY <1>1, <2>2, <3>2
    <3> QED
      BY <1>1, <3>2, <3>3, ConstructLegal
  <2>8. Legal(DestroyLast(size - both), size + (n - both), (size + (n - both)) - (size - both), cap)
    <3> HIDE DEF n
    <3> DEFINE e == size + (n - both)
               d == size - both
    <3>1. e \in 0 .. cap /\ d \in 0 .. e
      BY <1>1, <2>2
    <3> HIDE DEF e, d
    <3>2. Legal(DestroyLast(d), e, e - d, cap)
      BY <1>1, <3>1, DestroyLegal
    <3> QED
      BY <3>2 DEF e, d
  <2> HIDE DEF new, n
  <2>9. Legal(over \o ConstructAll(new) \o DestroyLast(size - both), size,
              (size + (n - both)) - (size - both), cap)
    BY <1>1, <2>6, <2>7, <2>8, ThenLegal
  <2> QED
    BY <2>1, <2>9, AttemptKept DEF size
<1>3. CASE ~(n <= capacity)
  <2>1. \/ End("assign", 0, size, xs, Null, TRUE)
        \/ /\ room <= MaxSize
           /\ Attempt("assign", 0, size, xs, Holding(<<>>, room), ConstructAll(AsValues(xs)))
    BY <1>3 DEF AssignAll
  <2>2. CASE End("assign", 0, size, xs, Null, TRUE)
    <3>1. 0 \in 0 .. MaxSize
      BY Constants
    <3> QED
      BY <2>2, <3>1, NullGood DEF End, Kept
  <2>3. CASE /\ room <= MaxSize
             /\ Attempt("assign", 0, size, xs, Holding(<<>>, room), ConstructAll(AsValues(xs)))
    <3>1. room \in Nat /\ room >= n
      BY <1>1, RecommendIs
    <3>2. room \in 0 .. MaxSize /\ 0 \in 0 .. room /\ 0 \in Nat
      BY <2>3, <3>1, Constants
    <3>3. Good(Holding(<<>>, room), room) /\ Holding(<<>>, room).end = 0
      <4>1. <<>> \in Seq(Lives) /\ Len(<<>>) = 0 /\ Len(<<>>) <= room
        BY <3>1
      <4>2. Good(Holding(<<>>, room), room) /\ Holding(<<>>, room).end = Len(<<>>)
        BY <3>1, <4>1, HoldingGood
      <4> QED
        BY <4>1, <4>2
    <3>4. /\ AsValues(xs) \in Seq(Args) /\ Len(AsValues(xs)) = n
          /\ \A k \in 1 .. n : Readable(AsValues(xs)[k], 0)
      BY <3>2, ValuesReadable
    <3>5. DOMAIN AsValues(xs) = 1 .. n /\ 0 + n <= room
      BY <1>1, <3>1, <3>4
    <3> HIDE DEF n, room
    <3>6. Legal(ConstructAll(AsValues(xs)), 0, 0 + n, room)
      BY <1>1, <3>1, <3>2, <3>4, <3>5, ConstructLegal
    <3> QED
      BY <2>3, <3>2, <3>3, <3>6, AttemptKept
  <2> QED
    BY <2>1, <2>2, <2>3
<1> QED
  BY <1>2, <1>3

(* The capacity a vector grows to, element by element, is enough.          *)
Grown(r, c, n) ==
  r = [k \in 0 .. n |->
         IF k = 0 THEN c ELSE IF k <= r[k - 1] THEN r[k - 1] ELSE Recommend(r[k - 1], k)]

(* Growing step by step, as elements arrive, ends with some capacity.      *)
LEMMA GrownExists ==
  ASSUME NEW c \in Nat, NEW n \in Nat
  PROVE  \E r : Grown(r, c, n)
<1> DEFINE S == {m \in Nat : \E r : Grown(r, c, m)}
<1>1. 0 \in S
  <2> DEFINE r == [k \in 0 .. 0 |-> c]
  <2>1. Grown(r, c, 0)
    BY DEF Grown
  <2> QED
    BY <2>1
<1>2. ASSUME NEW m \in Nat, m \in S PROVE m + 1 \in S
  <2>1. PICK r : Grown(r, c, m)
    BY <1>2
  <2> DEFINE x == IF m + 1 <= r[m] THEN r[m] ELSE Recommend(r[m], m + 1)
             t == [k \in 0 .. m + 1 |-> IF k = m + 1 THEN x ELSE r[k]]
  <2>2. \A k \in 0 .. m : t[k] = r[k]
    BY DEF t
  <2>3. t[m + 1] = IF m + 1 <= t[m] THEN t[m] ELSE Recommend(t[m], m + 1)
    BY <2>2
  <2>4. ASSUME NEW k \in 0 .. m + 1
        PROVE  t[k] = IF k = 0 THEN c ELSE IF k <= t[k - 1] THEN t[k - 1] ELSE Recommend(t[k - 1], k)
    <3>1. CASE k = m + 1
      BY <2>3, <3>1
    <3>2. CASE k \in 0 .. m
      <4>1. r[k] = IF k = 0 THEN c ELSE IF k <= r[k - 1] THEN r[k - 1] ELSE Recommend(r[k - 1], k)
        BY <2>1, <3>2 DEF Grown
      <4>2. k # 0 => t[k - 1] = r[k - 1]
        BY <2>2, <3>2
      <4> HIDE DEF t
      <4> QED
        BY <2>2, <3>2, <4>1, <4>2
    <3> QED
      BY <3>1, <3>2
  <2>5. t = [k \in 0 .. m + 1 |-> t[k]]
    OBVIOUS
  <2> HIDE DEF t
  <2>6. Grown(t, c, m + 1)
    BY <2>4, <2>5 DEF Grown
  <2> QED
    BY <2>6
<1> HIDE DEF S
<1>3. 0 .. n \subseteq S
  <2>1. \A k \in 0 .. n - 1 : k \in S => k + 1 \in S
    BY <1>2
  <2> QED
    BY <1>1, <2>1, UpTo
<1>4. n \in S
  BY <1>3
<1> QED
  BY <1>4 DEF S

LEMMA GrownIsEnough ==
  ASSUME NEW c \in Nat, NEW n \in Nat, NEW r, Grown(r, c, n)
  PROVE  \A k \in 0 .. n : r[k] \in Nat /\ r[k] >= k
<1> DEFINE S == {k \in 0 .. n : r[k] \in Nat /\ r[k] >= k}
<1>1. 0 \in S
  BY DEF Grown
<1>2. ASSUME NEW k \in 0 .. n - 1, k \in S PROVE k + 1 \in S
  <2>1. k + 1 \in 0 .. n /\ k + 1 # 0 /\ (k + 1) - 1 = k /\ k + 1 \in Nat
    OBVIOUS
  <2>2. r[k + 1] = IF k + 1 <= r[k] THEN r[k] ELSE Recommend(r[k], k + 1)
    BY <2>1 DEF Grown
  <2>3. r[k] \in Nat /\ Recommend(r[k], k + 1) \in Nat /\ Recommend(r[k], k + 1) >= k + 1
    BY <1>2, <2>1, RecommendIs
  <2> QED
    BY <2>1, <2>2, <2>3
<1> HIDE DEF S
<1>3. 0 .. n \subseteq S
  BY <1>1, <1>2, UpTo
<1> QED
  BY <1>3 DEF S

LEMMA AssignInputKept ==
  ASSUME NEW cap \in 0 .. MaxSize, Good(v, cap), NEW xs \in Seq(Lives), AssignInput(xs)
  PROVE  Kept
<1> DEFINE grown[k \in 0 .. Len(xs)] ==
             IF k = 0 THEN capacity
             ELSE IF k <= grown[k - 1] THEN grown[k - 1] ELSE Recommend(grown[k - 1], k)
<1>1. cap \in Nat /\ capacity = cap /\ capacity \in Nat
  BY SizeIs
<1>2. xs \in Seq(Lives)
  OBVIOUS
<1>3. \E k \in 0 .. Len(xs) :
        /\ grown[k] <= MaxSize
        /\ End("assign", 0, size, xs, Holding(SubSeq(xs, 1, k), grown[k]), k < Len(xs))
  BY DEF AssignInput
<1>4. Len(xs) \in Nat
  BY <1>2
<1>5. Grown(grown, capacity, Len(xs))
  <2>1. \E r : Grown(r, capacity, Len(xs))
    BY <1>1, <1>4, GrownExists
  <2>2. \E r : r = [k \in 0 .. Len(xs) |->
                     IF k = 0 THEN capacity
                     ELSE IF k <= r[k - 1] THEN r[k - 1] ELSE Recommend(r[k - 1], k)]
    BY <2>1 DEF Grown
  <2>3. grown = [k \in 0 .. Len(xs) |->
                  IF k = 0 THEN capacity
                  ELSE IF k <= grown[k - 1] THEN grown[k - 1] ELSE Recommend(grown[k - 1], k)]
    BY <2>2
  <2> HIDE DEF grown
  <2> QED
    BY <2>3 DEF Grown
<1> HIDE DEF grown
<1>6. PICK k \in 0 .. Len(xs) :
        /\ grown[k] <= MaxSize
        /\ End("assign", 0, size, xs, Holding(SubSeq(xs, 1, k), grown[k]), k < Len(xs))
  BY <1>3
<1>7. grown[k] \in Nat /\ grown[k] >= k
  BY <1>1, <1>4, <1>5, GrownIsEnough
<1>8. SubSeq(xs, 1, k) \in Seq(Lives) /\ Len(SubSeq(xs, 1, k)) = k
  BY <1>2, <1>4
<1>9. Good(Holding(SubSeq(xs, 1, k), grown[k]), grown[k])
  BY <1>7, <1>8, HoldingGood
<1>10. grown[k] \in 0 .. MaxSize
  BY <1>6, <1>7, Constants
<1> QED
  BY <1>6, <1>9, <1>10 DEF End, Kept

LEMMA InsertInputKept ==
  ASSUME NEW cap \in 0 .. MaxSize, Good(v, cap), NEW at \in 0 .. size, NEW xs \in Seq(Lives),
         InsertInput(at, xs)
  PROVE  Kept
<1> DEFINE n == Len(xs)
           room == IF n > capacity - size THEN capacity - size ELSE n
           first == SubSeq(xs, 1, room)
           here == ConstructAll(AsValues(first))
           rest == SubSeq(xs, room + 1, n)
           rotate == IF at = size \/ room = 0 THEN <<>> ELSE <<Rotate(at, size)>>
           new == Recommend(capacity, size + n)
           reserved == Holding(contents \o first, new)
           more == InsertSteps(size + room, at + room, AsMoved(rest))
<1>1. /\ cap \in Nat /\ size \in 0 .. cap /\ size \in Nat /\ capacity = cap /\ n \in Nat
      /\ contents \in Seq(Lives) /\ Len(contents) = size
  BY SizeIs
<1>2. /\ room \in Nat /\ room <= n /\ size + room <= cap /\ size + room \in 0 .. cap
      /\ size + room \in Nat /\ n - room \in Nat
  BY <1>1
<1>3. \/ Attempt("insert_input", at, at, xs, v, here \o rotate)
      \/ \E k \in DOMAIN here : End("insert_input", at, at, xs, Run(v, SubSeq(here, 1, k - 1)), TRUE)
      \/ End("insert_input", at, at, xs, v, TRUE)
      \/ new <= MaxSize /\ Attempt("insert_input", at, at, xs, reserved, rotate \o more)
  BY DEF InsertInput
<1> HIDE DEF room
<1>4. first \in Seq(Lives) /\ Len(first) = room
  BY <1>1, <1>2
<1>5. rest \in Seq(Lives) /\ Len(rest) = n - room
  BY <1>1, <1>2
<1> HIDE DEF first, rest
<1>6. here \in Seq(Steps) /\ Len(here) = room /\ Legal(here, size, size + room, cap)
  <2>1. /\ AsValues(first) \in Seq(Args) /\ Len(AsValues(first)) = room
        /\ \A k \in 1 .. room : Readable(AsValues(first)[k], size)
    BY <1>1, <1>4, ValuesReadable
  <2>2. DOMAIN AsValues(first) = 1 .. room
    BY <1>2, <2>1
  <2> QED
    BY <1>1, <1>2, <2>1, <2>2, ConstructLegal
<1> HIDE DEF here
<1>7. ASSUME NEW c \in Nat, size + room <= c
      PROVE  Legal(rotate, size + room, size + room, c)
  <2>1. size + room \in 0 .. c
    BY <1>2, <1>7
  <2>2. CASE at = size \/ room = 0
    <3>1. rotate = <<>>
      BY <2>2
    <3> HIDE DEF rotate
    <3> QED
      BY <2>1, <3>1, NoneLegal
  <2>3. CASE ~(at = size \/ room = 0)
    <3>1. /\ at \in 0 .. (size + room) - 1 /\ size \in at .. (size + room) - 1
          /\ size \in 0 .. (size + room) - 1
      BY <1>1, <1>2, <2>3
    <3>2. Readable(Moved(ElementAt(size)), size + room) /\ Moved(ElementAt(size)).at = size
      BY <1>2, <3>1, ElementReadable
    <3>3. /\ Rotate(at, size).do = "rotate" /\ Rotate(at, size).to = at
          /\ Rotate(at, size).arg = Moved(ElementAt(size))
      BY DEF Rotate
    <3>4. Rotate(at, size) \in Steps
      BY <3>1, <3>2 DEF Rotate, Steps, StepKinds, Readable
    <3>5. Fits(Rotate(at, size), size + room, c)
      BY <3>1, <3>2, <3>3, <3>4 DEF Fits
    <3>6. EndAfter(Rotate(at, size), size + room) = size + room
      BY <3>3 DEF EndAfter
    <3>7. Legal(<<Rotate(at, size)>>, size + room, size + room, c)
      BY <2>1, <3>5, <3>6, OneLegal
    <3> QED
      BY <2>3, <3>7
  <2> QED
    BY <2>2, <2>3
<1> HIDE DEF rotate
<1>8. CASE Attempt("insert_input", at, at, xs, v, here \o rotate)
  <2>1. Legal(rotate, size + room, size + room, cap)
    BY <1>1, <1>2, <1>7
  <2>2. Legal(here \o rotate, size, size + room, cap)
    BY <1>1, <1>6, <2>1, ThenLegal
  <2> QED
    BY <1>8, <2>2, AttemptKept DEF size
<1>9. ASSUME NEW k \in DOMAIN here,
             End("insert_input", at, at, xs, Run(v, SubSeq(here, 1, k - 1)), TRUE)
      PROVE  Kept
  <2> DEFINE s == SubSeq(here, 1, k - 1)
  <2>1. k \in 1 .. Len(here)
    BY <1>6
  <2>2. PICK ends : Follows(here, ends, size, cap)
    BY <1>6 DEF Legal
  <2>3. PICK part : Len(s) = k - 1 /\ Follows(s, part, size, cap)
    BY <1>1, <1>6, <2>1, <2>2, PrefixFollows
  <2> HIDE DEF s
  <2>4. Len(s) \in Nat
    BY <2>1, <2>3
  <2>5. Good(Run(v, s), cap)
    BY <1>1, <2>3, <2>4, RunGood DEF size
  <2> QED
    BY <1>9, <2>5 DEF End, Kept, s
<1>10. CASE End("insert_input", at, at, xs, v, TRUE)
  BY <1>10 DEF End, Kept
<1>11. CASE new <= MaxSize /\ Attempt("insert_input", at, at, xs, reserved, rotate \o more)
  <2>1. new \in Nat /\ new >= size + n
    <3>1. size + n \in Nat /\ capacity \in Nat
      BY <1>1
    <3> QED
      BY <3>1, RecommendIs
  <2>2. new \in 0 .. MaxSize /\ size + room <= new /\ size + room \in 0 .. new
    BY <1>1, <1>2, <1>11, <2>1, Constants
  <2>3. contents \o first \in Seq(Lives) /\ Len(contents \o first) = size + room
    BY <1>1, <1>4
  <2> HIDE DEF new
  <2>4. Good(reserved, new) /\ reserved.end = size + room
    <3>1. Good(Holding(contents \o first, new), new)
          /\ Holding(contents \o first, new).end = Len(contents \o first)
      BY <2>1, <2>2, <2>3, HoldingGood
    <3> QED
      BY <2>3, <3>1
  <2> HIDE DEF reserved
  <2>5. Legal(rotate, size + room, size + room, new)
    BY <1>7, <2>1, <2>2
  <2>6. /\ AsMoved(rest) \in Seq(Args) /\ Len(AsMoved(rest)) = n - room
        /\ \A k \in 1 .. n - room : Readable(AsMoved(rest)[k], size + room)
    BY <1>2, <1>5, ValuesReadable
  <2>7. Legal(more, size + room, size + room + (n - room), new)
    <3> DEFINE e == size + room
               at1 == at + room
               m == n - room
    <3>1. e \in 0 .. new /\ at1 \in 0 .. e /\ e + m <= new /\ m \in Nat
      BY <1>1, <1>2, <2>1, <2>2
    <3>2. more = InsertSteps(e, at1, AsMoved(rest))
      OBVIOUS
    <3>3. Len(AsMoved(rest)) = m /\ \A k \in 1 .. m : Readable(AsMoved(rest)[k], e)
      BY <2>6
    <3> HIDE DEF e, at1, m, more
    <3>4. Legal(InsertSteps(e, at1, AsMoved(rest)), e, e + m, new)
      BY <2>1, <2>6, <3>1, <3>3, InsertLegal
    <3>5. Legal(more, e, e + m, new)
      BY <3>2, <3>4
    <3> QED
      BY <3>5 DEF e, m
  <2> HIDE DEF more
  <2>8. Legal(rotate \o more, size + room, size + room + (n - room), new)
    BY <2>1, <2>5, <2>7, ThenLegal
  <2>9. Attempt("insert_input", at, at, xs, reserved, rotate \o more)
    BY <1>11
  <2> QED
    BY <2>2, <2>4, <2>8, <2>9, AttemptKept
<1> QED
  BY <1>3, <1>8, <1>9, <1>10, <1>11

-------------------------------------------------------------------------------
(* The theorem.                                                            *)

(* The invariant holds at first, and is kept.                              *)
LEMMA InitSound == Init => IInv
<1>1. 0 \in 0 .. MaxSize
  BY Constants
<1> QED
  BY <1>1, NullGood DEF Init, IInv

LEMMA NextSound == IInv /\ [Next]_vars => IInv'
<1> SUFFICES ASSUME IInv, [Next]_vars PROVE IInv'
  OBVIOUS
<1>1. PICK cap \in 0 .. MaxSize : Good(v, cap)
  BY DEF IInv
<1>2. CASE UNCHANGED vars
  BY <1>1, <1>2 DEF IInv, vars
<1>3. ASSUME Kept PROVE IInv'
  BY <1>3 DEF Kept, IInv
<1>4. CASE \E arg \in Arguments : PushBack(arg)
  BY <1>1, <1>3, <1>4, PushBackKept
<1>5. CASE PopBack \/ PopBackValue \/ ShrinkToFit
  BY <1>1, <1>3, <1>5, PopBackKept, PopBackValueKept, ShrinkToFitKept
<1>6. ASSUME NEW at \in 0 .. size, NEW arg \in Arguments, Insert(at, <<arg>>) PROVE IInv'
  <2>1. arg \in Args /\ Readable(arg, size)
    BY <1>1, ArgumentReadable
  <2>2. <<arg>> \in Seq(Args) /\ \A k \in 1 .. Len(<<arg>>) : Readable(<<arg>>[k], size)
    BY <2>1
  <2> QED
    BY <1>1, <1>3, <1>6, <2>2, InsertKept
<1>7. ASSUME NEW at \in 0 .. size, NEW n \in 2 .. MaxArgs, NEW arg \in Arguments,
             Insert(at, [k \in 1 .. n |-> arg])
      PROVE  IInv'
  <2> DEFINE args == [k \in 1 .. n |-> arg]
  <2>1. arg \in Args /\ Readable(arg, size)
    BY <1>1, ArgumentReadable
  <2>2. n \in Nat
    BY Constants
  <2>3. args \in Seq(Args) /\ Len(args) = n /\ \A k \in 1 .. n : Readable(args[k], size)
    BY <2>1, <2>2, CopiesAre
  <2>4. Insert(at, args)
    BY <1>7
  <2> HIDE DEF args
  <2> QED
    BY <1>1, <1>3, <2>3, <2>4, InsertKept
<1>8. CASE \E at \in 0 .. size, x \in Values : Emplace(at, x)
  BY <1>1, <1>3, <1>8, EmplaceKept
<1>9. ASSUME NEW at \in 0 .. size, NEW xs \in Ranges, Insert(at, AsValues(xs)) \/ InsertInput(at, xs)
      PROVE  IInv'
  <2>1. xs \in Seq(Lives)
    BY RangeLives
  <2>2. CASE Insert(at, AsValues(xs))
    <3>1. size \in Nat
      BY <1>1, SizeIs
    <3>2. /\ AsValues(xs) \in Seq(Args) /\ Len(AsValues(xs)) = Len(xs)
          /\ \A k \in 1 .. Len(xs) : Readable(AsValues(xs)[k], size)
      BY <2>1, <3>1, ValuesReadable
    <3> QED
      BY <1>1, <1>3, <2>2, <3>2, InsertKept
  <2>3. CASE InsertInput(at, xs)
    BY <1>1, <1>3, <2>1, <2>3, InsertInputKept
  <2> QED
    BY <1>9, <2>2, <2>3
<1>10. CASE \E from, to \in 0 .. size : Erase(from, to)
  BY <1>1, <1>3, <1>10, EraseKept
<1>11. CASE \E n \in 1 .. MaxArgs, arg \in Arguments : ~ arg.move /\ AppendCopies(n, arg)
  BY <1>1, <1>3, <1>11, AppendKept
<1>12. CASE \E n \in 0 .. size : Shrink(n)
  BY <1>1, <1>3, <1>12, ShrinkKept
<1>13. CASE \E n \in 0 .. MaxSize + 1 : Reserve(n)
  BY <1>1, <1>3, <1>13, ReserveKept
<1>14. CASE \E xs \in Ranges : AssignAll(xs) \/ AssignInput(xs)
  BY <1>1, <1>3, <1>14, RangeLives, AssignAllKept, AssignInputKept
<1> QED
  BY <1>2, <1>4, <1>5, <1>6, <1>7, <1>8, <1>9, <1>10, <1>11, <1>12, <1>13, <1>14 DEF Next

(* What it says of one state.                                              *)
LEMMA SoundIsLifetimesOK == IInv => LifetimesOK
<1> SUFFICES ASSUME IInv PROVE LifetimesOK
  OBVIOUS
<1>1. PICK cap \in 0 .. MaxSize : Good(v, cap)
  BY DEF IInv
<1>2. cap \in Nat /\ capacity = cap
  BY <1>1, SizeIs
<1>3. /\ v.fault = FALSE /\ v.cells \in Cells(cap) /\ DOMAIN v.cells = 0 .. cap - 1 /\ v.end \in 0 .. cap
      /\ \A i \in 0 .. cap - 1 : i < v.end => v.cells[i] # Raw
      /\ \A i \in 0 .. cap - 1 : i >= v.end => v.cells[i] = Raw
  BY <1>1, <1>2, GoodHas
<1>4. ASSUME NEW i \in DOMAIN v.cells PROVE v.cells[i] = Raw <=> i >= v.end
  BY <1>2, <1>3
<1>5. v.cells \in [0 .. capacity - 1 -> Values \cup {Unspecified, Raw}]
  BY <1>2, <1>3 DEF Cells, Lives
<1>6. capacity <= MaxSize /\ nothrow \in BOOLEAN
  BY <1>2, Constants DEF IInv
<1> QED
  BY <1>2, <1>3, <1>4, <1>5, <1>6 DEF LifetimesOK

(* Whatever is done to a vector, and whichever element operation of it     *)
(* throws: its elements are there below m_end and nowhere else, and none   *)
(* was constructed over another or used, or destroyed, when not there.     *)
THEOREM ElementsLive == Spec => []LifetimesOK
<1>1. Spec => []IInv
  BY InitSound, NextSound, PTL DEF Spec
<1> QED
  BY <1>1, SoundIsLifetimesOK, PTL

-------------------------------------------------------------------------------
(* What a throw leaves alone.                                              *)

(* A step that does nothing to the elements below at, and leaves them      *)
(* there.                                                                  *)
Spares(step, at) ==
  /\ step.do \in {"construct", "assign", "temporary", "rotate"}
  /\ step.do \in {"assign", "rotate"} => step.to \in Int /\ step.to >= at
  /\ step.arg.at \in Int
  /\ step.arg.move /\ step.arg.at >= 0 => step.arg.at >= at

AllSpare(steps, at) == steps \in Seq(Steps) /\ \A k \in 1 .. Len(steps) : Spares(steps[k], at)

(* Up to any step that may throw, and it too, all steps do.                *)
Spared(steps, at) ==
  /\ steps \in Seq(Steps)
  /\ \A k \in 1 .. Len(steps) : steps[k].do = "destroy" \/ \A j \in 1 .. k : Spares(steps[j], at)

(* Block c has the elements of b below at; the rest may be anything.       *)
BlocksOf(X, cap) == [cells : [0 .. cap - 1 -> X], end : Int, fault : BOOLEAN]
Shaped(b, cap) == \E X : b \in BlocksOf(X, cap)
Celled(b, c) == [b EXCEPT !.cells = c]
Marked(b, c, f) == [b EXCEPT !.cells = c, !.fault = f]
AreCells(c, cap) == c = [i \in 0 .. cap - 1 |-> c[i]]
Keeps(b, c, at, cap) ==
  Shaped(c, cap) /\ c.end >= at /\ \A i \in 0 .. at - 1 : c.cells[i] = b.cells[i]

LEMMA ShapedHas ==
  ASSUME NEW cap \in Nat, NEW b, Shaped(b, cap)
  PROVE  b.end \in Int /\ DOMAIN b.cells = 0 .. cap - 1
  BY DEF Shaped, BlocksOf

LEMMA CellsShaped ==
  ASSUME NEW cap \in Nat, NEW b, Shaped(b, cap), NEW c, AreCells(c, cap)
  PROVE  /\ Shaped(Celled(b, c), cap) /\ Celled(b, c).end = b.end /\ Celled(b, c).cells = c
         /\ \A f \in BOOLEAN : /\ Shaped(Marked(b, c, f), cap) /\ Marked(b, c, f).end = b.end
                               /\ Marked(b, c, f).cells = c
<1>1. PICK X : b \in BlocksOf(X, cap)
  BY DEF Shaped
<1> DEFINE Y == {c[i] : i \in 0 .. cap - 1}
<1>2. c \in [0 .. cap - 1 -> Y]
  <2>1. \A i \in 0 .. cap - 1 : c[i] \in Y
    OBVIOUS
  <2> HIDE DEF Y
  <2> QED
    BY <2>1 DEF AreCells
<1> HIDE DEF Y
<1>3. Celled(b, c) \in BlocksOf(Y, cap) /\ Celled(b, c).end = b.end /\ Celled(b, c).cells = c
  BY <1>1, <1>2 DEF BlocksOf, Celled
<1>4. ASSUME NEW f \in BOOLEAN
      PROVE  /\ Marked(b, c, f) \in BlocksOf(Y, cap)
             /\ Marked(b, c, f).end = b.end /\ Marked(b, c, f).cells = c
  BY <1>1, <1>2 DEF BlocksOf, Marked
<1> QED
  BY <1>3, <1>4 DEF Shaped

LEMMA EndShaped ==
  ASSUME NEW cap \in Nat, NEW b, Shaped(b, cap)
  PROVE  /\ Shaped([b EXCEPT !.end = @ + 1], cap) /\ [b EXCEPT !.end = @ + 1].end = b.end + 1
         /\ [b EXCEPT !.end = @ + 1].cells = b.cells
<1>1. PICK X : b \in BlocksOf(X, cap)
  BY DEF Shaped
<1>2. /\ [b EXCEPT !.end = @ + 1] \in BlocksOf(X, cap) /\ [b EXCEPT !.end = @ + 1].end = b.end + 1
      /\ [b EXCEPT !.end = @ + 1].cells = b.cells
  BY <1>1 DEF BlocksOf
<1> QED
  BY <1>2 DEF Shaped

(* A write disturbs one cell.                                              *)
LEMMA PutShaped ==
  ASSUME NEW cap \in Nat, NEW b, Shaped(b, cap), NEW i, NEW x, NEW ok
  PROVE  /\ Shaped(Put(b, i, x, ok), cap) /\ Put(b, i, x, ok).end = b.end
         /\ \A j \in 0 .. cap - 1 : j # i => Put(b, i, x, ok).cells[j] = b.cells[j]
<1> DEFINE c == [b.cells EXCEPT ![i] = x]
           f == b.fault \/ ~ ok \/ i \notin DOMAIN b.cells
<1>1. DOMAIN b.cells = 0 .. cap - 1
  BY ShapedHas
<1>2. DOMAIN c = 0 .. cap - 1 /\ \A j \in 0 .. cap - 1 : j # i => c[j] = b.cells[j]
  BY <1>1
<1>3. AreCells(c, cap)
  BY <1>1 DEF AreCells
<1>4. PICK g \in BOOLEAN : Put(b, i, x, ok) = Marked(b, c, g)
  <2>1. f \in BOOLEAN
    OBVIOUS
  <2>2. Put(b, i, x, ok) = Marked(b, c, f)
    BY DEF Put, Marked
  <2> QED
    BY <2>1, <2>2
<1> HIDE DEF c
<1> QED
  BY <1>2, <1>3, <1>4, CellsShaped

LEMMA WithoutShaped ==
  ASSUME NEW cap \in Nat, NEW at \in 0 .. cap, NEW b, Shaped(b, cap), NEW step, Spares(step, at)
  PROVE  /\ Shaped(Without(b, step), cap) /\ Without(b, step).end = b.end
         /\ \A j \in 0 .. at - 1 : Without(b, step).cells[j] = b.cells[j]
<1>1. CASE step.arg.move /\ step.arg.at >= 0
  <2>1. PICK ok : Without(b, step) = Put(b, step.arg.at, Unspecified, ok)
    BY <1>1 DEF Without
  <2>2. \A j \in 0 .. at - 1 : j # step.arg.at /\ j \in 0 .. cap - 1
    BY <1>1 DEF Spares
  <2>3. /\ Shaped(Without(b, step), cap) /\ Without(b, step).end = b.end
        /\ \A j \in 0 .. cap - 1 : j # step.arg.at => Without(b, step).cells[j] = b.cells[j]
    BY <2>1, PutShaped
  <2> QED
    BY <2>2, <2>3
<1>2. CASE ~ (step.arg.move /\ step.arg.at >= 0)
  BY <1>2 DEF Without
<1> QED
  BY <1>1, <1>2

(* A step that spares them leaves them as they were, done or not.          *)
LEMMA DoSpares ==
  ASSUME NEW cap \in Nat, NEW at \in 0 .. cap, NEW b, Shaped(b, cap), b.end >= at,
         NEW step, Spares(step, at)
  PROVE  Keeps(b, Do(b, step), at, cap) /\ Keeps(b, Broken(b, step), at, cap)
<1> DEFINE x == Read(b, step.arg)
           w == Without(b, step)
<1>1. /\ Shaped(w, cap) /\ w.end = b.end /\ b.end \in Int /\ DOMAIN b.cells = 0 .. cap - 1
      /\ \A j \in 0 .. at - 1 : w.cells[j] = b.cells[j]
  BY WithoutShaped, ShapedHas
<1>2. \A j \in 0 .. at - 1 : j \in 0 .. cap - 1
  OBVIOUS
<1>3. CASE step.do = "construct"
  <2> DEFINE p == Put(w, b.end, x, x # Raw /\ b.cells[b.end] = Raw)
  <2>1. Do(b, step) = [p EXCEPT !.end = @ + 1]
    BY <1>3 DEF Do
  <2>2. Shaped(p, cap) /\ p.end = b.end /\ \A j \in 0 .. cap - 1 : j # b.end => p.cells[j] = w.cells[j]
    BY <1>1, PutShaped
  <2> HIDE DEF p, w, x
  <2>3. /\ Shaped(Do(b, step), cap) /\ Do(b, step).end = b.end + 1
        /\ Do(b, step).cells = p.cells
    BY <2>1, <2>2, EndShaped
  <2>4. \A j \in 0 .. at - 1 : j # b.end
    BY <1>1
  <2>5. Keeps(b, Do(b, step), at, cap)
    <3>1. \A j \in 0 .. at - 1 : Do(b, step).cells[j] = b.cells[j]
      BY <1>1, <1>2, <2>2, <2>3, <2>4
    <3>2. b.end + 1 >= at
      BY <1>1
    <3> QED
      BY <2>3, <3>1, <3>2 DEF Keeps
  <2>6. Broken(b, step) = b
    BY <1>3 DEF Broken
  <2> QED
    BY <2>5, <2>6 DEF Keeps
<1>4. CASE step.do = "assign"
  <2>1. Do(b, step) = Put(w, step.to, x, x # Raw /\ b.cells[step.to] # Raw)
    BY <1>4 DEF Do
  <2> HIDE DEF w, x
  <2>2. /\ Shaped(Do(b, step), cap) /\ Do(b, step).end = b.end
        /\ \A j \in 0 .. cap - 1 : j # step.to => Do(b, step).cells[j] = w.cells[j]
    BY <1>1, <2>1, PutShaped
  <2>3. \A j \in 0 .. at - 1 : j # step.to
    BY <1>4 DEF Spares
  <2>4. Keeps(b, Do(b, step), at, cap)
    BY <1>1, <1>2, <2>2, <2>3 DEF Keeps
  <2>5. Broken(b, step) = b
    BY <1>4 DEF Broken
  <2> QED
    BY <2>4, <2>5 DEF Keeps
<1>5. CASE step.do = "temporary"
  BY <1>5 DEF Do, Broken, Keeps
<1>6. CASE step.do = "rotate"
  <2> DEFINE n == b.end - step.to
             d == [i \in DOMAIN b.cells |->
                    IF i \in step.to .. b.end - 1
                    THEN b.cells[step.to + ((i - step.to + step.arg.at - step.to) % n)] ELSE b.cells[i]]
             u == [i \in DOMAIN b.cells |-> IF i \in step.to .. b.end - 1 THEN Unspecified ELSE b.cells[i]]
  <2>1. Do(b, step) = Celled(b, d) /\ Broken(b, step) = Celled(b, u)
    BY <1>6 DEF Do, Rotated, Broken, Celled
  <2>2. AreCells(d, cap) /\ AreCells(u, cap)
    BY <1>1 DEF AreCells
  <2>3. \A j \in 0 .. at - 1 : j \notin step.to .. b.end - 1
    BY <1>6 DEF Spares
  <2>4. \A j \in 0 .. at - 1 : d[j] = b.cells[j] /\ u[j] = b.cells[j]
    BY <1>1, <1>2, <2>3
  <2> HIDE DEF d, u, n
  <2>5. /\ Shaped(Celled(b, d), cap) /\ Celled(b, d).end = b.end /\ Celled(b, d).cells = d
        /\ Shaped(Celled(b, u), cap) /\ Celled(b, u).end = b.end /\ Celled(b, u).cells = u
    BY <2>2, CellsShaped
  <2> QED
    BY <2>1, <2>4, <2>5 DEF Keeps
<1> QED
  BY <1>3, <1>4, <1>5, <1>6 DEF Spares

(* Any number of them does so.                                             *)
LEMMA RunSpares ==
  ASSUME NEW cap \in Nat, NEW at \in 0 .. cap, NEW b, Shaped(b, cap), b.end >= at,
         NEW steps, Len(steps) \in Nat, \A k \in 1 .. Len(steps) : Spares(steps[k], at)
  PROVE  Keeps(b, Run(b, steps), at, cap)
<1>1. PICK r : /\ r = [k \in 0 .. Len(steps) |-> IF k = 0 THEN b ELSE Do(r[k - 1], steps[k])]
               /\ Run(b, steps) = r[Len(steps)]
  BY RunIs
<1>2. r[0] = b /\ \A k \in 1 .. Len(steps) : r[k] = Do(r[k - 1], steps[k])
  BY <1>1
<1> DEFINE S == {k \in 0 .. Len(steps) : Keeps(b, r[k], at, cap)}
<1>3. 0 \in S
  BY <1>2 DEF Keeps
<1>4. ASSUME NEW k \in 0 .. Len(steps) - 1, k \in S PROVE k + 1 \in S
  <2>1. k + 1 \in 1 .. Len(steps) /\ (k + 1) - 1 = k
    OBVIOUS
  <2>2. Keeps(b, r[k], at, cap) /\ r[k + 1] = Do(r[k], steps[k + 1]) /\ Spares(steps[k + 1], at)
    BY <1>2, <1>4, <2>1
  <2>3. Keeps(r[k], r[k + 1], at, cap)
    BY <2>2, DoSpares DEF Keeps
  <2>4. Keeps(b, r[k + 1], at, cap)
    BY <2>2, <2>3 DEF Keeps
  <2> QED
    BY <2>1, <2>4
<1> HIDE DEF S
<1>5. 0 .. Len(steps) \subseteq S
  BY <1>3, <1>4, UpTo
<1>6. Len(steps) \in S
  BY <1>5
<1> QED
  BY <1>1, <1>6 DEF S

LEMMA AttemptSpares ==
  ASSUME NEW cap \in Nat, NEW at \in 0 .. cap, NEW b, Shaped(b, cap), b.end >= at,
         NEW steps, Spared(steps, at),
         NEW op, NEW from, NEW to, NEW by, Attempt(op, from, to, by, b, steps), last'.threw
  PROVE  Keeps(b, v', at, cap)
<1>1. steps \in Seq(Steps) /\ Len(steps) \in Nat /\ DOMAIN steps = 1 .. Len(steps)
  BY DEF Spared
<1>2. ~ End(op, from, to, by, Run(b, steps), FALSE)
  BY DEF End
<1>3. PICK k \in 1 .. Len(steps) :
        MayThrow(steps[k]) /\ v' = Broken(Run(b, SubSeq(steps, 1, k - 1)), steps[k])
  BY <1>1, <1>2 DEF Attempt, End
<1> DEFINE s == SubSeq(steps, 1, k - 1)
<1>4. \A j \in 1 .. k : Spares(steps[j], at)
  BY <1>3 DEF Spared, MayThrow
<1>5. Len(s) = k - 1 /\ \A j \in 1 .. k - 1 : s[j] = steps[j]
  BY <1>1
<1>6. Len(s) \in Nat /\ \A j \in 1 .. Len(s) : Spares(s[j], at)
  BY <1>4, <1>5
<1>7. Keeps(b, Run(b, s), at, cap)
  BY <1>6, RunSpares
<1>8. Spares(steps[k], at)
  BY <1>4
<1> HIDE DEF s
<1>9. Keeps(Run(b, s), Broken(Run(b, s), steps[k]), at, cap)
  BY <1>7, <1>8, DoSpares DEF Keeps
<1> QED
  BY <1>3, <1>7, <1>9 DEF Keeps, s

-------------------------------------------------------------------------------
(* Which steps spare the elements below the place of an operation.         *)

(* What is moved is not an element below at.                               *)
MovesAbove(arg, at) == arg \in Args /\ (arg.move /\ arg.at >= 0 => arg.at >= at)

LEMMA StepSpares ==
  ASSUME NEW at \in Nat, NEW arg, MovesAbove(arg, at)
  PROVE  /\ Construct(arg) \in Steps /\ Spares(Construct(arg), at)
         /\ Temporary(arg) \in Steps /\ Spares(Temporary(arg), at)
         /\ \A i \in Int : i >= at => Assign(i, arg) \in Steps /\ Spares(Assign(i, arg), at)
<1>1. arg \in Args /\ arg.at \in Int
  BY DEF MovesAbove, Args
<1>2. Construct(arg).do = "construct" /\ Construct(arg).arg = arg /\ Construct(arg) \in Steps
  BY <1>1 DEF Construct, Steps, StepKinds
<1>3. Temporary(arg).do = "temporary" /\ Temporary(arg).arg = arg /\ Temporary(arg) \in Steps
  BY <1>1 DEF Temporary, Steps, StepKinds
<1>4. ASSUME NEW i \in Int
      PROVE  /\ Assign(i, arg).do = "assign" /\ Assign(i, arg).arg = arg /\ Assign(i, arg).to = i
             /\ Assign(i, arg) \in Steps
  BY <1>1 DEF Assign, Steps, StepKinds
<1> QED
  BY <1>1, <1>2, <1>3, <1>4 DEF Spares, MovesAbove

LEMMA RotateSpares ==
  ASSUME NEW at \in Nat, NEW first \in Int, first >= at, NEW middle \in Int, middle >= at
  PROVE  Rotate(first, middle) \in Steps /\ Spares(Rotate(first, middle), at)
<1>1. ElementAt(middle) \in Args
  BY Constants DEF ElementAt, Args
<1>2. Moved(ElementAt(middle)) \in Args /\ Moved(ElementAt(middle)).at = middle
  BY <1>1 DEF Moved, Args, ElementAt
<1>3. /\ Rotate(first, middle).do = "rotate" /\ Rotate(first, middle).to = first
      /\ Rotate(first, middle).arg = Moved(ElementAt(middle)) /\ Rotate(first, middle) \in Steps
  BY <1>2 DEF Rotate, Steps, StepKinds
<1> QED
  BY <1>2, <1>3 DEF Spares

LEMMA ThenSpares ==
  ASSUME NEW at, NEW s, NEW t, AllSpare(s, at), AllSpare(t, at)
  PROVE  AllSpare(s \o t, at)
<1>1. /\ s \in Seq(Steps) /\ t \in Seq(Steps) /\ s \o t \in Seq(Steps)
      /\ Len(s) \in Nat /\ Len(t) \in Nat /\ Len(s \o t) = Len(s) + Len(t)
      /\ \A k \in 1 .. Len(s) + Len(t) : (s \o t)[k] = IF k <= Len(s) THEN s[k] ELSE t[k - Len(s)]
  BY DEF AllSpare
<1>2. ASSUME NEW k \in 1 .. Len(s) + Len(t) PROVE Spares((s \o t)[k], at)
  <2>1. CASE k <= Len(s)
    BY <1>1, <2>1 DEF AllSpare
  <2>2. CASE ~ (k <= Len(s))
    <3>1. k - Len(s) \in 1 .. Len(t)
      BY <1>1, <2>2
    <3> QED
      BY <1>1, <2>2, <3>1 DEF AllSpare
  <2> QED
    BY <2>1, <2>2
<1> QED
  BY <1>1, <1>2 DEF AllSpare

LEMMA NoneSpares == \A at : AllSpare(<<>>, at)
  BY DEF AllSpare

(* A list of n steps, each of which does.                                  *)
LEMMA ListSpares ==
  ASSUME NEW at, NEW n \in Nat, NEW s, s = [k \in 1 .. n |-> s[k]],
         \A k \in 1 .. n : s[k] \in Steps /\ Spares(s[k], at)
  PROVE  AllSpare(s, at)
<1>1. s \in Seq(Steps) /\ Len(s) = n
  BY SeqIs
<1> QED
  BY <1>1 DEF AllSpare

(* Steps that spare them, and then some that destroy.                      *)
LEMMA AllSpared ==
  ASSUME NEW at, NEW s, AllSpare(s, at), NEW n \in Nat
  PROVE  Spared(s, at) /\ Spared(s \o DestroyLast(n), at)
<1> DEFINE t == DestroyLast(n)
<1>1. Destroy \in Steps /\ Destroy.do = "destroy"
  <2>1. Value(Default) \in Args
    BY Constants DEF Value, Args
  <2> QED
    BY <2>1 DEF Destroy, Steps, StepKinds
<1>2. t \in Seq(Steps) /\ Len(t) = n /\ \A k \in 1 .. n : t[k].do = "destroy"
  BY <1>1 DEF DestroyLast
<1> HIDE DEF t
<1>3. /\ s \in Seq(Steps) /\ s \o t \in Seq(Steps) /\ Len(s) \in Nat /\ Len(s \o t) = Len(s) + n
      /\ \A k \in 1 .. Len(s) + n : (s \o t)[k] = IF k <= Len(s) THEN s[k] ELSE t[k - Len(s)]
  BY <1>2 DEF AllSpare
<1>4. \A k \in 1 .. Len(s) : Spares(s[k], at)
  BY DEF AllSpare
<1>5. Spared(s, at)
  BY <1>3, <1>4 DEF Spared
<1>6. ASSUME NEW k \in 1 .. Len(s) + n
      PROVE  (s \o t)[k].do = "destroy" \/ \A j \in 1 .. k : Spares((s \o t)[j], at)
  <2>1. CASE k <= Len(s)
    BY <1>3, <1>4, <2>1
  <2>2. CASE ~ (k <= Len(s))
    <3>1. k - Len(s) \in 1 .. n
      BY <1>3, <2>2
    <3> QED
      BY <1>2, <1>3, <2>2, <3>1
  <2> QED
    BY <2>1, <2>2
<1>7. Spared(s \o t, at)
  BY <1>3, <1>6 DEF Spared
<1> QED
  BY <1>5, <1>7 DEF t

LEMMA ConstructSpares ==
  ASSUME NEW at \in Nat, NEW n \in Nat, NEW args, DOMAIN args = 1 .. n,
         \A k \in 1 .. n : MovesAbove(args[k], at)
  PROVE  AllSpare(ConstructAll(args), at)
<1> DEFINE s == ConstructAll(args)
<1>1. s = [k \in 1 .. n |-> Construct(args[k])]
  BY DEF ConstructAll
<1>2. s = [k \in 1 .. n |-> s[k]] /\ \A k \in 1 .. n : s[k] = Construct(args[k])
  BY <1>1
<1> HIDE DEF s
<1>3. \A k \in 1 .. n : s[k] \in Steps /\ Spares(s[k], at)
  BY <1>2, StepSpares
<1>4. AllSpare(s, at)
  BY <1>2, <1>3, ListSpares
<1> QED
  BY <1>4 DEF s

LEMMA ElementMoves ==
  ASSUME NEW at \in Nat, NEW i \in Int, i >= at
  PROVE  MovesAbove(Moved(ElementAt(i)), at)
<1>1. ElementAt(i) \in Args /\ ElementAt(i).at = i
  BY Constants DEF ElementAt, Args
<1>2. Moved(ElementAt(i)) \in Args /\ Moved(ElementAt(i)).at = i
  BY <1>1 DEF Moved, Args
<1> QED
  BY <1>2 DEF MovesAbove

(* Elements from at on are moved up.                                       *)
LEMMA MoveSpares ==
  ASSUME NEW at \in Nat, NEW e \in Nat, NEW n \in Nat, NEW r \in Nat, at <= e, r <= n, r <= e - at,
         NEW to, NEW m, to = at + n, m = e + n - r
  PROVE  AllSpare(MoveRange(at, e, to, m), at)
<1> DEFINE k0 == m - (at + n)
           up == [k \in 1 .. e - at - k0 |-> Construct(Moved(ElementAt(at + k0 + k - 1)))]
           down == [k \in 1 .. k0 |-> Assign(m - k, Moved(ElementAt(at + k0 - k)))]
<1>1. m \in Nat /\ k0 \in Nat /\ e - at - k0 \in Nat /\ m = at + n + k0
  OBVIOUS
<1>2. MoveRange(at, e, to, m) = up \o down
  BY DEF MoveRange
<1>3. AllSpare(up, at)
  <2>1. ASSUME NEW k \in 1 .. e - at - k0 PROVE up[k] \in Steps /\ Spares(up[k], at)
    <3>1. at + k0 + k - 1 \in Int /\ at + k0 + k - 1 >= at
      BY <1>1
    <3>2. up[k] = Construct(Moved(ElementAt(at + k0 + k - 1)))
      OBVIOUS
    <3> HIDE DEF up, k0
    <3> QED
      BY <3>1, <3>2, ElementMoves, StepSpares
  <2>2. up = [k \in 1 .. e - at - k0 |-> up[k]]
    OBVIOUS
  <2> HIDE DEF up, k0
  <2> QED
    BY <1>1, <2>1, <2>2, ListSpares
<1>4. AllSpare(down, at)
  <2>1. ASSUME NEW k \in 1 .. k0 PROVE down[k] \in Steps /\ Spares(down[k], at)
    <3>1. at + k0 - k \in Int /\ at + k0 - k >= at /\ m - k \in Int /\ m - k >= at
      BY <1>1
    <3>2. down[k] = Assign(m - k, Moved(ElementAt(at + k0 - k)))
      OBVIOUS
    <3> HIDE DEF down, k0
    <3> QED
      BY <3>1, <3>2, ElementMoves, StepSpares
  <2>2. down = [k \in 1 .. k0 |-> down[k]]
    OBVIOUS
  <2> HIDE DEF down, k0
  <2> QED
    BY <1>1, <2>1, <2>2, ListSpares
<1> HIDE DEF up, down
<1> QED
  BY <1>2, <1>3, <1>4, ThenSpares

(* Only objects outside of the vector are moved from.                      *)
Unmoved(args) == args \in Seq(Args) /\ \A k \in 1 .. Len(args) : args[k].move => args[k].at < 0

LEMMA InsertSpares ==
  ASSUME NEW e \in Nat, NEW at \in 0 .. e, NEW args, Unmoved(args)
  PROVE  AllSpare(InsertSteps(e, at, args), at)
<1> DEFINE n == Len(args)
           r == IF n > e - at THEN e - at ELSE n
           new == SubSeq(args, r + 1, n)
           move == IF r = 0 THEN <<>> ELSE MoveRange(at, e, at + n, e + n - r)
           over == [k \in 1 .. r |-> Assign(at + k - 1, Followed(args[k], at, n))]
<1>1. n \in Nat /\ r \in 0 .. n /\ r <= e - at /\ r \in Nat /\ n - r \in Nat /\ at \in Nat /\ at <= e
  BY DEF Unmoved
<1>2. InsertSteps(e, at, args) = ConstructAll(new) \o move \o over
  BY DEF InsertSteps
<1> HIDE DEF r
<1>3. \A k \in 1 .. n : args[k] \in Args /\ args[k].at \in Int /\ (args[k].move => args[k].at < 0)
  <2>1. \A k \in 1 .. n : args[k] \in Args /\ (args[k].move => args[k].at < 0)
    BY DEF Unmoved
  <2> HIDE DEF n
  <2> QED
    BY <2>1 DEF Args
<1>4. AllSpare(ConstructAll(new), at)
  <2>1. Len(new) = n - r /\ DOMAIN new = 1 .. n - r /\ \A k \in 1 .. n - r : new[k] = args[k + r]
    BY <1>1 DEF Unmoved
  <2>2. ASSUME NEW k \in 1 .. n - r PROVE MovesAbove(new[k], at)
    <3>1. k + r \in 1 .. n
      BY <1>1
    <3>2. new[k] = args[k + r]
      BY <2>1
    <3> HIDE DEF new, n
    <3>3. args[k + r] \in Args /\ args[k + r].at \in Int /\ (args[k + r].move => args[k + r].at < 0)
      BY <1>3, <3>1
    <3> QED
      BY <3>2, <3>3 DEF MovesAbove
  <2> HIDE DEF new, n
  <2> QED
    BY <1>1, <2>1, <2>2, ConstructSpares
<1>5. AllSpare(move, at)
  <2>1. CASE r = 0
    BY <2>1, NoneSpares
  <2>2. CASE r # 0
    <3>1. AllSpare(MoveRange(at, e, at + n, e + n - r), at)
      <4> DEFINE to == at + n
                 m == e + n - r
      <4>1. to = at + n /\ m = e + n - r /\ n \in Nat /\ r <= n
        BY <1>1
      <4> HIDE DEF n, to, m
      <4>2. AllSpare(MoveRange(at, e, to, m), at)
        BY <1>1, <4>1, MoveSpares
      <4> QED
        BY <4>2 DEF to, m
    <3> QED
      BY <2>2, <3>1
  <2> QED
    BY <2>1, <2>2
<1>6. AllSpare(over, at)
  <2>1. ASSUME NEW k \in 1 .. r PROVE over[k] \in Steps /\ Spares(over[k], at)
    <3>1. args[k] \in Args /\ args[k].at \in Int /\ (args[k].move => args[k].at < 0) /\ k \in 1 .. n
      BY <1>1, <1>3
    <3>2. MovesAbove(Followed(args[k], at, n), at)
      <4>1. CASE args[k].at >= at
        <5>1. Followed(args[k], at, n) = [args[k] EXCEPT !.at = args[k].at + n] /\ ~ args[k].move
          BY <1>1, <3>1, <4>1 DEF Followed
        <5>2. /\ [args[k] EXCEPT !.at = args[k].at + n] \in Args
              /\ ~ [args[k] EXCEPT !.at = args[k].at + n].move
          BY <1>1, <3>1, <5>1 DEF Args
        <5> QED
          BY <5>1, <5>2 DEF MovesAbove
      <4>2. CASE ~ (args[k].at >= at)
        BY <3>1, <4>2 DEF Followed, MovesAbove
      <4> QED
        BY <4>1, <4>2
    <3>3. at + k - 1 \in Int /\ at + k - 1 >= at
      BY <1>1
    <3>4. over[k] = Assign(at + k - 1, Followed(args[k], at, n))
      OBVIOUS
    <3> HIDE DEF over, n
    <3> QED
      BY <1>1, <3>2, <3>3, <3>4, StepSpares
  <2>2. over = [k \in 1 .. r |-> over[k]]
    OBVIOUS
  <2> HIDE DEF over
  <2> QED
    BY <1>1, <2>1, <2>2, ListSpares
<1> HIDE DEF new, move, over, n
<1>7. AllSpare(ConstructAll(new) \o move \o over, at)
  BY <1>4, <1>5, <1>6, ThenSpares
<1> QED
  BY <1>2, <1>7

-------------------------------------------------------------------------------
(* What a throw leaves, operation by operation.                            *)

(* What ThrowsSafely says of one step.                                     *)
ThrowIsSafe ==
  last'.threw =>
    /\ SubSeq(Contents(v'), 1, last'.from) = SubSeq(contents, 1, last'.from)
    /\ last'.op \in {"push_back", "pop_back_value", "reserve"} \/
       (last'.op # "assign" /\ last'.op # "insert_input" /\ size + Len(last'.by) > capacity)
         => v' = v

(* An operation that need not have changed nothing when it throws.         *)
MayChange(op, by) ==
  /\ op \notin {"push_back", "pop_back_value", "reserve"}
  /\ op \in {"assign", "insert_input"} \/ ~ (size + Len(by) > capacity)

LEMMA FitsMayChange ==
  ASSUME NEW cap \in 0 .. MaxSize, Good(v, cap), NEW op, op \notin {"push_back", "pop_back_value", "reserve"},
         NEW by, NEW n \in Nat, Len(by) = n, size + n <= capacity
  PROVE  MayChange(op, by)
<1>1. size \in Nat /\ capacity \in Nat
  BY SizeIs
<1>2. ~ (size + n > capacity)
  BY <1>1
<1> QED
  BY <1>2 DEF MayChange

LEMMA UnchangedIsSafe == v' = v => ThrowIsSafe
  BY DEF ThrowIsSafe, contents

(* A good block has a shape.                                               *)
LEMMA GoodShaped ==
  ASSUME NEW cap \in Nat, NEW b, Good(b, cap)
  PROVE  Shaped(b, cap)
<1>1. b \in Blocks(cap) /\ b.end \in Int
  BY DEF Good, Blocks
<1>2. b \in BlocksOf(Lives \cup {Raw}, cap)
  BY <1>1 DEF Blocks, BlocksOf, Cells
<1> QED
  BY <1>2 DEF Shaped

(* What NextSound has shown.                                               *)
GoodAfter == \E d \in 0 .. MaxSize : Good(v', d)

(* If the elements below are left alone, so is the front of the contents.  *)
LEMMA KeptFront ==
  ASSUME NEW cap \in 0 .. MaxSize, Good(v, cap), GoodAfter, NEW from \in 0 .. size,
         NEW c, Keeps(v, v', from, c)
  PROVE  SubSeq(Contents(v'), 1, from) = SubSeq(contents, 1, from)
<1>1. cap \in Nat /\ size \in 0 .. cap /\ size \in Nat /\ contents \in Seq(Lives) /\ Len(contents) = size
  BY SizeIs
<1>2. PICK d \in 0 .. MaxSize : Good(v', d)
  BY DEF GoodAfter
<1>3. d \in Nat
  BY Constants
<1>4. Contents(v') \in Seq(Lives) /\ Len(Contents(v')) = v'.end /\ v'.end \in 0 .. d
  BY <1>2, <1>3, ContentsAre, GoodHas
<1>5. from <= v'.end /\ from \in Nat /\ \A i \in 0 .. from - 1 : v'.cells[i] = v.cells[i]
  BY <1>1 DEF Keeps
<1>6. ASSUME NEW i \in 1 .. from PROVE Contents(v')[i] = contents[i]
  <2>1. i \in 1 .. v'.end /\ i \in 1 .. v.end /\ i - 1 \in 0 .. from - 1
    BY <1>1, <1>4, <1>5 DEF size
  <2> QED
    BY <1>5, <2>1 DEF Contents, contents
<1> DEFINE p == SubSeq(Contents(v'), 1, from)
           q == SubSeq(contents, 1, from)
<1>7. p \in Seq(Lives) /\ Len(p) = from /\ \A i \in 1 .. from : p[i] = Contents(v')[i]
  BY <1>4, <1>5
<1>8. q \in Seq(Lives) /\ Len(q) = from /\ \A i \in 1 .. from : q[i] = contents[i]
  BY <1>1, <1>5
<1> HIDE DEF p, q
<1>9. p = q
  BY <1>6, <1>7, <1>8
<1> QED
  BY <1>9 DEF p, q

(* An operation in place, whose steps spare what is before its position.   *)
LEMMA AttemptSafe ==
  ASSUME NEW cap \in 0 .. MaxSize, Good(v, cap), GoodAfter, NEW from \in 0 .. size,
         NEW c \in Nat, NEW b, Keeps(v, b, from, c), from <= c, NEW steps, Spared(steps, from),
         NEW op, NEW to, NEW by, MayChange(op, by), Attempt(op, from, to, by, b, steps)
  PROVE  ThrowIsSafe
<1> SUFFICES ASSUME last'.threw PROVE ThrowIsSafe
  BY DEF ThrowIsSafe
<1>1. size \in Nat /\ from \in 0 .. c
  BY SizeIs
<1>2. Keeps(b, v', from, c)
  BY <1>1, AttemptSpares DEF Keeps
<1>3. Keeps(v, v', from, c)
  BY <1>2 DEF Keeps
<1>4. last'.op = op /\ last'.from = from /\ last'.by = by
  BY DEF Attempt, End
<1>5. SubSeq(Contents(v'), 1, last'.from) = SubSeq(contents, 1, last'.from)
  BY <1>3, <1>4, KeptFront
<1>6. ~ (last'.op \in {"push_back", "pop_back_value", "reserve"} \/
          (last'.op # "assign" /\ last'.op # "insert_input" /\ size + Len(last'.by) > capacity))
  BY <1>4 DEF MayChange
<1> QED
  BY <1>5, <1>6 DEF ThrowIsSafe

(* In the block the vector has.                                            *)
LEMMA InPlaceSafe ==
  ASSUME NEW cap \in 0 .. MaxSize, Good(v, cap), GoodAfter, NEW from \in 0 .. size,
         NEW steps, Spared(steps, from),
         NEW op, NEW to, NEW by, MayChange(op, by), Attempt(op, from, to, by, v, steps)
  PROVE  ThrowIsSafe
<1>1. cap \in Nat /\ size \in 0 .. cap
  BY SizeIs
<1>2. Keeps(v, v, from, cap) /\ from <= cap
  BY <1>1, GoodShaped DEF Keeps, size
<1> QED
  BY <1>1, <1>2, AttemptSafe

LEMMA RegrowSafe ==
  ASSUME NEW op, NEW to, NEW at, NEW xs, Regrow(op, to, at, xs)
  PROVE  ThrowIsSafe
<1>1. ~ last'.threw \/ v' = v
  BY DEF Regrow, End
<1> QED
  BY <1>1, UnchangedIsSafe DEF ThrowIsSafe

(* If only the first step may throw, and it is no rotation, nothing has    *)
(* been done when it does.                                                 *)
LEMMA FirstThrows ==
  ASSUME NEW op, NEW from, NEW to, NEW by, NEW steps \in Seq(Steps), Attempt(op, from, to, by, v, steps),
         \A k \in 1 .. Len(steps) : MayThrow(steps[k]) => k = 1 /\ steps[1].do # "rotate"
  PROVE  ThrowIsSafe
<1> SUFFICES ASSUME last'.threw PROVE v' = v
  BY UnchangedIsSafe DEF ThrowIsSafe
<1>1. PICK k \in 1 .. Len(steps) :
        MayThrow(steps[k]) /\ v' = Broken(Run(v, SubSeq(steps, 1, k - 1)), steps[k])
  BY DEF Attempt, End
<1>2. k = 1 /\ Len(steps) \in Nat /\ steps[k].do # "rotate"
  BY <1>1
<1> DEFINE s == SubSeq(steps, 1, k - 1)
<1>3. Len(s) = 0 /\ 0 \in Nat
  BY <1>2
<1> HIDE DEF s
<1>4. Run(v, s) = v
  <2>1. Len(s) \in Nat
    BY <1>3
  <2>2. PICK r : /\ r = [j \in 0 .. Len(s) |-> IF j = 0 THEN v ELSE Do(r[j - 1], s[j])]
                 /\ Run(v, s) = r[Len(s)]
    BY <2>1, RunIs
  <2>3. Run(v, s) = r[0] /\ 0 \in 0 .. Len(s)
    BY <1>3, <2>2
  <2>4. r[0] = v
    BY <2>2, <2>3
  <2> QED
    BY <2>3, <2>4
<1> QED
  BY <1>1, <1>2, <1>4 DEF Broken, s

LEMMA ArgumentUnmoved ==
  ASSUME NEW cap \in 0 .. MaxSize, Good(v, cap), NEW arg \in Arguments
  PROVE  arg.move => arg.at < 0
<1>1. ASSUME NEW x \in Values PROVE Value(x).at < 0 /\ Moved(Value(x)).at < 0
  BY DEF Value, Moved
<1>2. ASSUME NEW i \in 0 .. size - 1 PROVE ~ ElementAt(i).move
  BY DEF ElementAt
<1> QED
  BY <1>1, <1>2 DEF Arguments

LEMMA PushBackSafe ==
  ASSUME NEW cap \in 0 .. MaxSize, Good(v, cap), NEW arg \in Arguments, PushBack(arg)
  PROVE  ThrowIsSafe
<1>1. CASE size < capacity
  <2>1. arg \in Args
    BY ArgumentReadable
  <2>2. Construct(arg).do = "construct" /\ Construct(arg) \in Steps
    BY <2>1 DEF Construct, Steps, StepKinds
  <2>3. <<Construct(arg)>> \in Seq(Steps) /\ Len(<<Construct(arg)>>) = 1 /\ <<Construct(arg)>>[1] = Construct(arg)
    BY <2>2
  <2>4. Attempt("push_back", size, size, ReadAll(<<arg>>), v, <<Construct(arg)>>)
    BY <1>1 DEF PushBack
  <2> DEFINE s == <<Construct(arg)>>
  <2>5. \A k \in 1 .. Len(s) : MayThrow(s[k]) => k = 1 /\ s[1].do # "rotate"
    BY <2>2, <2>3
  <2>6. s \in Seq(Steps) /\ Attempt("push_back", size, size, ReadAll(<<arg>>), v, s)
    BY <2>3, <2>4
  <2> HIDE DEF s
  <2> QED
    BY <2>5, <2>6, FirstThrows
<1>2. CASE ~ (size < capacity)
  BY <1>2, RegrowSafe DEF PushBack
<1> QED
  BY <1>1, <1>2

LEMMA DestroyNever == Destroy \in Steps /\ ~ MayThrow(Destroy) /\ Destroy.do = "destroy"
<1>1. Value(Default) \in Args
  BY Constants DEF Value, Args
<1> QED
  BY <1>1 DEF Destroy, Steps, StepKinds, MayThrow

LEMMA PopBackSafe ==
  ASSUME PopBack PROVE ThrowIsSafe
<1>1. Attempt("pop_back", size - 1, size, <<>>, v, <<Destroy>>)
  BY DEF PopBack
<1>2. <<Destroy>> \in Seq(Steps) /\ Len(<<Destroy>>) = 1 /\ <<Destroy>>[1] = Destroy
  BY DestroyNever
<1> DEFINE s == <<Destroy>>
<1>3. \A k \in 1 .. Len(s) : MayThrow(s[k]) => k = 1 /\ s[1].do # "rotate"
  BY <1>2, DestroyNever
<1>4. s \in Seq(Steps) /\ Attempt("pop_back", size - 1, size, <<>>, v, s)
  BY <1>1, <1>2
<1> HIDE DEF s
<1> QED
  BY <1>3, <1>4, FirstThrows

LEMMA PopBackValueSafe ==
  ASSUME NEW cap \in 0 .. MaxSize, Good(v, cap), PopBackValue
  PROVE  ThrowIsSafe
<1> DEFINE back == ElementAt(size - 1)
           step == Temporary(IF nothrow THEN Moved(back) ELSE back)
<1>1. size \in Nat /\ size > 0
  BY SizeIs DEF PopBackValue
<1>2. back \in Args /\ Moved(back) \in Args
  BY <1>1, ElementReadable DEF Readable
<1>3. step.do = "temporary" /\ step \in Steps
  BY <1>2 DEF Temporary, Steps, StepKinds
<1>4. Attempt("pop_back_value", size - 1, size, <<>>, v, <<step, Destroy>>)
  BY DEF PopBackValue
<1> HIDE DEF step
<1>5. /\ <<step, Destroy>> \in Seq(Steps) /\ Len(<<step, Destroy>>) = 2
      /\ <<step, Destroy>>[1] = step /\ <<step, Destroy>>[2] = Destroy
  BY <1>3, DestroyNever
<1>6. \A k \in 1 .. 2 : MayThrow(<<step, Destroy>>[k]) => k = 1 /\ step.do # "rotate"
  BY <1>3, <1>5, DestroyNever
<1> QED
  BY <1>4, <1>5, <1>6, FirstThrows

LEMMA InsertSafe ==
  ASSUME NEW cap \in 0 .. MaxSize, Good(v, cap), GoodAfter, NEW at \in 0 .. size, NEW args,
         Unmoved(args), Insert(at, args)
  PROVE  ThrowIsSafe
<1>1. size \in Nat
  BY SizeIs
<1>2. CASE size + Len(args) <= capacity
  <2>1. Attempt("insert", at, at, ReadAll(args), v, InsertSteps(size, at, args))
    BY <1>2 DEF Insert
  <2>2. AllSpare(InsertSteps(size, at, args), at)
    BY <1>1, InsertSpares
  <2>3. Spared(InsertSteps(size, at, args), at)
    <3>1. 0 \in Nat
      OBVIOUS
    <3> QED
      BY <2>2, <3>1, AllSpared
  <2>4. Len(ReadAll(args)) = Len(args)
    BY DEF ReadAll, Unmoved
  <2>5. MayChange("insert", ReadAll(args))
    <3>1. Len(args) \in Nat
      BY DEF Unmoved
    <3> QED
      BY <1>2, <2>4, <3>1, FitsMayChange
  <2> QED
    BY <2>1, <2>3, <2>5, InPlaceSafe
<1>3. CASE ~ (size + Len(args) <= capacity)
  BY <1>3, RegrowSafe DEF Insert
<1> QED
  BY <1>2, <1>3

LEMMA EmplaceSafe ==
  ASSUME NEW cap \in 0 .. MaxSize, Good(v, cap), GoodAfter, NEW at \in 0 .. size, NEW x \in Values,
         Emplace(at, x)
  PROVE  ThrowIsSafe
<1> DEFINE temporary == IF at = size THEN <<>> ELSE <<Temporary(Value(x))>>
           arg == IF at = size THEN Value(x) ELSE Moved(Value(x))
<1>1. size \in Nat /\ capacity \in Nat /\ x \in Lives
  BY SizeIs, Constants
<1>2. CASE size < capacity
  <2>1. Value(x) \in Args /\ Value(x).at = -1
    BY <1>1 DEF Value, Args
  <2>2. arg \in Args /\ arg.at = -1
    BY <2>1 DEF Moved, Args
  <2>3. <<arg>> \in Seq(Args) /\ Len(<<arg>>) = 1 /\ <<arg>>[1] = arg
    BY <2>2
  <2>4. Unmoved(<<arg>>)
    BY <2>2, <2>3 DEF Unmoved
  <2>5. AllSpare(temporary, at)
    <3>1. CASE at = size
      BY <3>1, NoneSpares
    <3>2. CASE at # size
      <4>1. MovesAbove(Value(x), at) /\ at \in Nat
        BY <1>1, <2>1 DEF MovesAbove
      <4>2. Temporary(Value(x)) \in Steps /\ Spares(Temporary(Value(x)), at)
        BY <4>1, StepSpares
      <4>3. AllSpare(<<Temporary(Value(x))>>, at)
        BY <4>2 DEF AllSpare
      <4> QED
        BY <3>2, <4>3
    <3> QED
      BY <3>1, <3>2
  <2>6. Attempt("emplace", at, at, <<x>>, v, temporary \o InsertSteps(size, at, <<arg>>))
    BY <1>2 DEF Emplace
  <2> HIDE DEF temporary, arg
  <2>7. AllSpare(InsertSteps(size, at, <<arg>>), at)
    BY <1>1, <2>4, InsertSpares
  <2>8. AllSpare(temporary \o InsertSteps(size, at, <<arg>>), at) /\ 0 \in Nat
    BY <2>5, <2>7, ThenSpares
  <2>9. Spared(temporary \o InsertSteps(size, at, <<arg>>), at)
    BY <2>8, AllSpared
  <2>10. MayChange("emplace", <<x>>)
    BY <1>1, <1>2 DEF MayChange
  <2> QED
    BY <2>6, <2>9, <2>10, InPlaceSafe
<1>3. CASE ~ (size < capacity)
  BY <1>3, RegrowSafe DEF Emplace
<1> QED
  BY <1>2, <1>3

LEMMA EraseSafe ==
  ASSUME NEW cap \in 0 .. MaxSize, Good(v, cap), GoodAfter, NEW from \in 0 .. size, NEW to \in 0 .. size,
         Erase(from, to)
  PROVE  ThrowIsSafe
<1> DEFINE moves == [k \in 1 .. size - to |-> Assign(from + k - 1, Moved(ElementAt(to + k - 1)))]
<1>1. size \in Nat /\ size <= capacity /\ from < to /\ size - to \in Nat /\ from \in Nat /\ to - from \in Nat
  BY SizeIs DEF Erase
<1>2. ASSUME NEW k \in 1 .. size - to PROVE moves[k] \in Steps /\ Spares(moves[k], from)
  <2>1. /\ from + k - 1 \in Int /\ from + k - 1 >= from
        /\ to + k - 1 \in Int /\ to + k - 1 >= from
    BY <1>1
  <2>2. moves[k] = Assign(from + k - 1, Moved(ElementAt(to + k - 1)))
    OBVIOUS
  <2> HIDE DEF moves
  <2> QED
    BY <1>1, <2>1, <2>2, ElementMoves, StepSpares
<1>3. moves = [k \in 1 .. size - to |-> moves[k]]
  OBVIOUS
<1>4. Attempt("erase", from, to, <<>>, v, moves \o DestroyLast(to - from))
  BY DEF Erase
<1> HIDE DEF moves
<1>5. AllSpare(moves, from)
  BY <1>1, <1>2, <1>3, ListSpares
<1>6. Spared(moves \o DestroyLast(to - from), from)
  BY <1>1, <1>5, AllSpared
<1>7. MayChange("erase", <<>>)
  <2>1. Len(<<>>) = 0 /\ 0 \in Nat /\ size + 0 <= capacity
    BY <1>1
  <2> QED
    BY <2>1, FitsMayChange
<1> QED
  BY <1>4, <1>6, <1>7, InPlaceSafe

LEMMA AppendSafe ==
  ASSUME NEW cap \in 0 .. MaxSize, Good(v, cap), GoodAfter, NEW n \in 1 .. MaxArgs, NEW arg \in Arguments,
         ~ arg.move, AppendCopies(n, arg)
  PROVE  ThrowIsSafe
<1> DEFINE args == [k \in 1 .. n |-> arg]
<1>1. size \in Nat /\ n \in Nat /\ arg \in Args /\ size \in 0 .. size
  BY SizeIs, Constants, ArgumentReadable
<1>2. CASE size + n <= capacity
  <2>1. Attempt("append", size, size, ReadAll(args), v, ConstructAll(args))
    BY <1>2 DEF AppendCopies
  <2>2. DOMAIN args = 1 .. n /\ \A k \in 1 .. n : MovesAbove(args[k], size)
    BY <1>1 DEF MovesAbove
  <2>3. Len(ReadAll(args)) = n
    BY <1>1, <2>2 DEF ReadAll
  <2> HIDE DEF args
  <2>4. AllSpare(ConstructAll(args), size) /\ 0 \in Nat
    BY <1>1, <2>2, ConstructSpares
  <2>5. Spared(ConstructAll(args), size)
    BY <2>4, AllSpared
  <2>6. MayChange("append", ReadAll(args))
    BY <1>1, <1>2, <2>3, FitsMayChange
  <2> QED
    BY <1>1, <2>1, <2>5, <2>6, InPlaceSafe
<1>3. CASE ~ (size + n <= capacity)
  BY <1>3, RegrowSafe DEF AppendCopies
<1> QED
  BY <1>2, <1>3

LEMMA ShrinkSafe ==
  ASSUME NEW cap \in 0 .. MaxSize, Good(v, cap), NEW n \in 0 .. size, Shrink(n)
  PROVE  ThrowIsSafe
<1> DEFINE s == DestroyLast(size - n)
<1>1. size - n \in Nat
  BY SizeIs
<1>2. s \in Seq(Steps) /\ \A k \in 1 .. Len(s) : s[k] = Destroy
  BY <1>1, DestroyNever DEF DestroyLast
<1>3. Attempt("shrink", n, size, <<>>, v, s)
  BY DEF Shrink
<1> HIDE DEF s
<1> QED
  BY <1>2, <1>3, DestroyNever, FirstThrows

(* Nothing lies before what is assigned.                                   *)
LEMMA AssignSafe ==
  ASSUME last'.op = "assign", last'.from = 0, GoodAfter
  PROVE  ThrowIsSafe
<1>1. PICK d \in 0 .. MaxSize : Good(v', d)
  BY DEF GoodAfter
<1>2. SubSeq(Contents(v'), 1, 0) = <<>> /\ SubSeq(contents, 1, 0) = <<>>
  OBVIOUS
<1> QED
  BY <1>2 DEF ThrowIsSafe

LEMMA InsertInputSafe ==
  ASSUME NEW cap \in 0 .. MaxSize, Good(v, cap), GoodAfter, NEW at \in 0 .. size, NEW xs \in Seq(Lives),
         InsertInput(at, xs)
  PROVE  ThrowIsSafe
<1> DEFINE n == Len(xs)
           room == IF n > capacity - size THEN capacity - size ELSE n
           first == SubSeq(xs, 1, room)
           here == ConstructAll(AsValues(first))
           rest == SubSeq(xs, room + 1, n)
           rotate == IF at = size \/ room = 0 THEN <<>> ELSE <<Rotate(at, size)>>
           new == Recommend(capacity, size + n)
           reserved == Holding(contents \o first, new)
           more == InsertSteps(size + room, at + room, AsMoved(rest))
<1>1. /\ cap \in Nat /\ size \in 0 .. cap /\ size \in Nat /\ capacity = cap /\ n \in Nat
      /\ contents \in Seq(Lives) /\ Len(contents) = size /\ at \in Nat
  BY SizeIs
<1>2. room \in Nat /\ room <= n /\ size + room <= cap /\ n - room \in Nat
  BY <1>1
<1>3. \/ Attempt("insert_input", at, at, xs, v, here \o rotate)
      \/ \E k \in DOMAIN here : End("insert_input", at, at, xs, Run(v, SubSeq(here, 1, k - 1)), TRUE)
      \/ End("insert_input", at, at, xs, v, TRUE)
      \/ new <= MaxSize /\ Attempt("insert_input", at, at, xs, reserved, rotate \o more)
  BY DEF InsertInput
<1> HIDE DEF room
<1>4. first \in Seq(Lives) /\ Len(first) = room /\ rest \in Seq(Lives) /\ Len(rest) = n - room
  BY <1>1, <1>2
<1> HIDE DEF first, rest
<1>5. MayChange("insert_input", xs)
  BY DEF MayChange
<1>6. AllSpare(here, at)
  <2>1. DOMAIN AsValues(first) = 1 .. room /\ \A k \in 1 .. room : AsValues(first)[k] = Value(first[k])
    BY <1>2, <1>4 DEF AsValues
  <2>2. \A k \in 1 .. room : first[k] \in Lives
    BY <1>2, <1>4
  <2>3. \A x \in Lives : MovesAbove(Value(x), at)
    BY <1>1 DEF Value, Args, MovesAbove
  <2>4. \A k \in 1 .. room : MovesAbove(AsValues(first)[k], at)
    BY <2>1, <2>2, <2>3
  <2> QED
    BY <1>1, <1>2, <2>1, <2>4, ConstructSpares
<1>7. AllSpare(rotate, at)
  <2>1. CASE at = size \/ room = 0
    BY <2>1, NoneSpares
  <2>2. CASE ~ (at = size \/ room = 0)
    <3>1. Rotate(at, size) \in Steps /\ Spares(Rotate(at, size), at)
      BY <1>1, RotateSpares
    <3>2. AllSpare(<<Rotate(at, size)>>, at)
      BY <3>1 DEF AllSpare
    <3> QED
      BY <2>2, <3>2
  <2> QED
    BY <2>1, <2>2
<1> HIDE DEF here, rotate
<1>8. CASE Attempt("insert_input", at, at, xs, v, here \o rotate)
  <2>1. AllSpare(here \o rotate, at) /\ 0 \in Nat
    BY <1>6, <1>7, ThenSpares
  <2>2. Spared(here \o rotate, at)
    BY <2>1, AllSpared
  <2> QED
    BY <1>5, <1>8, <2>2, InPlaceSafe
<1>9. ASSUME NEW k \in DOMAIN here,
             End("insert_input", at, at, xs, Run(v, SubSeq(here, 1, k - 1)), TRUE)
      PROVE  ThrowIsSafe
  <2> DEFINE s == SubSeq(here, 1, k - 1)
  <2>1. here \in Seq(Steps) /\ \A j \in 1 .. Len(here) : Spares(here[j], at)
    BY <1>6 DEF AllSpare
  <2>2. k \in 1 .. Len(here)
    BY <2>1
  <2>3. Len(s) = k - 1 /\ \A j \in 1 .. k - 1 : s[j] = here[j]
    BY <2>1, <2>2
  <2>4. Len(s) \in Nat /\ \A j \in 1 .. Len(s) : Spares(s[j], at)
    BY <2>1, <2>2, <2>3
  <2>5. v' = Run(v, s) /\ last'.op = "insert_input" /\ last'.from = at
    BY <1>9 DEF End
  <2> HIDE DEF s
  <2>6. Keeps(v, Run(v, s), at, cap)
    <3>1. Shaped(v, cap) /\ v.end >= at /\ at \in 0 .. cap
      BY <1>1, GoodShaped DEF size
    <3> QED
      BY <1>1, <2>4, <3>1, RunSpares
  <2>7. SubSeq(Contents(v'), 1, at) = SubSeq(contents, 1, at)
    BY <2>5, <2>6, KeptFront
  <2> QED
    BY <2>5, <2>7 DEF ThrowIsSafe
<1>10. CASE End("insert_input", at, at, xs, v, TRUE)
  BY <1>10, UnchangedIsSafe DEF End
<1>11. CASE new <= MaxSize /\ Attempt("insert_input", at, at, xs, reserved, rotate \o more)
  <2>1. new \in Nat /\ new >= size + n
    <3>1. size + n \in Nat /\ capacity \in Nat
      BY <1>1
    <3> QED
      BY <3>1, RecommendIs
  <2> HIDE DEF new
  <2>2. contents \o first \in Seq(Lives) /\ Len(contents \o first) = size + room /\ size + room <= new
    <3>1. contents \o first \in Seq(Lives) /\ Len(contents \o first) = size + room
      BY <1>1, <1>4
    <3>2. size + room <= size + n /\ size + n \in Nat /\ size + room \in Nat
      BY <1>1, <1>2
    <3>3. size + room <= new
      BY <2>1, <3>2
    <3> QED
      BY <3>1, <3>3
  <2>3. Good(reserved, new) /\ reserved.end = size + room
    <3>1. /\ Good(Holding(contents \o first, new), new)
          /\ Holding(contents \o first, new).end = Len(contents \o first)
      BY <2>1, <2>2, HoldingGood
    <3> QED
      BY <2>2, <3>1
  <2>4. ASSUME NEW i \in 0 .. at - 1 PROVE reserved.cells[i] = v.cells[i]
    <3>1. i \in 0 .. new - 1 /\ i < size + room /\ i + 1 \in 1 .. size
      BY <1>1, <1>2, <2>1
    <3>2. reserved.cells[i] = (contents \o first)[i + 1]
      BY <2>2, <3>1 DEF Holding, Block
    <3>3. (contents \o first)[i + 1] = contents[i + 1]
      BY <1>1, <1>4, <3>1
    <3>4. contents[i + 1] = v.cells[i]
      BY <3>1 DEF contents, Contents, size
    <3> QED
      BY <3>2, <3>3, <3>4
  <2> HIDE DEF reserved
  <2>5. Keeps(v, reserved, at, new) /\ at <= new
    <3>1. Shaped(reserved, new)
      BY <2>1, <2>3, GoodShaped
    <3>2. reserved.end >= at /\ at <= new
      BY <1>1, <1>2, <2>1, <2>3
    <3> QED
      BY <2>4, <3>1, <3>2 DEF Keeps
  <2>6. Unmoved(AsMoved(rest))
    <3>1. AsMoved(rest) \in Seq(Args) /\ Len(AsMoved(rest)) = n - room
      BY <1>1, <1>4, ValuesReadable
    <3>2. \A k \in 1 .. n - room : AsMoved(rest)[k].at = -1
      <4>1. \A k \in 1 .. n - room : AsMoved(rest)[k] = Moved(Value(rest[k]))
        BY <1>2, <1>4 DEF AsMoved
      <4>2. \A x : Moved(Value(x)).at = -1
        BY DEF Moved, Value
      <4> QED
        BY <4>1, <4>2
    <3> QED
      BY <3>1, <3>2 DEF Unmoved
  <2>7. AllSpare(more, at)
    <3>1. size + room \in Nat /\ at + room \in 0 .. size + room
      BY <1>1, <1>2
    <3>2. AllSpare(more, at + room)
      BY <2>6, <3>1, InsertSpares
    <3> HIDE DEF more
    <3>3. ASSUME NEW step, Spares(step, at + room) PROVE Spares(step, at)
      BY <1>1, <1>2, <3>3 DEF Spares
    <3> QED
      BY <3>2, <3>3 DEF AllSpare
  <2> HIDE DEF more
  <2>8. AllSpare(rotate \o more, at) /\ 0 \in Nat
    BY <1>7, <2>7, ThenSpares
  <2>9. Spared(rotate \o more, at)
    BY <2>8, AllSpared
  <2>10. Attempt("insert_input", at, at, xs, reserved, rotate \o more)
    BY <1>11
  <2> QED
    BY <1>5, <2>1, <2>5, <2>9, <2>10, AttemptSafe
<1> QED
  BY <1>3, <1>8, <1>9, <1>10, <1>11

LEMMA NextSafe == IInv /\ [Next]_vars => ThrowIsSafe \/ UNCHANGED vars
<1> SUFFICES ASSUME IInv, Next PROVE ThrowIsSafe
  OBVIOUS
<1>1. PICK cap \in 0 .. MaxSize : Good(v, cap)
  BY DEF IInv
<1>2. GoodAfter
  BY NextSound DEF IInv, GoodAfter
<1>3. CASE \E arg \in Arguments : PushBack(arg)
  BY <1>1, <1>3, PushBackSafe
<1>4. CASE PopBack \/ PopBackValue \/ ShrinkToFit
  <2>1. ShrinkToFit => ~ last'.threw
    BY DEF ShrinkToFit, End
  <2> QED
    BY <1>1, <1>4, <2>1, PopBackSafe, PopBackValueSafe DEF ThrowIsSafe
<1>5. ASSUME NEW at \in 0 .. size, NEW arg \in Arguments, Insert(at, <<arg>>) PROVE ThrowIsSafe
  <2>1. arg \in Args /\ (arg.move => arg.at < 0)
    BY <1>1, ArgumentReadable, ArgumentUnmoved
  <2>2. Unmoved(<<arg>>)
    BY <2>1 DEF Unmoved
  <2> QED
    BY <1>1, <1>2, <1>5, <2>2, InsertSafe
<1>6. ASSUME NEW at \in 0 .. size, NEW n \in 2 .. MaxArgs, NEW arg \in Arguments,
             ~ arg.move, Insert(at, [k \in 1 .. n |-> arg])
      PROVE  ThrowIsSafe
  <2> DEFINE args == [k \in 1 .. n |-> arg]
  <2>1. arg \in Args /\ n \in Nat
    BY <1>1, ArgumentReadable, Constants
  <2>2. args \in Seq(Args) /\ Len(args) = n /\ \A k \in 1 .. n : args[k] = arg
    BY <2>1, CopiesAre
  <2>3. Insert(at, args)
    BY <1>6
  <2> HIDE DEF args
  <2>4. Unmoved(args)
    BY <1>6, <2>2 DEF Unmoved
  <2> QED
    BY <1>1, <1>2, <2>3, <2>4, InsertSafe
<1>7. CASE \E at \in 0 .. size, x \in Values : Emplace(at, x)
  BY <1>1, <1>2, <1>7, EmplaceSafe
<1>8. ASSUME NEW at \in 0 .. size, NEW xs \in Ranges, Insert(at, AsValues(xs)) \/ InsertInput(at, xs)
      PROVE  ThrowIsSafe
  <2>1. xs \in Seq(Lives)
    BY RangeLives
  <2>2. Unmoved(AsValues(xs))
    <3>1. AsValues(xs) \in Seq(Args) /\ Len(AsValues(xs)) = Len(xs)
      <4>1. 0 \in Nat
        OBVIOUS
      <4> QED
        BY <2>1, <4>1, ValuesReadable
    <3>2. \A k \in 1 .. Len(xs) : AsValues(xs)[k] = Value(xs[k])
      BY <2>1 DEF AsValues
    <3>3. \A x : ~ Value(x).move
      BY DEF Value
    <3> QED
      BY <3>1, <3>2, <3>3 DEF Unmoved
  <2> QED
    BY <1>1, <1>2, <1>8, <2>1, <2>2, InsertSafe, InsertInputSafe
<1>9. CASE \E from, to \in 0 .. size : Erase(from, to)
  BY <1>1, <1>2, <1>9, EraseSafe
<1>10. CASE \E n \in 1 .. MaxArgs, arg \in Arguments : ~ arg.move /\ AppendCopies(n, arg)
  BY <1>1, <1>2, <1>10, AppendSafe
<1>11. CASE \E n \in 0 .. size : Shrink(n)
  BY <1>1, <1>11, ShrinkSafe
<1>12. CASE \E n \in 0 .. MaxSize + 1 : Reserve(n)
  BY <1>12, RegrowSafe DEF Reserve
<1>13. CASE \E xs \in Ranges : AssignAll(xs) \/ AssignInput(xs)
  <2>1. ASSUME NEW xs \in Ranges, AssignAll(xs) PROVE last'.op = "assign" /\ last'.from = 0
    <3>1. \/ \E b, steps : Attempt("assign", 0, size, xs, b, steps)
          \/ End("assign", 0, size, xs, Null, TRUE)
      BY <2>1, Zenon DEF AssignAll
    <3> QED
      BY <3>1 DEF Attempt, End
  <2>2. ASSUME NEW xs \in Ranges, AssignInput(xs) PROVE last'.op = "assign" /\ last'.from = 0
    <3>1. \E by, b, threw : End("assign", 0, size, by, b, threw)
      BY <2>2, Zenon DEF AssignInput
    <3> QED
      BY <3>1 DEF End
  <2> QED
    BY <1>2, <1>13, <2>1, <2>2, AssignSafe
<1> QED
  BY <1>3, <1>4, <1>5, <1>6, <1>7, <1>8, <1>9, <1>10, <1>11, <1>12, <1>13 DEF Next

(* Whichever element operation throws, and wherever in an operation of the *)
(* vector: the elements before its position are as they were; and a        *)
(* push_back, an insertion into new memory, a reserve and a pop_back_value *)
(* have changed nothing.                                                   *)
THEOREM ThrowsAreSafe == Spec => ThrowsSafely
<1>1. Spec => []IInv
  BY InitSound, NextSound, PTL DEF Spec
<1>2. IInv /\ [Next]_vars => [ThrowIsSafe]_vars
  BY NextSafe
<1> QED
  BY <1>1, <1>2, PTL DEF Spec, ThrowsSafely, ThrowIsSafe

-------------------------------------------------------------------------------
(* What operations make of the contents.                                   *)

(* The cells a step writes to, when the end is at e.                       *)
Writes(step, e, i) ==
  \/ step.do = "construct" /\ i = e
  \/ step.do = "assign" /\ i = step.to
  \/ step.do = "destroy" /\ i = e - 1
  \/ step.do = "rotate"
  \/ step.do \in {"construct", "assign"} /\ step.arg.move /\ i = step.arg.at

(* A cell as it was, and one with the value of an argument.                *)
SameCell(b, c, i) == c.cells[i] = b.cells[i]
HasRead(b, c, i, arg) == c.cells[i] = Read(b, arg)
Target(step, e) == IF step.do = "construct" THEN e ELSE step.to

LEMMA WithoutCells ==
  ASSUME NEW cap \in Nat, NEW b, Good(b, cap), NEW step, Fits(step, b.end, cap)
  PROVE  /\ Good(Without(b, step), cap) /\ Without(b, step).end = b.end
         /\ \A i \in 0 .. cap - 1 : ~ (step.arg.move /\ i = step.arg.at) => SameCell(b, Without(b, step), i)
<1>1. Good(Without(b, step), cap) /\ Without(b, step).end = b.end
  BY WithoutGood
<1>2. CASE step.arg.move /\ step.arg.at >= 0
  <2>1. Readable(step.arg, b.end) /\ b.end \in 0 .. cap /\ b.cells \in Cells(cap)
    BY FitsHas, GoodHas
  <2>2. step.arg.at \in 0 .. cap - 1
    BY <1>2, <2>1 DEF Readable, Args
  <2>3. Unspecified \in Lives \cup {Raw}
    BY DEF Lives
  <2> DEFINE c == [b.cells EXCEPT ![step.arg.at] = Unspecified]
  <2>4. Put(b, step.arg.at, Unspecified, TRUE) = [cells |-> c, end |-> b.end, fault |-> FALSE]
    BY <2>2, <2>3, PutIs
  <2>5. Without(b, step) = Put(b, step.arg.at, Unspecified, TRUE)
    BY <1>2 DEF Without
  <2>6. \A i \in 0 .. cap - 1 : i # step.arg.at => c[i] = b.cells[i]
    BY <2>1 DEF Cells
  <2> HIDE DEF c
  <2>7. Without(b, step).cells = c
    <3> DEFINE p == Without(b, step)
    <3>1. p = [cells |-> c, end |-> b.end, fault |-> FALSE]
      BY <2>4, <2>5
    <3> HIDE DEF p
    <3>2. p.cells = c
      BY <3>1
    <3> QED
      BY <3>2 DEF p
  <2> QED
    BY <1>1, <1>2, <2>6, <2>7 DEF SameCell
<1>3. CASE ~ (step.arg.move /\ step.arg.at >= 0)
  BY <1>1, <1>3 DEF Without, SameCell
<1> QED
  BY <1>2, <1>3

LEMMA PutCells ==
  ASSUME NEW cap \in Nat, NEW b, Good(b, cap), NEW i \in 0 .. cap - 1, NEW x \in Lives \cup {Raw}
  PROVE  /\ Put(b, i, x, TRUE).cells[i] = x
         /\ \A j \in 0 .. cap - 1 : j # i => SameCell(b, Put(b, i, x, TRUE), j)
<1> DEFINE c == [b.cells EXCEPT ![i] = x]
<1>1. b.cells \in Cells(cap)
  BY GoodHas
<1>2. c[i] = x /\ \A j \in 0 .. cap - 1 : j # i => c[j] = b.cells[j]
  BY <1>1 DEF Cells
<1>3. Put(b, i, x, TRUE) = [cells |-> c, end |-> b.end, fault |-> FALSE]
  BY PutIs
<1> HIDE DEF c
<1>4. Put(b, i, x, TRUE).cells = c
  <2> DEFINE p == Put(b, i, x, TRUE)
  <2>1. p = [cells |-> c, end |-> b.end, fault |-> FALSE]
    BY <1>3
  <2> HIDE DEF p
  <2>2. p.cells = c
    BY <2>1
  <2> QED
    BY <2>2 DEF p
<1> QED
  BY <1>2, <1>4 DEF SameCell

(* What a step does to the cells of a good block.                          *)
LEMMA DoCells ==
  ASSUME NEW cap \in Nat, NEW b, Good(b, cap), NEW step, Fits(step, b.end, cap)
  PROVE  /\ \A i \in 0 .. cap - 1 : ~ Writes(step, b.end, i) => SameCell(b, Do(b, step), i)
         /\ step.do \in {"construct", "assign"} => HasRead(b, Do(b, step), Target(step, b.end), step.arg)
<1> DEFINE x == Read(b, step.arg)
           w == Without(b, step)
<1>1. /\ Readable(step.arg, b.end) /\ b.end \in 0 .. cap /\ step \in Steps
      /\ step.do = "construct" => b.end \in 0 .. cap - 1
      /\ step.do = "assign" => step.to \in 0 .. b.end - 1
      /\ step.do = "destroy" => b.end \in 1 .. cap
  BY FitsHas, GoodHas DEF Fits
<1>2. x \in Lives /\ x # Raw /\ x \in Lives \cup {Raw}
  BY <1>1, ReadLives
<1>3. /\ Good(w, cap) /\ w.end = b.end
      /\ \A i \in 0 .. cap - 1 : ~ (step.arg.move /\ i = step.arg.at) => SameCell(b, w, i)
  BY WithoutCells
<1>4. /\ \A i \in 0 .. cap - 1 : i < b.end => b.cells[i] # Raw
      /\ \A i \in 0 .. cap - 1 : i >= b.end => b.cells[i] = Raw
  BY GoodHas
<1>5. CASE step.do = "construct"
  <2> DEFINE p == Put(w, b.end, x, TRUE)
  <2>1. (x # Raw /\ b.cells[b.end] = Raw) = TRUE
    BY <1>1, <1>2, <1>4, <1>5
  <2>2. Do(b, step) = [Put(w, b.end, x, x # Raw /\ b.cells[b.end] = Raw) EXCEPT !.end = @ + 1]
    BY <1>5 DEF Do
  <2>3. b.end \in 0 .. cap - 1
    BY <1>1, <1>5
  <2> HIDE DEF x, w
  <2>4. /\ p.cells[b.end] = x
        /\ \A j \in 0 .. cap - 1 : j # b.end => SameCell(w, p, j)
    BY <1>2, <1>3, <2>3, PutCells
  <2>5. p = [cells |-> [w.cells EXCEPT ![b.end] = x], end |-> w.end, fault |-> FALSE]
    BY <1>2, <1>3, <2>3, PutIs
  <2>6. Do(b, step) = [p EXCEPT !.end = @ + 1]
    BY <2>1, <2>2
  <2>7. Do(b, step).cells = p.cells
    BY <2>5, <2>6
  <2> HIDE DEF p
  <2>8. Do(b, step).cells[b.end] = x
    BY <2>4, <2>7
  <2>9. ASSUME NEW i \in 0 .. cap - 1, ~ Writes(step, b.end, i) PROVE SameCell(b, Do(b, step), i)
    <3>1. i # b.end /\ ~ (step.arg.move /\ i = step.arg.at)
      BY <1>5, <2>9 DEF Writes
    <3> QED
      BY <1>3, <2>4, <2>7, <3>1 DEF SameCell
  <2> QED
    BY <1>5, <2>8, <2>9 DEF HasRead, Target, x
<1>6. CASE step.do = "assign"
  <2> DEFINE p == Put(w, step.to, x, TRUE)
  <2>1. step.to \in 0 .. cap - 1 /\ step.to < b.end
    BY <1>1, <1>6
  <2>2. (x # Raw /\ b.cells[step.to] # Raw) = TRUE
    BY <1>2, <1>4, <2>1
  <2>3. Do(b, step) = Put(w, step.to, x, x # Raw /\ b.cells[step.to] # Raw)
    BY <1>6 DEF Do
  <2> HIDE DEF x, w
  <2>4. /\ p.cells[step.to] = x
        /\ \A j \in 0 .. cap - 1 : j # step.to => SameCell(w, p, j)
    BY <1>2, <1>3, <2>1, PutCells
  <2>5. Do(b, step) = p
    BY <2>2, <2>3
  <2> HIDE DEF p
  <2>6. ASSUME NEW i \in 0 .. cap - 1, ~ Writes(step, b.end, i) PROVE SameCell(b, Do(b, step), i)
    <3>1. i # step.to /\ ~ (step.arg.move /\ i = step.arg.at)
      BY <1>6, <2>6 DEF Writes
    <3> QED
      BY <1>3, <2>4, <2>5, <3>1 DEF SameCell
  <2> QED
    BY <1>6, <2>4, <2>5, <2>6 DEF HasRead, Target, x
<1>7. CASE step.do = "destroy"
  <2> DEFINE e == b.end - 1
             p == Put(b, e, Raw, TRUE)
  <2>1. e \in 0 .. cap - 1 /\ (b.cells[e] # Raw) = TRUE /\ e < b.end
    BY <1>1, <1>4, <1>7
  <2>2. Do(b, step) = [Put(b, e, Raw, b.cells[e] # Raw) EXCEPT !.end = @ - 1]
    BY <1>7 DEF Do
  <2>3. Do(b, step) = [p EXCEPT !.end = @ - 1]
    BY <2>1, <2>2
  <2> HIDE DEF e
  <2>4. Raw \in Lives \cup {Raw}
    OBVIOUS
  <2>5. p = [cells |-> [b.cells EXCEPT ![e] = Raw], end |-> b.end, fault |-> FALSE]
    BY <2>1, <2>4, PutIs
  <2>6. Do(b, step).cells = p.cells
    BY <2>3, <2>5
  <2>7. \A j \in 0 .. cap - 1 : j # e => SameCell(b, p, j)
    BY <2>1, <2>4, PutCells
  <2> HIDE DEF p
  <2>8. ASSUME NEW i \in 0 .. cap - 1, ~ Writes(step, b.end, i) PROVE SameCell(b, Do(b, step), i)
    <3>1. i # e
      BY <1>7, <2>8 DEF Writes, e
    <3> QED
      BY <2>6, <2>7, <3>1 DEF SameCell
  <2> QED
    BY <1>7, <2>8
<1>8. CASE step.do = "temporary"
  BY <1>8 DEF Do, SameCell
<1>9. CASE step.do = "rotate"
  BY <1>9 DEF Writes
<1> QED
  BY <1>1, <1>5, <1>6, <1>7, <1>8, <1>9 DEF Steps, StepKinds

(* The blocks that legal steps make, one after the other.                  *)
Trace(r, b, steps, cap) ==
  /\ Len(steps) \in Nat /\ r[0] = b
  /\ \A k \in 0 .. Len(steps) : Good(r[k], cap)
  /\ \A k \in 1 .. Len(steps) :
       /\ Fits(steps[k], r[k - 1].end, cap) /\ r[k] = Do(r[k - 1], steps[k])
       /\ r[k].end = EndAfter(steps[k], r[k - 1].end)
Ends(r, b, steps, f) == Run(b, steps) = r[Len(steps)] /\ r[Len(steps)].end = f

LEMMA Traced ==
  ASSUME NEW cap \in Nat, NEW b, Good(b, cap), NEW steps, NEW f, Legal(steps, b.end, f, cap)
  PROVE  \E r : Trace(r, b, steps, cap) /\ Ends(r, b, steps, f)
<1>1. Len(steps) \in Nat
  BY DEF Legal
<1>2. PICK ends : Follows(steps, ends, b.end, cap) /\ ends[Len(steps)] = f
  BY DEF Legal
<1>3. PICK r : /\ r = [k \in 0 .. Len(steps) |-> IF k = 0 THEN b ELSE Do(r[k - 1], steps[k])]
               /\ Run(b, steps) = r[Len(steps)]
  BY <1>1, RunIs
<1>4. r[0] = b /\ \A k \in 1 .. Len(steps) : r[k] = Do(r[k - 1], steps[k])
  BY <1>1, <1>3
<1> DEFINE S == {k \in 0 .. Len(steps) : Good(r[k], cap) /\ r[k].end = ends[k]}
<1>5. 0 \in S
  BY <1>1, <1>2, <1>4 DEF Follows
<1>6. ASSUME NEW k \in 0 .. Len(steps) - 1, k \in S PROVE k + 1 \in S
  <2>1. k + 1 \in 1 .. Len(steps) /\ (k + 1) - 1 = k
    BY <1>1
  <2>2. Fits(steps[k + 1], ends[k], cap) /\ ends[k + 1] = EndAfter(steps[k + 1], ends[k])
    BY <1>2, <2>1 DEF Follows
  <2>3. Good(r[k], cap) /\ r[k].end = ends[k]
    BY <1>6
  <2>4. r[k + 1] = Do(r[k], steps[k + 1])
    BY <1>4, <2>1
  <2>5. Good(r[k + 1], cap) /\ r[k + 1].end = ends[k + 1]
    BY <2>2, <2>3, <2>4, DoGood
  <2> QED
    BY <2>1, <2>5
<1> HIDE DEF S
<1>7. 0 .. Len(steps) \subseteq S
  BY <1>1, <1>5, <1>6, UpTo
<1>8. \A k \in 0 .. Len(steps) : Good(r[k], cap) /\ r[k].end = ends[k]
  BY <1>7 DEF S
<1>9. ASSUME NEW k \in 1 .. Len(steps)
      PROVE  /\ Fits(steps[k], r[k - 1].end, cap) /\ r[k] = Do(r[k - 1], steps[k])
             /\ r[k].end = EndAfter(steps[k], r[k - 1].end)
  <2>1. k \in 0 .. Len(steps) /\ k - 1 \in 0 .. Len(steps)
    BY <1>1
  <2> QED
    BY <1>2, <1>4, <1>8, <2>1 DEF Follows
<1>10. r[Len(steps)].end = f
  BY <1>1, <1>2, <1>8
<1> QED
  BY <1>1, <1>3, <1>4, <1>8, <1>9, <1>10 DEF Trace, Ends

(* A cell that none of the steps p + 1 to q writes to is as it was.        *)
Untouched(r, steps, i, p, q) == \A l \in p + 1 .. q : ~ Writes(steps[l], r[l - 1].end, i)
LEMMA CellKept ==
  ASSUME NEW cap \in Nat, NEW b, NEW steps, NEW r, Trace(r, b, steps, cap), NEW p \in 0 .. Len(steps),
         NEW q \in p .. Len(steps), NEW i \in 0 .. cap - 1, Untouched(r, steps, i, p, q)
  PROVE  SameCell(r[p], r[q], i)
<1>1. Len(steps) \in Nat
  BY DEF Trace
<1> DEFINE n == q - p
           S == {k \in 0 .. n : SameCell(r[p], r[p + k], i)}
<1>2. n \in Nat /\ p \in Nat /\ q \in Nat
  BY <1>1
<1>3. 0 \in S
  BY <1>2 DEF SameCell
<1>4. ASSUME NEW k \in 0 .. n - 1, k \in S PROVE k + 1 \in S
  <2>1. /\ p + k + 1 \in p + 1 .. q /\ p + k + 1 \in 1 .. Len(steps) /\ p + k \in 0 .. Len(steps)
        /\ (p + k + 1) - 1 = p + k /\ p + (k + 1) = p + k + 1 /\ k + 1 \in 0 .. n
    BY <1>1, <1>2
  <2>2. /\ Good(r[p + k], cap) /\ Fits(steps[p + k + 1], r[p + k].end, cap)
        /\ r[p + k + 1] = Do(r[p + k], steps[p + k + 1])
    BY <2>1 DEF Trace
  <2>3. ~ Writes(steps[p + k + 1], r[p + k].end, i)
    BY <2>1 DEF Untouched
  <2>4. SameCell(r[p + k], r[p + k + 1], i)
    BY <2>2, <2>3, DoCells
  <2>5. SameCell(r[p], r[p + k], i)
    BY <1>4
  <2>6. SameCell(r[p], r[p + k + 1], i)
    BY <2>4, <2>5 DEF SameCell
  <2> QED
    BY <2>1, <2>6
<1> HIDE DEF S
<1>5. 0 .. n \subseteq S
  BY <1>2, <1>3, <1>4, UpTo
<1>6. n \in S /\ p + n = q
  BY <1>2, <1>5
<1> QED
  BY <1>6 DEF S

(* A cell that step k was the last to write to has what the argument was,  *)
(* if no step before that wrote to it.                                     *)
LEMMA CellWritten ==
  ASSUME NEW cap \in Nat, NEW b, NEW steps, NEW r, Trace(r, b, steps, cap), NEW k \in 1 .. Len(steps),
         steps[k].do \in {"construct", "assign"}, NEW i \in 0 .. cap - 1, i = Target(steps[k], r[k - 1].end),
         Untouched(r, steps, i, k, Len(steps)),
         steps[k].arg.at >= 0 => Untouched(r, steps, steps[k].arg.at, 0, k - 1)
  PROVE  HasRead(b, r[Len(steps)], i, steps[k].arg)
<1> DEFINE arg == steps[k].arg
           n == Len(steps)
<1>1. n \in Nat /\ k \in 0 .. n /\ k - 1 \in 0 .. n /\ n \in k .. n /\ 0 \in 0 .. n /\ k - 1 \in 0 .. n
  BY DEF Trace
<1>2. Good(r[k - 1], cap) /\ Fits(steps[k], r[k - 1].end, cap) /\ r[k] = Do(r[k - 1], steps[k]) /\ r[0] = b
  BY <1>1 DEF Trace
<1>3. HasRead(r[k - 1], r[k], i, arg)
  BY <1>2, DoCells
<1>4. SameCell(r[k], r[n], i)
  BY <1>1, CellKept
<1>5. Read(r[k - 1], arg) = Read(b, arg)
  <2>1. CASE arg.at >= 0
    <3>1. Readable(arg, r[k - 1].end) /\ r[k - 1].end \in 0 .. cap
      BY <1>2, GoodHas DEF Fits
    <3>2. arg.at \in 0 .. cap - 1
      BY <2>1, <3>1 DEF Readable, Args
    <3>3. Untouched(r, steps, arg.at, 0, k - 1)
      BY <2>1
    <3> HIDE DEF arg, n
    <3>4. SameCell(r[0], r[k - 1], arg.at)
      <4> DEFINE zero == 0
                 m == k - 1
      <4>1. zero \in 0 .. Len(steps) /\ m \in zero .. Len(steps) /\ Untouched(r, steps, arg.at, zero, m)
        BY <1>1, <3>3 DEF n
      <4> HIDE DEF zero, m
      <4>2. SameCell(r[zero], r[m], arg.at)
        BY <3>2, <4>1, CellKept
      <4> QED
        BY <4>2 DEF zero, m
    <3> QED
      BY <1>2, <2>1, <3>4 DEF SameCell, Read
  <2>2. CASE ~ (arg.at >= 0)
    <3>1. arg.at \in Int
      BY <1>2 DEF Fits, Readable, Args
    <3>2. arg.at < 0
      BY <2>2, <3>1
    <3> QED
      BY <3>2 DEF Read
  <2> QED
    BY <2>1, <2>2
<1> QED
  BY <1>3, <1>4, <1>5 DEF SameCell, HasRead

LEMMA CellStays ==
  ASSUME NEW cap \in Nat, NEW b, NEW steps, NEW r, Trace(r, b, steps, cap), NEW i \in 0 .. cap - 1,
         Untouched(r, steps, i, 0, Len(steps))
  PROVE  SameCell(b, r[Len(steps)], i)
<1> DEFINE zero == 0
           n == Len(steps)
<1>1. zero \in 0 .. Len(steps) /\ n \in zero .. Len(steps) /\ Untouched(r, steps, i, zero, n) /\ r[zero] = b
  BY DEF Trace
<1> HIDE DEF zero, n
<1>2. SameCell(r[zero], r[n], i)
  BY <1>1, CellKept
<1> QED
  BY <1>1, <1>2 DEF n

(* Where the end is, on the way.                                           *)
LEMMA EndsAre ==
  ASSUME NEW cap \in Nat, NEW b, NEW steps, NEW r, Trace(r, b, steps, cap)
  PROVE  /\ (\A k \in 1 .. Len(steps) : steps[k].do = "construct")
              => \A k \in 0 .. Len(steps) : r[k].end = b.end + k
         /\ (\A k \in 1 .. Len(steps) : steps[k].do = "destroy")
              => \A k \in 0 .. Len(steps) : r[k].end = b.end - k
<1> DEFINE S == {k \in 0 .. Len(steps) : r[k].end = b.end + k}
           T == {k \in 0 .. Len(steps) : r[k].end = b.end - k}
           n == Len(steps)
<1>1. n \in Nat /\ r[0] = b /\ b.end \in Int
  <2>1. Len(steps) \in Nat /\ r[0] = b /\ \A k \in 0 .. Len(steps) : Good(r[k], cap)
    BY DEF Trace
  <2>2. Good(b, cap)
    BY <2>1
  <2>3. b.end \in 0 .. cap
    BY <2>2, GoodHas
  <2> QED
    BY <2>1, <2>3
<1>2. 0 \in S /\ 0 \in T
  BY <1>1
<1>3. ASSUME \A k \in 1 .. Len(steps) : steps[k].do = "construct", NEW k \in 0 .. n - 1, k \in S
      PROVE  k + 1 \in S
  <2>1. k + 1 \in 1 .. n /\ (k + 1) - 1 = k /\ k + 1 \in 0 .. n
    BY <1>1
  <2>2. r[k + 1].end = EndAfter(steps[k + 1], r[k].end) /\ steps[k + 1].do = "construct"
    BY <1>3, <2>1 DEF Trace
  <2>4. r[k].end = b.end + k /\ k \in Int
    BY <1>3
  <2>5. EndAfter(steps[k + 1], r[k].end) = r[k].end + 1
    BY <2>2 DEF EndAfter
  <2>3. r[k + 1].end = b.end + (k + 1)
    BY <1>1, <2>2, <2>4, <2>5
  <2> QED
    BY <2>1, <2>3
<1>4. ASSUME \A k \in 1 .. Len(steps) : steps[k].do = "destroy", NEW k \in 0 .. n - 1, k \in T
      PROVE  k + 1 \in T
  <2>1. k + 1 \in 1 .. n /\ (k + 1) - 1 = k /\ k + 1 \in 0 .. n
    BY <1>1
  <2>2. r[k + 1].end = EndAfter(steps[k + 1], r[k].end) /\ steps[k + 1].do = "destroy"
    BY <1>4, <2>1 DEF Trace
  <2>4. r[k].end = b.end - k /\ k \in Int
    BY <1>4
  <2>5. EndAfter(steps[k + 1], r[k].end) = r[k].end - 1
    BY <2>2 DEF EndAfter
  <2>3. r[k + 1].end = b.end - (k + 1)
    BY <1>1, <2>2, <2>4, <2>5
  <2> QED
    BY <2>1, <2>3
<1> HIDE DEF S, T
<1>5. (\A k \in 1 .. Len(steps) : steps[k].do = "construct") => 0 .. n \subseteq S
  BY <1>1, <1>2, <1>3, UpTo
<1>6. (\A k \in 1 .. Len(steps) : steps[k].do = "destroy") => 0 .. n \subseteq T
  BY <1>1, <1>2, <1>4, UpTo
<1> QED
  BY <1>5, <1>6 DEF S, T

(* What the kinds of steps write to.                                       *)
LEMMA ConstructWrites ==
  ASSUME NEW arg \in Args, NEW e, NEW i
  PROVE  /\ Construct(arg).do = "construct" /\ Construct(arg).arg = arg /\ Target(Construct(arg), e) = e
         /\ Writes(Construct(arg), e, i) <=> (i = e \/ (arg.move /\ i = arg.at))
<1> DEFINE c == Construct(arg)
<1>1. c.do = "construct" /\ c.arg = arg
  BY DEF Construct
<1>2. arg.move \in BOOLEAN
  BY DEF Args
<1> HIDE DEF c
<1>3. Target(c, e) = e
  BY <1>1 DEF Target
<1>4. Writes(c, e, i) <=> (i = e \/ (arg.move /\ i = arg.at))
  BY <1>1, <1>2 DEF Writes
<1> QED
  BY <1>1, <1>3, <1>4 DEF c

LEMMA AssignWrites ==
  ASSUME NEW arg \in Args, NEW j, NEW e, NEW i
  PROVE  /\ Assign(j, arg).do = "assign" /\ Assign(j, arg).arg = arg /\ Target(Assign(j, arg), e) = j
         /\ Writes(Assign(j, arg), e, i) <=> (i = j \/ (arg.move /\ i = arg.at))
<1> DEFINE c == Assign(j, arg)
<1>1. c.do = "assign" /\ c.arg = arg /\ c.to = j
  BY DEF Assign
<1>2. arg.move \in BOOLEAN
  BY DEF Args
<1> HIDE DEF c
<1>3. Target(c, e) = j
  BY <1>1 DEF Target
<1>4. Writes(c, e, i) <=> (i = j \/ (arg.move /\ i = arg.at))
  BY <1>1, <1>2 DEF Writes
<1> QED
  BY <1>1, <1>3, <1>4 DEF c

LEMMA DestroyWrites ==
  ASSUME NEW e, NEW i
  PROVE  Destroy.do = "destroy" /\ (Writes(Destroy, e, i) <=> i = e - 1)
<1> DEFINE d == Destroy
<1>1. d.do = "destroy"
  BY DEF Destroy
<1> HIDE DEF d
<1>2. Writes(d, e, i) <=> i = e - 1
  BY <1>1 DEF Writes
<1> QED
  BY <1>1, <1>2 DEF d

LEMMA TemporaryWrites ==
  ASSUME NEW arg, NEW e, NEW i
  PROVE  Temporary(arg).do = "temporary" /\ ~ Writes(Temporary(arg), e, i)
<1> DEFINE t == Temporary(arg)
<1>1. t.do = "temporary"
  BY DEF Temporary
<1> HIDE DEF t
<1>2. ~ Writes(t, e, i)
  BY <1>1 DEF Writes
<1> QED
  BY <1>1, <1>2 DEF t

LEMMA LegalGood ==
  ASSUME NEW cap \in Nat, NEW b, Good(b, cap), NEW steps, NEW f, Legal(steps, b.end, f, cap)
  PROVE  Good(Run(b, steps), cap) /\ Run(b, steps).end = f /\ steps \in Seq(Steps)
<1>1. steps \in Seq(Steps) /\ Len(steps) \in Nat
  BY DEF Legal
<1>2. PICK ends : Follows(steps, ends, b.end, cap) /\ ends[Len(steps)] = f
  BY DEF Legal
<1> QED
  BY <1>1, <1>2, RunGood

(* Steps and then others are done on what the first ones make.             *)
LEMMA RunThen ==
  ASSUME NEW cap \in Nat, NEW b, Good(b, cap), NEW s, NEW t, NEW f, NEW g,
         Legal(s, b.end, f, cap), Legal(t, f, g, cap)
  PROVE  /\ Run(b, s \o t) = Run(Run(b, s), t)
         /\ Good(Run(b, s), cap) /\ Run(b, s).end = f
         /\ Good(Run(b, s \o t), cap) /\ Run(b, s \o t).end = g
<1> DEFINE m == Len(s)
           n == Len(t)
           c == Run(b, s)
           st == s \o t
<1>1. s \in Seq(Steps) /\ t \in Seq(Steps)
  BY DEF Legal
<1>2. /\ m \in Nat /\ n \in Nat /\ Len(st) = m + n
      /\ \A k \in 1 .. m : st[k] = s[k]
      /\ \A k \in 1 .. n : st[m + k] = t[k]
  BY <1>1
<1>3. Good(c, cap) /\ c.end = f
  BY LegalGood
<1>4. Good(Run(c, t), cap) /\ Run(c, t).end = g
  <2> HIDE DEF c
  <2> QED
    BY <1>3, LegalGood
<1>5. PICK p : p = [k \in 0 .. m |-> IF k = 0 THEN b ELSE Do(p[k - 1], s[k])] /\ c = p[m]
  BY <1>2, RunIs
<1> HIDE DEF c
<1>6. PICK q : q = [k \in 0 .. n |-> IF k = 0 THEN c ELSE Do(q[k - 1], t[k])] /\ Run(c, t) = q[n]
  BY <1>2, RunIs
<1>7. PICK r : r = [k \in 0 .. Len(st) |-> IF k = 0 THEN b ELSE Do(r[k - 1], st[k])] /\ Run(b, st) = r[Len(st)]
  <2> HIDE DEF st
  <2>1. Len(st) \in Nat
    BY <1>2
  <2> QED
    BY <2>1, RunIs
<1> HIDE DEF m, n, st
<1>8. /\ r[0] = b /\ \A k \in 1 .. m + n : r[k] = Do(r[k - 1], st[k])
      /\ p[0] = b /\ \A k \in 1 .. m : p[k] = Do(p[k - 1], s[k])
      /\ q[0] = c /\ \A k \in 1 .. n : q[k] = Do(q[k - 1], t[k])
  BY <1>2, <1>5, <1>6, <1>7
<1> DEFINE S == {k \in 0 .. m : r[k] = p[k]}
           T == {k \in 0 .. n : r[m + k] = q[k]}
<1>9. 0 \in S
  BY <1>2, <1>8
<1>10. ASSUME NEW k \in 0 .. m - 1, k \in S PROVE k + 1 \in S
  <2>1. k + 1 \in 1 .. m /\ k + 1 \in 1 .. m + n /\ (k + 1) - 1 = k /\ k + 1 \in 0 .. m
    BY <1>2
  <2>2. r[k + 1] = Do(r[k], st[k + 1]) /\ p[k + 1] = Do(p[k], s[k + 1]) /\ st[k + 1] = s[k + 1]
    BY <1>2, <1>8, <2>1
  <2> QED
    BY <1>10, <2>1, <2>2
<1> HIDE DEF S
<1>11. 0 .. m \subseteq S
  BY <1>2, <1>9, <1>10, UpTo
<1>12. r[m] = c
  BY <1>2, <1>5, <1>11 DEF S
<1>13. 0 \in T
  <2>1. m + 0 = m
    BY <1>2
  <2> QED
    BY <1>2, <1>8, <1>12, <2>1
<1>14. ASSUME NEW k \in 0 .. n - 1, k \in T PROVE k + 1 \in T
  <2>1. k + 1 \in 1 .. n /\ m + (k + 1) \in 1 .. m + n /\ (m + (k + 1)) - 1 = m + k /\ (k + 1) - 1 = k /\ k + 1 \in 0 .. n
    BY <1>2
  <2>2. r[m + (k + 1)] = Do(r[m + k], st[m + (k + 1)]) /\ q[k + 1] = Do(q[k], t[k + 1])
        /\ st[m + (k + 1)] = t[k + 1]
    BY <1>2, <1>8, <2>1
  <2> QED
    BY <1>14, <2>1, <2>2
<1> HIDE DEF T
<1>15. 0 .. n \subseteq T
  BY <1>2, <1>13, <1>14, UpTo
<1>16. r[m + n] = q[n]
  BY <1>2, <1>15 DEF T
<1>17. Run(b, st) = Run(c, t)
  BY <1>2, <1>6, <1>7, <1>16
<1> QED
  BY <1>3, <1>4, <1>17 DEF c, st

(* Constructions that do not take what another of them reads: the elements *)
(* come one after the other at the end, and none but those taken from      *)
(* change.                                                                 *)
Undisturbed(args, n) ==
  \A j, k \in 1 .. n : j # k /\ args[j].move /\ args[k].at >= 0 => args[j].at # args[k].at
NotTaken(args, n, i) == \A k \in 1 .. n : args[k].move => args[k].at # i

LEMMA ConstructDoes ==
  ASSUME NEW cap \in Nat, NEW b, Good(b, cap), NEW args, NEW n \in Nat, b.end + n <= cap,
         DOMAIN args = 1 .. n, \A k \in 1 .. n : Readable(args[k], b.end), Undisturbed(args, n)
  PROVE  LET r == Run(b, ConstructAll(args)) IN
         /\ Good(r, cap) /\ r.end = b.end + n
         /\ \A k \in 1 .. n : HasRead(b, r, b.end + k - 1, args[k])
         /\ \A i \in 0 .. b.end - 1 : NotTaken(args, n, i) => SameCell(b, r, i)
<1> DEFINE s == ConstructAll(args)
           e == b.end
<1>1. e \in 0 .. cap
  BY GoodHas
<1>2. s \in Seq(Steps) /\ Len(s) = n /\ Legal(s, e, e + n, cap)
  BY <1>1, ConstructLegal
<1>3. \A k \in 1 .. n : s[k] = Construct(args[k])
  BY DEF ConstructAll
<1> HIDE DEF s
<1>4. PICK r : Trace(r, b, s, cap) /\ Ends(r, b, s, e + n)
  BY <1>2, Traced
<1>5. \A k \in 1 .. n : args[k] \in Args /\ args[k].at \in Int /\ args[k].at < e /\ args[k].move \in BOOLEAN
  BY DEF Readable, Args
<1>6. \A k \in 1 .. n : s[k].do = "construct" /\ s[k].arg = args[k]
  BY <1>3, <1>5, ConstructWrites
<1>7. \A k \in 0 .. n : r[k].end = e + k
  <2>1. \A k \in 1 .. Len(s) : s[k].do = "construct"
    BY <1>2, <1>6
  <2>2. \A k \in 0 .. Len(s) : r[k].end = b.end + k
    BY <1>4, <2>1, EndsAre
  <2> QED
    BY <1>2, <2>2
<1>8. ASSUME NEW k \in 1 .. n, NEW i \in 0 .. cap - 1, Writes(s[k], r[k - 1].end, i)
      PROVE  i = e + k - 1 \/ (args[k].move /\ i = args[k].at)
  <2>1. k - 1 \in 0 .. n /\ e + (k - 1) = e + k - 1
    BY <1>1
  <2>2. r[k - 1].end = e + k - 1
    BY <1>7, <2>1
  <2>3. Writes(Construct(args[k]), e + k - 1, i)
    BY <1>3, <1>8, <2>2
  <2> QED
    BY <1>5, <2>3, ConstructWrites
<1>9. ASSUME NEW k \in 1 .. n
      PROVE  HasRead(b, r[n], e + k - 1, args[k])
  <2> DEFINE i == e + k - 1
  <2>1. i \in 0 .. cap - 1 /\ k - 1 \in 0 .. n /\ e + (k - 1) = i /\ k \in Int /\ k - 1 \in Int
    BY <1>1
  <2>2. s[k].do \in {"construct", "assign"} /\ i = Target(s[k], r[k - 1].end)
    BY <1>6, <1>7, <2>1 DEF Target
  <2>3. Untouched(r, s, i, k, n)
    <3> SUFFICES ASSUME NEW l \in k + 1 .. n, Writes(s[l], r[l - 1].end, i) PROVE FALSE
      BY DEF Untouched
    <3>1. l \in 1 .. n /\ l \in Int
      OBVIOUS
    <3>2. i = e + l - 1 \/ (args[l].move /\ i = args[l].at)
      BY <1>8, <2>1, <3>1
    <3>3. args[l].at \in Int /\ args[l].at < e
      BY <1>5, <3>1
    <3>4. i # args[l].at
      BY <1>1, <3>3
    <3>5. i # e + l - 1
      BY <1>1
    <3> QED
      BY <3>2, <3>4, <3>5
  <2>4. ASSUME args[k].at >= 0 PROVE Untouched(r, s, args[k].at, 0, k - 1)
    <3> DEFINE a == args[k].at
    <3>1. a \in Int /\ a < e
      BY <1>5
    <3>2. a \in 0 .. cap - 1
      BY <1>1, <2>4, <3>1
    <3> SUFFICES ASSUME NEW l \in 0 + 1 .. k - 1, Writes(s[l], r[l - 1].end, a) PROVE FALSE
      BY DEF Untouched
    <3>3. l \in 1 .. n /\ l # k /\ l \in Int
      OBVIOUS
    <3>4. a = e + l - 1 \/ (args[l].move /\ a = args[l].at)
      BY <1>8, <3>2, <3>3
    <3>5. a # e + l - 1
      BY <1>1, <3>1, <3>3
    <3>6. args[l].move => a # args[l].at
      BY <2>4, <3>3 DEF Undisturbed
    <3> QED
      BY <3>4, <3>5, <3>6
  <2> HIDE DEF i
  <2>5. HasRead(b, r[Len(s)], i, s[k].arg)
    BY <1>2, <1>4, <1>6, <2>1, <2>2, <2>3, <2>4, CellWritten
  <2> QED
    BY <1>2, <1>6, <2>5 DEF i
<1>10. ASSUME NEW i \in 0 .. e - 1, NotTaken(args, n, i)
       PROVE  SameCell(b, r[n], i)
  <2>1. i \in 0 .. cap - 1 /\ i < e
    BY <1>1
  <2>2. Untouched(r, s, i, 0, Len(s))
    <3> SUFFICES ASSUME NEW l \in 0 + 1 .. n, Writes(s[l], r[l - 1].end, i) PROVE FALSE
      BY <1>2 DEF Untouched
    <3>1. l \in 1 .. n
      OBVIOUS
    <3>2. i = e + l - 1 \/ (args[l].move /\ i = args[l].at)
      BY <1>8, <2>1, <3>1
    <3>3. i # e + l - 1
      BY <1>1, <2>1, <3>1
    <3>4. args[l].move => i # args[l].at
      BY <1>10, <3>1 DEF NotTaken
    <3> QED
      BY <3>2, <3>3, <3>4
  <2> QED
    BY <1>2, <1>4, <2>1, <2>2, CellStays
<1>11. Run(b, s) = r[n] /\ Good(r[n], cap) /\ r[n].end = e + n
  BY <1>2, <1>4 DEF Ends, Trace
<1> QED
  BY <1>9, <1>10, <1>11 DEF s

(* Assignments none of which undoes another, or takes what it reads.       *)
Apart(to, args, n) ==
  /\ \A j, k \in 1 .. n : j # k => to[j] # to[k]
  /\ \A j, k \in 1 .. n : j > k /\ args[j].move => args[j].at # to[k]
  /\ \A j, k \in 1 .. n : j < k => to[j] # args[k].at
  /\ Undisturbed(args, n)
AssignAt(to, args, n) == [k \in 1 .. n |-> Assign(to[k], args[k])]

LEMMA AssignDoes ==
  ASSUME NEW cap \in Nat, NEW b, Good(b, cap), NEW args, NEW to, NEW n \in Nat,
         \A k \in 1 .. n : Readable(args[k], b.end) /\ to[k] \in 0 .. b.end - 1,
         Apart(to, args, n)
  PROVE  LET r == Run(b, AssignAt(to, args, n)) IN
         /\ Legal(AssignAt(to, args, n), b.end, b.end, cap)
         /\ Good(r, cap) /\ r.end = b.end
         /\ \A k \in 1 .. n : HasRead(b, r, to[k], args[k])
         /\ \A i \in 0 .. cap - 1 : (\A k \in 1 .. n : to[k] # i) /\ NotTaken(args, n, i) => SameCell(b, r, i)
<1> DEFINE s == AssignAt(to, args, n)
           e == b.end
<1>1. e \in 0 .. cap
  BY GoodHas
<1>2. \A k \in 1 .. n : s[k] = Assign(to[k], args[k])
  BY DEF AssignAt
<1>3. s = [k \in 1 .. n |-> s[k]]
  BY DEF AssignAt
<1> HIDE DEF s
<1>4. ASSUME NEW k \in 1 .. n
      PROVE  /\ s[k] \in Steps /\ Fits(s[k], e, cap)
             /\ s[k].do # "construct" /\ s[k].do # "destroy"
  BY <1>1, <1>2, AssignFits
<1>5. s \in Seq(Steps) /\ Len(s) = n
  BY <1>3, <1>4, SeqIs
<1>6. Legal(s, e, e, cap)
  BY <1>1, <1>4, <1>5, FlatLegal
<1>7. PICK r : Trace(r, b, s, cap) /\ Ends(r, b, s, e)
  BY <1>6, Traced
<1>8. \A k \in 1 .. n : args[k] \in Args /\ args[k].at \in Int /\ args[k].at < e /\ args[k].move \in BOOLEAN
  BY DEF Readable, Args
<1>9. ASSUME NEW k \in 1 .. n PROVE s[k].do = "assign" /\ s[k].arg = args[k]
  <2>1. Assign(to[k], args[k]).do = "assign" /\ Assign(to[k], args[k]).arg = args[k]
    BY DEF Assign
  <2> QED
    BY <1>2, <2>1
<1>10. ASSUME NEW k \in 1 .. n, NEW i \in 0 .. cap - 1, Writes(s[k], r[k - 1].end, i)
       PROVE  i = to[k] \/ (args[k].move /\ i = args[k].at)
  <2>1. Writes(Assign(to[k], args[k]), r[k - 1].end, i)
    BY <1>2, <1>10
  <2> QED
    BY <1>8, <2>1, AssignWrites
<1>11. ASSUME NEW k \in 1 .. n
       PROVE  HasRead(b, r[n], to[k], args[k])
  <2> DEFINE i == to[k]
  <2>1. i \in 0 .. cap - 1
    BY <1>1
  <2>2. s[k].do \in {"construct", "assign"} /\ i = Target(s[k], r[k - 1].end)
    <3>1. s[k] = Assign(to[k], args[k]) /\ Assign(to[k], args[k]).to = to[k]
      BY <1>2 DEF Assign
    <3> QED
      BY <1>9, <3>1 DEF Target
  <2>3. Untouched(r, s, i, k, n)
    <3> SUFFICES ASSUME NEW l \in k + 1 .. n, Writes(s[l], r[l - 1].end, i) PROVE FALSE
      BY DEF Untouched
    <3>1. l \in 1 .. n /\ l > k /\ l # k
      OBVIOUS
    <3>2. i = to[l] \/ (args[l].move /\ i = args[l].at)
      BY <1>10, <2>1, <3>1
    <3>3. i # to[l]
      BY <3>1 DEF Apart
    <3>4. args[l].move => i # args[l].at
      BY <3>1 DEF Apart
    <3> QED
      BY <3>2, <3>3, <3>4
  <2>4. ASSUME args[k].at >= 0 PROVE Untouched(r, s, args[k].at, 0, k - 1)
    <3> DEFINE a == args[k].at
    <3>1. a \in Int /\ a < e
      BY <1>8
    <3>2. a \in 0 .. cap - 1
      BY <1>1, <2>4, <3>1
    <3> SUFFICES ASSUME NEW l \in 0 + 1 .. k - 1, Writes(s[l], r[l - 1].end, a) PROVE FALSE
      BY DEF Untouched
    <3>3. l \in 1 .. n /\ l # k /\ l < k
      OBVIOUS
    <3>4. a = to[l] \/ (args[l].move /\ a = args[l].at)
      BY <1>10, <3>2, <3>3
    <3>5. a # to[l]
      BY <3>3 DEF Apart
    <3>6. args[l].move => a # args[l].at
      BY <2>4, <3>3 DEF Apart, Undisturbed
    <3> QED
      BY <3>4, <3>5, <3>6
  <2> HIDE DEF i
  <2>5. HasRead(b, r[Len(s)], i, s[k].arg)
    BY <1>5, <1>7, <1>9, <2>1, <2>2, <2>3, <2>4, CellWritten
  <2> QED
    BY <1>5, <1>9, <2>5 DEF i
<1>12. ASSUME NEW i \in 0 .. cap - 1, \A k \in 1 .. n : to[k] # i, NotTaken(args, n, i)
       PROVE  SameCell(b, r[n], i)
  <2>1. Untouched(r, s, i, 0, Len(s))
    <3> SUFFICES ASSUME NEW l \in 0 + 1 .. n, Writes(s[l], r[l - 1].end, i) PROVE FALSE
      BY <1>5 DEF Untouched
    <3>1. l \in 1 .. n
      OBVIOUS
    <3>2. i = to[l] \/ (args[l].move /\ i = args[l].at)
      BY <1>10, <3>1
    <3> QED
      BY <1>12, <3>1, <3>2 DEF NotTaken
  <2> QED
    BY <1>5, <1>7, <2>1, CellStays
<1>13. Run(b, s) = r[n] /\ Good(r[n], cap) /\ r[n].end = e
  BY <1>5, <1>7 DEF Ends, Trace
<1> QED
  BY <1>6, <1>11, <1>12, <1>13 DEF s

(* The last n elements are destroyed, and no other changes.                *)
LEMMA DestroyDoes ==
  ASSUME NEW cap \in Nat, NEW b, Good(b, cap), NEW n \in 0 .. b.end
  PROVE  LET r == Run(b, DestroyLast(n)) IN
         /\ Good(r, cap) /\ r.end = b.end - n
         /\ \A i \in 0 .. (b.end - n) - 1 : SameCell(b, r, i)
<1> DEFINE s == DestroyLast(n)
           e == b.end
<1>0. e \in 0 .. cap
  BY GoodHas
<1>1. e \in 0 .. cap /\ n \in Nat /\ e \in Int /\ n \in 0 .. e
  BY <1>0
<1>2. s = [k \in 1 .. n |-> Destroy]
  BY DEF DestroyLast
<1> HIDE DEF s, e
<1>3. Len(s) = n /\ \A k \in 1 .. n : s[k] = Destroy
  BY <1>1, <1>2
<1>4. Legal(s, e, e - n, cap)
  BY <1>1, DestroyLegal DEF s
<1>5. PICK r : Trace(r, b, s, cap) /\ Ends(r, b, s, e - n)
  BY <1>4, Traced DEF e
<1>6. \A k \in 0 .. n : r[k].end = e - k
  <2>1. \A k \in 1 .. Len(s) : s[k].do = "destroy"
    BY <1>3, DestroyWrites
  <2>2. \A k \in 0 .. Len(s) : r[k].end = b.end - k
    BY <1>5, <2>1, EndsAre
  <2> QED
    BY <1>3, <2>2 DEF e
<1>7. ASSUME NEW i \in 0 .. (e - n) - 1
      PROVE  SameCell(b, r[n], i)
  <2>1. i \in 0 .. cap - 1 /\ i \in Int
    BY <1>1
  <2>2. Untouched(r, s, i, 0, Len(s))
    <3> SUFFICES ASSUME NEW l \in 0 + 1 .. n, Writes(s[l], r[l - 1].end, i) PROVE FALSE
      BY <1>3 DEF Untouched
    <3>1. l \in 1 .. n /\ l - 1 \in 0 .. n /\ l \in Int
      BY <1>1
    <3>2. Writes(Destroy, e - (l - 1), i)
      BY <1>3, <1>6, <3>1
    <3>3. i = (e - (l - 1)) - 1
      BY <3>2, DestroyWrites
    <3> QED
      BY <1>1, <3>1, <3>3
  <2> QED
    BY <1>3, <1>5, <2>1, <2>2, CellStays
<1>8. Run(b, s) = r[n] /\ Good(r[n], cap) /\ r[n].end = e - n
  BY <1>1, <1>3, <1>5 DEF Ends, Trace
<1> QED
  BY <1>7, <1>8 DEF s, e

(* The cells from up to to are the same; those from at up to e are now n   *)
(* further on.                                                             *)
SameOn(b, c, from, to) == \A i \in from .. to - 1 : SameCell(b, c, i)
Shifted(b, c, at, e, n) == \A j \in at .. e - 1 : c.cells[j + n] = b.cells[j]

LEMMA MovedIs ==
  ASSUME NEW e \in Nat, NEW i \in 0 .. e - 1, NEW b
  PROVE  LET arg == Moved(ElementAt(i)) IN
         Readable(arg, e) /\ arg.at = i /\ arg.move = TRUE /\ Read(b, arg) = b.cells[i]
<1> DEFINE arg == Moved(ElementAt(i))
<1>1. Readable(arg, e) /\ arg.at = i
  BY ElementReadable
<1>2. arg.move = TRUE
  <2>1. ElementAt(i) \in Args
    BY Constants DEF ElementAt, Args
  <2> QED
    BY <2>1 DEF Moved, Args
<1> HIDE DEF arg
<1>3. Read(b, arg) = b.cells[i]
  BY <1>1 DEF Read
<1> QED
  BY <1>1, <1>2, <1>3 DEF arg

(* The elements from at to e are moved on: first those that come to lie    *)
(* beyond the end, then the others from the last down.                     *)
LEMMA MoveDoes ==
  ASSUME NEW cap \in Nat, NEW e \in 0 .. cap, NEW at \in 0 .. e, NEW n \in Nat, NEW r \in 1 .. n,
         r <= e - at, n > e - at => r = e - at, n <= e - at => r = n, e + n <= cap,
         NEW b, Good(b, cap), b.end = e + n - r
  PROVE  LET c == Run(b, MoveRange(at, e, at + n, e + n - r)) IN
         /\ Good(c, cap) /\ c.end = e + n
         /\ Shifted(b, c, at, e, n) /\ SameOn(b, c, 0, at) /\ SameOn(b, c, e, e + n - r)
<1> DEFINE m == e + n - r
           k0 == m - (at + n)
           args == [k \in 1 .. r |-> Moved(ElementAt(at + k0 + k - 1))]
           to == [k \in 1 .. k0 |-> m - k]
           from == [k \in 1 .. k0 |-> Moved(ElementAt(at + k0 - k))]
           down == AssignAt(to, from, k0)
           c == Run(b, ConstructAll(args))
           d == Run(c, down)
<1>1. /\ m \in 0 .. cap /\ m + r <= cap /\ m + r = e + n /\ k0 = e - at - r /\ k0 \in Nat /\ r \in Nat
      /\ (e - at) - k0 = r /\ m + r \in 0 .. cap /\ m = at + k0 + n /\ n > 0 /\ at + k0 + r = e
      /\ m \in Nat /\ at \in Nat /\ e \in Nat /\ k0 > 0 => m = e
  OBVIOUS
<1>2. MoveRange(at, e, at + n, m) = ConstructAll(args) \o down
  <2>1. [k \in 1 .. r |-> Construct(Moved(ElementAt(at + k0 + k - 1)))] = ConstructAll(args)
    BY DEF ConstructAll
  <2>2. e - at - k0 = r
    BY <1>1
  <2>3. [k \in 1 .. k0 |-> Assign(m - k, Moved(ElementAt(at + k0 - k)))] = down
    BY DEF AssignAt
  <2>4. MoveRange(at, e, at + n, m) =
          [k \in 1 .. e - at - k0 |-> Construct(Moved(ElementAt(at + k0 + k - 1)))]
            \o [k \in 1 .. k0 |-> Assign(m - k, Moved(ElementAt(at + k0 - k)))]
    BY DEF MoveRange
  <2> QED
    BY <2>1, <2>2, <2>3, <2>4
<1>3. DOMAIN args = 1 .. r /\ \A k \in 1 .. r : args[k] = Moved(ElementAt(at + k0 + k - 1))
  OBVIOUS
<1>4. /\ \A k \in 1 .. k0 : to[k] = m - k
      /\ \A k \in 1 .. k0 : from[k] = Moved(ElementAt(at + k0 - k))
  OBVIOUS
<1> HIDE DEF m, k0, args, to, from, down
<1>5. ASSUME NEW k \in 1 .. r
      PROVE  /\ Readable(args[k], m) /\ args[k].at = at + k0 + k - 1 /\ args[k].move = TRUE
             /\ Read(b, args[k]) = b.cells[at + k0 + k - 1]
  <2> DEFINE i == at + k0 + k - 1
  <2>1. i \in 0 .. m - 1 /\ m \in Nat
    BY <1>1
  <2>2. args[k] = Moved(ElementAt(i))
    BY <1>3
  <2> HIDE DEF i
  <2> DEFINE g == Moved(ElementAt(i))
  <2>4. Readable(g, m) /\ g.at = i /\ g.move = TRUE /\ Read(b, g) = b.cells[i]
    BY <2>1, MovedIs
  <2>3. Readable(args[k], m) /\ args[k].at = i /\ args[k].move = TRUE /\ Read(b, args[k]) = b.cells[i]
    BY <2>2, <2>4
  <2> QED
    BY <2>3 DEF i
<1>6. ASSUME NEW k \in 1 .. k0
      PROVE  /\ Readable(from[k], e + n) /\ from[k].at = at + k0 - k /\ from[k].move = TRUE
             /\ Read(c, from[k]) = c.cells[at + k0 - k]
  <2> DEFINE i == at + k0 - k
             f == e + n
  <2>1. i \in 0 .. f - 1 /\ f \in Nat
    BY <1>1
  <2>2. from[k] = Moved(ElementAt(i))
    BY <1>4
  <2> HIDE DEF c, i, f
  <2> DEFINE g == Moved(ElementAt(i))
  <2>4. Readable(g, f) /\ g.at = i /\ g.move = TRUE /\ Read(c, g) = c.cells[i]
    BY <2>1, MovedIs
  <2>3. Readable(from[k], f) /\ from[k].at = i /\ from[k].move = TRUE /\ Read(c, from[k]) = c.cells[i]
    BY <2>2, <2>4
  <2> QED
    BY <2>3 DEF i, f
<1>21. /\ \A k \in 1 .. r : args[k].at = at + k0 + k - 1
       /\ \A k \in 1 .. k0 : from[k].at = at + k0 - k /\ to[k] = m - k
  BY <1>4, <1>5, <1>6
<1>22. /\ m \in Int /\ k0 \in Int /\ at \in Int /\ e \in Int /\ n \in Int /\ n > 0 /\ m = at + k0 + n /\ at + k0 + r = e
  BY <1>1
<1>23. \A k \in 1 .. r : Readable(args[k], m)
  BY <1>5
<1>24. \A k \in 1 .. k0 : Readable(from[k], e + n)
  BY <1>6
<1>7. b.end = m
  BY DEF m
<1>8. Undisturbed(args, r)
  <2> SUFFICES ASSUME NEW j \in 1 .. r, NEW k \in 1 .. r, j # k PROVE args[j].at # args[k].at
    BY DEF Undisturbed
  <2> QED
    BY <1>21, <1>22
<1>9. /\ Good(c, cap) /\ c.end = m + r
      /\ \A k \in 1 .. r : HasRead(b, c, m + k - 1, args[k])
      /\ \A i \in 0 .. m - 1 : NotTaken(args, r, i) => SameCell(b, c, i)
  <2>1. b.end + r <= cap /\ \A k \in 1 .. r : Readable(args[k], b.end)
    BY <1>1, <1>7, <1>23
  <2>2. LET x == Run(b, ConstructAll(args)) IN
         /\ Good(x, cap) /\ x.end = b.end + r
         /\ \A k \in 1 .. r : HasRead(b, x, b.end + k - 1, args[k])
         /\ \A i \in 0 .. b.end - 1 : NotTaken(args, r, i) => SameCell(b, x, i)
    BY <1>1, <1>3, <1>8, <2>1, ConstructDoes
  <2> QED
    BY <1>7, <2>2
<1>10. Legal(ConstructAll(args), m, m + r, cap)
  BY <1>1, <1>3, <1>5, ConstructLegal
<1> HIDE DEF c
<1>11. Apart(to, from, k0)
  <2>0. ASSUME NEW j \in 1 .. k0, NEW k \in 1 .. k0
        PROVE  /\ from[j].at = at + k0 - j /\ to[j] = m - j /\ from[k].at = at + k0 - k /\ to[k] = m - k
               /\ j \in Int /\ k \in Int /\ j > 0 /\ k > 0
    BY <1>21, <1>22
  <2>1. ASSUME NEW j \in 1 .. k0, NEW k \in 1 .. k0, j # k
        PROVE  to[j] # to[k] /\ from[j].at # from[k].at
    BY <1>22, <2>0, <2>1
  <2>2. ASSUME NEW j \in 1 .. k0, NEW k \in 1 .. k0, j > k
        PROVE  from[j].at # to[k]
    BY <1>22, <2>0, <2>2
  <2>3. ASSUME NEW j \in 1 .. k0, NEW k \in 1 .. k0, j < k
        PROVE  to[j] # from[k].at
    BY <1>22, <2>0, <2>3
  <2> QED
    BY <2>1, <2>2, <2>3 DEF Apart, Undisturbed
<1>12. c.end = e + n
  BY <1>1, <1>9
<1>13. ASSUME NEW k \in 1 .. k0 PROVE to[k] \in 0 .. (e + n) - 1
  BY <1>1, <1>4
<1>14. /\ Good(d, cap) /\ d.end = e + n /\ Legal(down, e + n, e + n, cap)
       /\ \A k \in 1 .. k0 : HasRead(c, d, to[k], from[k])
       /\ \A i \in 0 .. cap - 1 : (\A k \in 1 .. k0 : to[k] # i) /\ NotTaken(from, k0, i) => SameCell(c, d, i)
  <2>1. \A k \in 1 .. k0 : Readable(from[k], c.end) /\ to[k] \in 0 .. c.end - 1
    BY <1>12, <1>13, <1>24
  <2>2. LET x == Run(c, AssignAt(to, from, k0)) IN
         /\ Legal(AssignAt(to, from, k0), c.end, c.end, cap)
         /\ Good(x, cap) /\ x.end = c.end
         /\ \A k \in 1 .. k0 : HasRead(c, x, to[k], from[k])
         /\ \A i \in 0 .. cap - 1 : (\A k \in 1 .. k0 : to[k] # i) /\ NotTaken(from, k0, i) => SameCell(c, x, i)
    BY <1>1, <1>9, <1>11, <2>1, AssignDoes
  <2> QED
    BY <1>12, <2>2 DEF down
<1>15. Run(b, ConstructAll(args) \o down) = d
  <2>1. Legal(ConstructAll(args), b.end, e + n, cap)
    BY <1>1, <1>7, <1>10
  <2> QED
    BY <1>14, <2>1, RunThen DEF c
<1> HIDE DEF d
<1>16. ASSUME NEW j \in at .. e - 1
       PROVE  d.cells[j + n] = b.cells[j]
  <2>1. CASE j >= at + k0
    <3> DEFINE k == j - (at + k0) + 1
    <3>1. k \in 1 .. r /\ m + k - 1 = j + n /\ at + k0 + k - 1 = j
      BY <1>1, <2>1
    <3> HIDE DEF k
    <3>2. c.cells[j + n] = b.cells[j]
      BY <1>5, <1>9, <3>1 DEF HasRead
    <3>3. j + n \in 0 .. cap - 1 /\ j + n >= m
      BY <1>1, <2>1
    <3>4. \A l \in 1 .. k0 : to[l] # j + n
      BY <1>1, <1>4, <3>3
    <3>5. \A l \in 1 .. k0 : from[l].at # j + n
      BY <1>21, <1>22, <3>3
    <3>6. SameCell(c, d, j + n)
      BY <1>14, <3>3, <3>4, <3>5 DEF NotTaken
    <3> QED
      BY <3>2, <3>6 DEF SameCell
  <2>2. CASE j < at + k0
    <3> DEFINE k == at + k0 - j
    <3>1. k \in 1 .. k0 /\ m - k = j + n /\ at + k0 - k = j
      BY <1>1, <2>2
    <3> HIDE DEF k
    <3>2. d.cells[j + n] = c.cells[j]
      BY <1>4, <1>6, <1>14, <3>1 DEF HasRead
    <3>3. j \in 0 .. m - 1
      BY <1>1, <2>2
    <3>4. \A l \in 1 .. r : args[l].at # j
      BY <1>21, <1>22, <2>2
    <3>5. SameCell(b, c, j)
      BY <1>9, <3>3, <3>4 DEF NotTaken
    <3> QED
      BY <3>2, <3>5 DEF SameCell
  <2> QED
    BY <1>1, <2>1, <2>2
<1>17. ASSUME NEW i \in 0 .. m - 1, i < at \/ i >= e
       PROVE  SameCell(b, d, i)
  <2>1. \A l \in 1 .. r : args[l].at # i
    BY <1>17, <1>21, <1>22
  <2>2. SameCell(b, c, i)
    BY <1>9, <2>1 DEF NotTaken
  <2>3. i \in 0 .. cap - 1
    BY <1>1
  <2>4. \A l \in 1 .. k0 : from[l].at # i
    BY <1>17, <1>21, <1>22
  <2>5. \A l \in 1 .. k0 : to[l] # i
    BY <1>1, <1>4, <1>17
  <2>6. SameCell(c, d, i)
    BY <1>14, <2>3, <2>4, <2>5 DEF NotTaken
  <2> QED
    BY <2>2, <2>6 DEF SameCell
<1>18. SameOn(b, d, 0, at)
  <2>1. \A i \in 0 .. at - 1 : i \in 0 .. m - 1 /\ i < at
    BY <1>1
  <2> QED
    BY <1>17, <2>1 DEF SameOn
<1>19. SameOn(b, d, e, m)
  <2>1. \A i \in e .. m - 1 : i \in 0 .. m - 1 /\ i >= e
    BY <1>1
  <2> QED
    BY <1>17, <2>1 DEF SameOn
<1>20. Shifted(b, d, at, e, n)
  BY <1>16 DEF Shifted
<1> QED
  BY <1>2, <1>14, <1>15, <1>18, <1>19, <1>20 DEF m

Quiet(args) == \A k \in 1 .. Len(args) : args[k].move => args[k].at < 0
(* Block c is b with new elements, what args were worth, at at.            *)
Inserted(b, c, at, args) ==
  /\ c.end = b.end + Len(args)
  /\ SameOn(b, c, 0, at)
  /\ \A k \in 1 .. Len(args) : HasRead(b, c, at + k - 1, args[k])
  /\ Shifted(b, c, at, b.end, Len(args))

LEMMA RunNone ==
  ASSUME NEW b
  PROVE  Run(b, <<>>) = b
<1> DEFINE s == <<>>
<1>1. Len(s) = 0 /\ Len(s) \in Nat
  OBVIOUS
<1> HIDE DEF s
<1>2. PICK r : r = [k \in 0 .. Len(s) |-> IF k = 0 THEN b ELSE Do(r[k - 1], s[k])] /\ Run(b, s) = r[Len(s)]
  BY <1>1, RunIs
<1> QED
  BY <1>1, <1>2 DEF s

MayRead(arg, e) == Readable(arg, e) /\ (arg.move => arg.at < 0)
Follow(arg, a, at, n) == a.x = arg.x /\ a.at = IF arg.at >= at THEN arg.at + n ELSE arg.at
LEMMA FollowedIs ==
  ASSUME NEW e \in Nat, NEW at \in Nat, NEW n \in Nat, NEW arg, MayRead(arg, e)
  PROVE  MayRead(Followed(arg, at, n), e + n) /\ Follow(arg, Followed(arg, at, n), at, n)
<1> DEFINE a == Followed(arg, at, n)
<1>0. Readable(arg, e) /\ (arg.move => arg.at < 0)
  BY DEF MayRead
<1>1. Readable(a, e + n)
  BY <1>0, FollowedReadable
<1>2. arg \in Args /\ arg.at \in Int /\ arg.move \in BOOLEAN
  BY <1>0 DEF Readable, Args
<1>3. CASE arg.at >= at
  <2>1. a = [arg EXCEPT !.at = arg.at + n]
    BY <1>3 DEF Followed
  <2> HIDE DEF a
  <2>2. a.x = arg.x /\ a.at = arg.at + n /\ a.move = arg.move
    BY <1>2, <2>1 DEF Args
  <2>3. ~ arg.move
    BY <1>0, <1>2, <1>3
  <2> QED
    BY <1>1, <1>3, <2>2, <2>3 DEF a, MayRead, Follow
<1>4. CASE ~ (arg.at >= at)
  <2>1. a = arg
    BY <1>4 DEF Followed
  <2> HIDE DEF a
  <2> QED
    BY <1>0, <1>1, <1>4, <2>1 DEF a, MayRead, Follow
<1> QED
  BY <1>3, <1>4

(* The first part: new elements that go beyond the end; the second: the    *)
(* elements behind at make room; the third: new elements in that room.     *)
LEMMA InsertDoes ==
  ASSUME NEW cap \in Nat, NEW b, Good(b, cap), NEW at \in 0 .. b.end, NEW args \in Seq(Args),
         b.end + Len(args) <= cap, \A k \in 1 .. Len(args) : Readable(args[k], b.end), Quiet(args)
  PROVE  Good(Run(b, InsertSteps(b.end, at, args)), cap) /\ Inserted(b, Run(b, InsertSteps(b.end, at, args)), at, args)
<1> DEFINE e == b.end
           n == Len(args)
           r == IF n > e - at THEN e - at ELSE n
           new == SubSeq(args, r + 1, n)
           c1 == Run(b, ConstructAll(new))
           move == IF r = 0 THEN <<>> ELSE MoveRange(at, e, at + n, e + n - r)
           c2 == Run(c1, move)
           to == [k \in 1 .. r |-> at + k - 1]
           fargs == [k \in 1 .. r |-> Followed(args[k], at, n)]
           over == AssignAt(to, fargs, r)
           c3 == Run(c2, over)
<1>0. e \in 0 .. cap
  BY GoodHas
<1>1. /\ n \in Nat /\ r \in 0 .. n /\ r <= e - at /\ (n > e - at => r = e - at) /\ (n <= e - at => r = n)
      /\ e + n - r \in 0 .. cap /\ e + n \in 0 .. cap /\ n - r \in Nat /\ e + n <= cap
      /\ e \in Nat /\ at \in Nat /\ e + (n - r) <= cap /\ e + (n - r) = e + n - r /\ e + n \in Nat
  BY <1>0
<1>2. InsertSteps(e, at, args) = ConstructAll(new) \o move \o over
  <2>1. over = [k \in 1 .. r |-> Assign(at + k - 1, Followed(args[k], at, n))]
    BY DEF AssignAt
  <2> QED
    BY <2>1 DEF InsertSteps
<1>3. Len(new) = n - r /\ DOMAIN new = 1 .. n - r /\ \A k \in 1 .. n - r : new[k] = args[k + r]
  <2> HIDE DEF r, e
  <2> QED
    BY <1>1
<1>4. /\ \A k \in 1 .. r : to[k] = at + k - 1
      /\ \A k \in 1 .. r : fargs[k] = Followed(args[k], at, n)
  OBVIOUS
<1>5. \A k \in 1 .. n : Readable(args[k], e) /\ (args[k].move => args[k].at < 0)
  BY DEF Quiet
<1>6. \A k \in 1 .. n : args[k] \in Args /\ args[k].at \in Int /\ args[k].at < e /\ args[k].move \in BOOLEAN
  BY <1>5 DEF Readable, Args
<1> HIDE DEF e, n, r, new, to, fargs
<1>7. ASSUME NEW k \in 1 .. n - r PROVE k + r \in 1 .. n /\ new[k] = args[k + r]
  BY <1>1, <1>3
<1>8. /\ Good(c1, cap) /\ c1.end = e + n - r /\ Legal(ConstructAll(new), e, e + n - r, cap)
      /\ \A k \in 1 .. n - r : HasRead(b, c1, e + k - 1, new[k])
      /\ SameOn(b, c1, 0, e)
  <2> DEFINE d == n - r
  <2>1. d \in Nat /\ e + d <= cap /\ DOMAIN new = 1 .. d /\ \A k \in 1 .. d : Readable(new[k], e)
    BY <1>1, <1>3, <1>5, <1>7
  <2>2. ASSUME NEW k \in 1 .. d PROVE new[k].move => new[k].at < 0
    BY <1>5, <1>7
  <2>3. ASSUME NEW k \in 1 .. d PROVE new[k].at \in Int
    BY <1>6, <1>7
  <2> HIDE DEF d
  <2>4. Undisturbed(new, d)
    BY <2>2, <2>3 DEF Undisturbed
  <2>5. \A i \in 0 .. e - 1 : NotTaken(new, d, i)
    BY <2>2, <2>3 DEF NotTaken
  <2>6. /\ Good(c1, cap) /\ c1.end = e + d
        /\ \A k \in 1 .. d : HasRead(b, c1, e + k - 1, new[k])
        /\ \A i \in 0 .. e - 1 : NotTaken(new, d, i) => SameCell(b, c1, i)
    BY <2>1, <2>4, ConstructDoes DEF e
  <2>7. Legal(ConstructAll(new), e, e + d, cap)
    BY <1>0, <2>1, ConstructLegal
  <2>8. e + d = e + n - r
    BY <1>1 DEF d
  <2> QED
    BY <2>5, <2>6, <2>7, <2>8 DEF d, SameOn
<1> HIDE DEF c1
<1>9. /\ Good(c2, cap) /\ c2.end = e + n /\ Legal(move, e + n - r, e + n, cap)
      /\ Shifted(c1, c2, at, e, n) /\ SameOn(c1, c2, 0, at) /\ SameOn(c1, c2, e, e + n - r)
  <2>1. CASE r = 0
    <3>1. c2 = c1 /\ e + n - r = e + n /\ (n = 0 \/ at = e)
      BY <1>1, <2>1, RunNone
    <3>2. Legal(move, e + n - r, e + n, cap)
      BY <1>1, <2>1, NoneLegal
    <3>3. Shifted(c1, c2, at, e, n)
      <4>1. ASSUME NEW j \in at .. e - 1 PROVE j + n = j
        BY <1>1, <3>1
      <4> QED
        BY <3>1, <4>1 DEF Shifted
    <3> QED
      BY <1>8, <3>1, <3>2, <3>3 DEF SameOn, SameCell
  <2>2. CASE r # 0
    <3>1. r \in 1 .. n /\ c1.end = e + n - r /\ move = MoveRange(at, e, at + n, e + n - r) /\ at \in 0 .. e
      BY <1>1, <1>8, <2>2 DEF e
    <3>2. Legal(MoveRange(at, e, at + n, e + n - r), e + n - r, e + n, cap)
      BY <1>0, <1>1, <3>1, MoveLegal
    <3> DEFINE c == Run(c1, MoveRange(at, e, at + n, e + n - r))
    <3>3. /\ Good(c, cap) /\ c.end = e + n
          /\ Shifted(c1, c, at, e, n) /\ SameOn(c1, c, 0, at) /\ SameOn(c1, c, e, e + n - r)
      BY <1>0, <1>1, <1>8, <3>1, MoveDoes
    <3> QED
      BY <3>1, <3>2, <3>3
  <2> QED
    BY <2>1, <2>2
<1>10. Run(b, ConstructAll(new) \o move) = c2 /\ Legal(ConstructAll(new) \o move, e, e + n, cap)
  <2>1. Legal(ConstructAll(new), b.end, e + n - r, cap)
    BY <1>8 DEF e
  <2>2. Legal(ConstructAll(new) \o move, e, e + n, cap)
    BY <1>8, <1>9, ThenLegal
  <2> QED
    BY <1>9, <2>1, <2>2, RunThen DEF c1
<1> HIDE DEF c2, move
<1>11. ASSUME NEW k \in 1 .. r
       PROVE  /\ Readable(fargs[k], e + n) /\ fargs[k].x = args[k].x
              /\ fargs[k].move => fargs[k].at < 0
              /\ fargs[k].at = IF args[k].at >= at THEN args[k].at + n ELSE args[k].at
              /\ fargs[k].at \in Int
  <2>1. k \in 1 .. n
    BY <1>1
  <2> DEFINE arg == args[k]
             a == Followed(arg, at, n)
  <2>2. Readable(arg, e) /\ (arg.move => arg.at < 0)
    BY <1>5, <2>1
  <2> HIDE DEF arg
  <2>6. MayRead(arg, e)
    BY <2>2 DEF MayRead
  <2>7. MayRead(a, e + n) /\ Follow(arg, a, at, n)
    BY <1>1, <2>6, FollowedIs
  <2> HIDE DEF a
  <2>3. /\ Readable(a, e + n) /\ a.x = args[k].x /\ (a.move => a.at < 0)
        /\ a.at = IF args[k].at >= at THEN args[k].at + n ELSE args[k].at
    BY <2>7 DEF arg, MayRead, Follow
  <2>4. a.at \in Int
    BY <2>3 DEF Readable, Args
  <2> HIDE DEF a
  <2>5. fargs[k] = a
    BY <1>4 DEF a, arg
  <2> QED
    BY <2>3, <2>4, <2>5
<1>12. Apart(to, fargs, r)
  <2>1. ASSUME NEW j \in 1 .. r, NEW k \in 1 .. r
        PROVE  /\ to[j] = at + j - 1 /\ to[k] = at + k - 1 /\ j \in Int /\ k \in Int /\ to[k] >= 0
               /\ fargs[j].move => fargs[j].at < 0
               /\ fargs[j].at \in Int /\ fargs[k].at \in Int
               /\ fargs[k].at < at \/ fargs[k].at >= at + n
               /\ j <= n
    <3>1. fargs[k].at = IF args[k].at >= at THEN args[k].at + n ELSE args[k].at
      BY <1>11
    <3>2. k \in 1 .. n /\ j <= n /\ j \in Int /\ k \in Int
      BY <1>1
    <3>3. args[k].at \in Int
      BY <1>6, <3>2
    <3>4. fargs[k].at < at \/ fargs[k].at >= at + n
      BY <1>1, <3>1, <3>3
    <3>5. to[j] = at + j - 1 /\ to[k] = at + k - 1 /\ at + k - 1 >= 0
      BY <1>1, <1>4
    <3> QED
      BY <1>11, <3>2, <3>4, <3>5
  <2>2. ASSUME NEW j \in 1 .. r, NEW k \in 1 .. r, j # k
        PROVE  to[j] # to[k]
    BY <1>1, <2>1, <2>2
  <2>3. ASSUME NEW j \in 1 .. r, NEW k \in 1 .. r, fargs[j].move
        PROVE  fargs[j].at # to[k] /\ (fargs[k].at >= 0 => fargs[j].at # fargs[k].at)
    BY <2>1, <2>3
  <2>4. ASSUME NEW j \in 1 .. r, NEW k \in 1 .. r, j < k
        PROVE  to[j] # fargs[k].at
    BY <1>1, <2>1, <2>4
  <2> QED
    BY <2>2, <2>3, <2>4 DEF Apart, Undisturbed
<1>13. ASSUME NEW k \in 1 .. r PROVE to[k] \in 0 .. (e + n) - 1 /\ to[k] = at + k - 1
  BY <1>1, <1>4
<1>14. /\ Good(c3, cap) /\ c3.end = e + n /\ Legal(over, e + n, e + n, cap)
       /\ \A k \in 1 .. r : HasRead(c2, c3, to[k], fargs[k])
       /\ \A i \in 0 .. cap - 1 : (\A k \in 1 .. r : to[k] # i) /\ NotTaken(fargs, r, i) => SameCell(c2, c3, i)
  <2>1. \A k \in 1 .. r : Readable(fargs[k], c2.end) /\ to[k] \in 0 .. c2.end - 1
    BY <1>9, <1>11, <1>13
  <2>2. r \in Nat
    BY <1>1
  <2>3. LET x == Run(c2, AssignAt(to, fargs, r)) IN
         /\ Legal(AssignAt(to, fargs, r), c2.end, c2.end, cap)
         /\ Good(x, cap) /\ x.end = c2.end
         /\ \A k \in 1 .. r : HasRead(c2, x, to[k], fargs[k])
         /\ \A i \in 0 .. cap - 1 : (\A k \in 1 .. r : to[k] # i) /\ NotTaken(fargs, r, i) => SameCell(c2, x, i)
    BY <1>9, <1>12, <2>1, <2>2, AssignDoes
  <2> QED
    BY <1>9, <2>3
<1>15. Run(b, ConstructAll(new) \o move \o over) = c3
  <2>1. Legal(ConstructAll(new) \o move, b.end, e + n, cap)
    BY <1>10 DEF e
  <2>2. Run(b, (ConstructAll(new) \o move) \o over) = Run(Run(b, ConstructAll(new) \o move), over)
    <3> DEFINE s == ConstructAll(new) \o move
    <3> HIDE DEF s, over
    <3> QED
      BY <1>14, <2>1, RunThen DEF s
  <2> QED
    BY <1>10, <2>2
<1> HIDE DEF c3, over
<1>16. ASSUME NEW i \in 0 .. cap - 1, i < at \/ i >= at + r PROVE SameCell(c2, c3, i)
  <2>1. ASSUME NEW k \in 1 .. r PROVE to[k] # i
    <3>1. to[k] = at + k - 1
      BY <1>13
    <3> QED
      BY <1>1, <1>16, <3>1
  <2>2. ASSUME NEW k \in 1 .. r PROVE fargs[k].move => fargs[k].at # i
    <3>1. fargs[k].move => fargs[k].at < 0
      BY <1>11
    <3> QED
      BY <3>1
  <2> QED
    BY <1>14, <2>1, <2>2 DEF NotTaken
<1>17. SameOn(b, c3, 0, at)
  <2> SUFFICES ASSUME NEW i \in 0 .. at - 1 PROVE SameCell(b, c3, i)
    BY DEF SameOn
  <2>1. i \in 0 .. e - 1 /\ i \in 0 .. cap - 1 /\ i < at
    BY <1>0, <1>1
  <2>2. SameCell(b, c1, i)
    BY <1>8, <2>1 DEF SameOn
  <2>3. SameCell(c1, c2, i)
    BY <1>9 DEF SameOn
  <2>4. SameCell(c2, c3, i)
    BY <1>16, <2>1
  <2> QED
    BY <2>2, <2>3, <2>4 DEF SameCell
<1>18. ASSUME NEW j \in at .. e - 1 PROVE c3.cells[j + n] = b.cells[j] /\ c2.cells[j + n] = b.cells[j]
  <2>1. j \in 0 .. e - 1 /\ j + n \in 0 .. cap - 1 /\ j + n >= at + r
    BY <1>0, <1>1
  <2>2. SameCell(b, c1, j)
    BY <1>8, <2>1 DEF SameOn
  <2>3. c2.cells[j + n] = c1.cells[j]
    BY <1>9 DEF Shifted
  <2>4. SameCell(c2, c3, j + n)
    BY <1>16, <2>1
  <2> QED
    BY <2>2, <2>3, <2>4 DEF SameCell
<1>19. ASSUME NEW k \in 1 .. n PROVE HasRead(b, c3, at + k - 1, args[k])
  <2>1. CASE k > r
    <3> DEFINE l == k - r
               i == at + k - 1
    <3>1. n > e - at
      BY <1>1, <2>1
    <3>2. r = e - at
      BY <1>1, <3>1
    <3>3. l \in 1 .. n - r /\ l + r = k /\ e + l - 1 = i /\ i \in e .. (e + n - r) - 1 /\ i \in 0 .. cap - 1 /\ i >= at + r
      BY <1>0, <1>1, <2>1, <3>2
    <3> HIDE DEF l, i
    <3>4. HasRead(b, c1, i, args[k])
      BY <1>7, <1>8, <3>3
    <3>5. SameCell(c1, c2, i)
      BY <1>9, <3>3 DEF SameOn
    <3>6. SameCell(c2, c3, i)
      BY <1>16, <3>3
    <3> QED
      BY <3>4, <3>5, <3>6 DEF HasRead, SameCell, i
  <2>2. CASE k <= r
    <3>1. k \in 1 .. r
      BY <1>1, <2>2
    <3>2. HasRead(c2, c3, at + k - 1, fargs[k])
      BY <1>13, <1>14, <3>1
    <3> DEFINE a == args[k].at
    <3>3. a \in Int /\ a < e
      BY <1>6
    <3>4. /\ fargs[k].x = args[k].x
          /\ fargs[k].at = IF a >= at THEN a + n ELSE a
      BY <1>11, <3>1
    <3> HIDE DEF a
    <3>5. Read(c2, fargs[k]) = Read(b, args[k])
      <4>1. CASE a >= at
        <5>1. a \in at .. e - 1 /\ ~ (a + n < 0) /\ ~ (a < 0)
          BY <1>1, <3>3, <4>1
        <5>2. c2.cells[a + n] = b.cells[a]
          BY <1>18, <5>1
        <5>3. fargs[k].at = a + n
          BY <3>4, <4>1
        <5> QED
          BY <5>1, <5>2, <5>3 DEF Read, a
      <4>2. CASE a < at /\ a >= 0
        <5>1. a \in 0 .. at - 1 /\ a \in 0 .. e - 1 /\ ~ (a < 0) /\ ~ (a >= at)
          BY <1>1, <3>3, <4>2
        <5>2. SameCell(b, c1, a) /\ SameCell(c1, c2, a)
          BY <1>8, <1>9, <5>1 DEF SameOn
        <5>3. fargs[k].at = a
          BY <3>4, <5>1
        <5> QED
          BY <5>1, <5>2, <5>3 DEF Read, SameCell, a
      <4>3. CASE a < 0
        <5>1. ~ (a >= at)
          BY <1>1, <3>3, <4>3
        <5>2. fargs[k].at = a
          BY <3>4, <5>1
        <5> QED
          BY <3>4, <4>3, <5>2 DEF Read, a
      <4> QED
        BY <1>1, <3>3, <4>1, <4>2, <4>3
    <3> QED
      BY <3>2, <3>5 DEF HasRead
  <2> QED
    BY <1>1, <2>1, <2>2
<1>20. Shifted(b, c3, at, e, n)
  BY <1>18 DEF Shifted
<1>21. Inserted(b, c3, at, args)
  BY <1>14, <1>17, <1>19, <1>20 DEF Inserted, e, n
<1> QED
  BY <1>2, <1>14, <1>15, <1>21 DEF e

(* The operation was done as told, or has thrown.                          *)
Told == last'.threw \/ Contents(v') = Spliced(contents, last'.from, last'.to, last'.by)

LEMMA EndTold ==
  ASSUME NEW op, NEW from, NEW to, NEW by, NEW b, NEW threw, End(op, from, to, by, b, threw),
         threw \/ Contents(b) = Spliced(contents, from, to, by)
  PROVE  Told
<1> DEFINE l == [op |-> op, from |-> from, to |-> to, by |-> by, threw |-> threw]
<1>1. l.threw = threw /\ l.from = from /\ l.to = to /\ l.by = by
  OBVIOUS
<1> HIDE DEF l
<1>2. last' = l /\ v' = b
  BY DEF End, l
<1> QED
  BY <1>1, <1>2 DEF Told

LEMMA AttemptTold ==
  ASSUME NEW op, NEW from, NEW to, NEW by, NEW b, NEW steps, Attempt(op, from, to, by, b, steps),
         Contents(Run(b, steps)) = Spliced(contents, from, to, by)
  PROVE  Told
<1>1. CASE End(op, from, to, by, Run(b, steps), FALSE)
  BY <1>1, EndTold
<1>2. ASSUME NEW k \in DOMAIN steps,
             End(op, from, to, by, Broken(Run(b, SubSeq(steps, 1, k - 1)), steps[k]), TRUE)
      PROVE  Told
  <2> DEFINE c == Broken(Run(b, SubSeq(steps, 1, k - 1)), steps[k])
             yes == TRUE
  <2>1. End(op, from, to, by, c, yes) /\ yes
    BY <1>2
  <2> HIDE DEF c, yes
  <2> QED
    BY <2>1, EndTold
<1> QED
  BY <1>1, <1>2 DEF Attempt

(* A sequence that is another one but for by in the place of the elements  *)
(* from up to to.                                                          *)
Splices(c, s, from, to, by) ==
  /\ Len(c) = Len(s) - (to - from) + Len(by)
  /\ \A i \in 1 .. from : c[i] = s[i]
  /\ \A k \in 1 .. Len(by) : c[from + k] = by[k]
  /\ \A i \in to + 1 .. Len(s) : c[from + Len(by) + (i - to)] = s[i]

LEMMA EqualSeqs ==
  ASSUME NEW S, NEW xs \in Seq(S), NEW ys \in Seq(S), Len(xs) = Len(ys), \A i \in 1 .. Len(xs) : xs[i] = ys[i]
  PROVE  xs = ys
  OBVIOUS

LEMMA SplicedIs ==
  ASSUME NEW s \in Seq(Lives), NEW by \in Seq(Lives), NEW from \in 0 .. Len(s), NEW to \in from .. Len(s)
  PROVE  Spliced(s, from, to, by) \in Seq(Lives) /\ Splices(Spliced(s, from, to, by), s, from, to, by)
<1> DEFINE n == Len(s)
           a == SubSeq(s, 1, from)
           b == SubSeq(s, to + 1, n)
           ab == a \o by
           c == ab \o b
<1>1. n \in Nat /\ from \in Nat /\ to \in Nat /\ from <= to /\ to <= n /\ Len(by) \in Nat
  OBVIOUS
<1>2. a \in Seq(Lives) /\ Len(a) = from /\ \A i \in 1 .. from : a[i] = s[i]
  BY <1>1
<1>3. b \in Seq(Lives) /\ Len(b) = n - to /\ \A i \in 1 .. n - to : b[i] = s[to + i]
  BY <1>1
<1> HIDE DEF a, b, n
<1>4. /\ ab \in Seq(Lives) /\ Len(ab) = from + Len(by) /\ \A i \in 1 .. from : ab[i] = a[i]
      /\ \A i \in 1 .. Len(by) : ab[from + i] = by[i]
  <2>1. /\ ab \in Seq(Lives) /\ Len(ab) = Len(a) + Len(by)
        /\ \A i \in 1 .. Len(a) : ab[i] = a[i]
        /\ \A i \in 1 .. Len(by) : ab[Len(a) + i] = by[i]
    <3>1. a \in Seq(Lives) /\ by \in Seq(Lives)
      BY <1>2
    <3> QED
      BY <3>1
  <2> QED
    BY <1>2, <2>1
<1> HIDE DEF ab
<1> DEFINE l == from + Len(by)
<1>5. /\ c \in Seq(Lives) /\ Len(c) = l + (n - to) /\ \A i \in 1 .. l : c[i] = ab[i]
      /\ \A i \in 1 .. n - to : c[l + i] = b[i]
  <2>1. /\ c \in Seq(Lives) /\ Len(c) = Len(ab) + Len(b)
        /\ \A i \in 1 .. Len(ab) : c[i] = ab[i]
        /\ \A i \in 1 .. Len(b) : c[Len(ab) + i] = b[i]
    <3>1. ab \in Seq(Lives) /\ b \in Seq(Lives)
      BY <1>3, <1>4
    <3> QED
      BY <3>1
  <2> QED
    BY <1>3, <1>4, <2>1
<1>6. c = Spliced(s, from, to, by)
  BY DEF Spliced, ab, a, b, n
<1> HIDE DEF c
<1>7. Len(c) = n - (to - from) + Len(by)
  BY <1>1, <1>5
<1>8. ASSUME NEW i \in 1 .. from PROVE c[i] = s[i]
  <2>1. i \in 1 .. l
    BY <1>1
  <2> QED
    BY <1>2, <1>4, <1>5, <2>1
<1>9. ASSUME NEW k \in 1 .. Len(by) PROVE c[from + k] = by[k]
  <2>1. from + k \in 1 .. l
    BY <1>1
  <2> QED
    BY <1>4, <1>5, <2>1
<1>10. ASSUME NEW i \in to + 1 .. n PROVE c[from + Len(by) + (i - to)] = s[i]
  <2> DEFINE j == i - to
  <2>1. j \in 1 .. n - to /\ to + j = i
    BY <1>1
  <2> HIDE DEF j, l
  <2>2. c[l + j] = s[i]
    BY <1>3, <1>5, <2>1
  <2> QED
    BY <2>2 DEF l, j
<1> QED
  BY <1>5, <1>6, <1>7, <1>8, <1>9, <1>10 DEF Splices, n

LEMMA SplicesOne ==
  ASSUME NEW s \in Seq(Lives), NEW by \in Seq(Lives), NEW from \in 0 .. Len(s), NEW to \in from .. Len(s),
         NEW c \in Seq(Lives), Splices(c, s, from, to, by)
  PROVE  c = Spliced(s, from, to, by)
<1> DEFINE d == Spliced(s, from, to, by)
           n == Len(s)
           m == Len(by)
<1>1. d \in Seq(Lives) /\ Splices(d, s, from, to, by)
  BY SplicedIs
<1> HIDE DEF d
<1>2. n \in Nat /\ from \in Nat /\ to \in Nat /\ from <= to /\ to <= n /\ m \in Nat
  OBVIOUS
<1>3. Len(c) = n - (to - from) + m /\ Len(d) = n - (to - from) + m
  BY <1>1 DEF Splices
<1>4. ASSUME NEW i \in 1 .. Len(c) PROVE c[i] = d[i]
  <2>0. i \in Int /\ i >= 1 /\ i <= n - (to - from) + m
    BY <1>2, <1>3
  <2>1. CASE i <= from
    <3>1. i \in 1 .. from
      BY <2>1
    <3> QED
      BY <1>1, <3>1 DEF Splices
  <2>2. CASE i > from /\ i <= from + m
    <3> DEFINE k == i - from
    <3>1. k \in 1 .. m /\ from + k = i
      BY <1>2, <2>0, <2>2
    <3> HIDE DEF k
    <3>2. c[from + k] = by[k] /\ d[from + k] = by[k]
      BY <1>1, <3>1 DEF Splices
    <3> QED
      BY <3>1, <3>2
  <2>3. CASE i > from + m
    <3> DEFINE j == i - from - m + to
    <3>1. j \in to + 1 .. n /\ from + m + (j - to) = i
      BY <1>2, <2>0, <2>3
    <3> HIDE DEF j
    <3>2. c[from + m + (j - to)] = s[j] /\ d[from + m + (j - to)] = s[j]
      BY <1>1, <3>1 DEF Splices
    <3> QED
      BY <3>1, <3>2
  <2> QED
    BY <1>2, <2>0, <2>1, <2>2, <2>3
<1>5. c = d
  BY <1>1, <1>3, <1>4, EqualSeqs
<1> QED
  BY <1>5 DEF d

(* The same of blocks, cell by cell.                                       *)
BlockSplices(c, from, to, by) ==
  /\ c.end = size - (to - from) + Len(by)
  /\ SameOn(v, c, 0, from)
  /\ \A k \in 1 .. Len(by) : c.cells[from + k - 1] = by[k]
  /\ \A j \in to .. size - 1 : c.cells[from + Len(by) + (j - to)] = v.cells[j]

LEMMA BlockTold ==
  ASSUME NEW cap \in 0 .. MaxSize, Good(v, cap), NEW cap2 \in Nat, NEW c, Good(c, cap2),
         NEW from \in 0 .. size, NEW to \in from .. size, NEW by \in Seq(Lives),
         BlockSplices(c, from, to, by)
  PROVE  Contents(c) = Spliced(contents, from, to, by)
<1> DEFINE d == Contents(c)
           s == contents
           m == Len(by)
<1>1. size \in Nat /\ s \in Seq(Lives) /\ Len(s) = size
  BY SizeIs
<1>2. d \in Seq(Lives) /\ Len(d) = c.end
  BY ContentsAre
<1>3. /\ c.end = size - (to - from) + m
      /\ SameOn(v, c, 0, from)
      /\ \A k \in 1 .. m : c.cells[from + k - 1] = by[k]
      /\ \A j \in to .. size - 1 : c.cells[from + m + (j - to)] = v.cells[j]
  BY DEF BlockSplices
<1>4. /\ \A i \in 1 .. c.end : d[i] = c.cells[i - 1]
      /\ \A i \in 1 .. size : s[i] = v.cells[i - 1]
  BY DEF Contents, contents, size
<1>5. m \in Nat /\ from \in Nat /\ to \in Nat /\ from <= to /\ to <= size
  BY <1>1
<1> HIDE DEF d, s, m
<1>6. ASSUME NEW i \in 1 .. from PROVE d[i] = s[i]
  <2>1. i - 1 \in 0 .. from - 1 /\ i \in 1 .. c.end /\ i \in 1 .. size
    BY <1>1, <1>3, <1>5
  <2>2. SameCell(v, c, i - 1)
    BY <1>3, <2>1 DEF SameOn
  <2> QED
    BY <1>4, <2>1, <2>2 DEF SameCell
<1>7. ASSUME NEW k \in 1 .. m PROVE d[from + k] = by[k]
  <2>1. from + k \in 1 .. c.end /\ (from + k) - 1 = from + k - 1
    BY <1>1, <1>3, <1>5
  <2> QED
    BY <1>3, <1>4, <2>1
<1>8. ASSUME NEW i \in to + 1 .. size PROVE d[from + m + (i - to)] = s[i]
  <2> DEFINE j == i - 1
             p == from + m + (i - to)
  <2>1. j \in to .. size - 1 /\ p \in 1 .. c.end /\ p - 1 = from + m + (j - to) /\ i \in 1 .. size
    BY <1>1, <1>3, <1>5
  <2>2. c.cells[from + m + (j - to)] = v.cells[j]
    BY <1>3, <2>1
  <2>3. d[p] = c.cells[p - 1] /\ s[i] = v.cells[j]
    BY <1>4, <2>1
  <2> HIDE DEF p
  <2>4. d[p] = s[i]
    BY <2>1, <2>2, <2>3
  <2> QED
    BY <2>4 DEF p
<1>9. Splices(d, s, from, to, by)
  BY <1>1, <1>2, <1>3, <1>6, <1>7, <1>8 DEF Splices, m
<1>10. from \in 0 .. Len(s) /\ to \in from .. Len(s)
  BY <1>1
<1>11. d = Spliced(s, from, to, by)
  BY <1>1, <1>2, <1>9, <1>10, SplicesOne
<1> QED
  BY <1>11 DEF d, s

(* What a new block is given is its contents.                              *)
LEMMA HoldingContents ==
  ASSUME NEW xs \in Seq(Lives), NEW cap \in Nat, Len(xs) <= cap
  PROVE  Contents(Holding(xs, cap)) = xs
<1> DEFINE b == Holding(xs, cap)
<1>1. /\ b.end = Len(xs)
      /\ b.cells = [i \in 0 .. cap - 1 |-> IF i < Len(xs) THEN xs[i + 1] ELSE Raw]
  BY DEF Holding, Block
<1>2. Good(b, cap)
  BY HoldingGood
<1> HIDE DEF b
<1>3. Contents(b) \in Seq(Lives) /\ Len(Contents(b)) = b.end
  BY <1>2, ContentsAre
<1>4. ASSUME NEW i \in 1 .. Len(xs) PROVE Contents(b)[i] = xs[i]
  <2>1. i - 1 \in 0 .. cap - 1 /\ i - 1 < Len(xs) /\ (i - 1) + 1 = i
    OBVIOUS
  <2>2. b.cells[i - 1] = xs[i]
    BY <1>1, <2>1
  <2>3. Contents(b)[i] = b.cells[i - 1]
    BY <1>1 DEF Contents
  <2> QED
    BY <2>2, <2>3
<1>5. Contents(b) = xs
  BY <1>1, <1>3, <1>4, EqualSeqs
<1> QED
  BY <1>5 DEF b

LEMMA ReadAllIs ==
  ASSUME NEW cap \in 0 .. MaxSize, Good(v, cap), NEW args \in Seq(Args),
         \A k \in 1 .. Len(args) : Readable(args[k], size)
  PROVE  /\ ReadAll(args) \in Seq(Lives) /\ Len(ReadAll(args)) = Len(args)
         /\ \A k \in 1 .. Len(args) : ReadAll(args)[k] = Read(v, args[k])
<1>1. ReadAll(args) \in Seq(Lives) /\ Len(ReadAll(args)) = Len(args)
  BY ReadAllLives
<1>2. DOMAIN args = 1 .. Len(args)
  OBVIOUS
<1> QED
  BY <1>1, <1>2 DEF ReadAll

(* Elements constructed at the end are told to replace nothing there.      *)
LEMMA ConstructTold ==
  ASSUME NEW cap \in 0 .. MaxSize, Good(v, cap), NEW args \in Seq(Args), size + Len(args) <= cap,
         \A k \in 1 .. Len(args) : Readable(args[k], size), Quiet(args)
  PROVE  Contents(Run(v, ConstructAll(args))) = Spliced(contents, size, size, ReadAll(args))
<1> DEFINE n == Len(args)
           c == Run(v, ConstructAll(args))
           by == ReadAll(args)
<1>1. cap \in Nat /\ size \in Nat /\ n \in Nat /\ DOMAIN args = 1 .. n /\ size \in 0 .. cap
  BY SizeIs
<1>2. by \in Seq(Lives) /\ Len(by) = n /\ \A k \in 1 .. n : by[k] = Read(v, args[k])
  BY ReadAllIs
<1>3. \A k \in 1 .. n : Readable(args[k], v.end) /\ args[k].at \in Int /\ (args[k].move => args[k].at < 0)
  BY DEF Readable, Args, Quiet, size
<1>4. Undisturbed(args, n)
  BY <1>3 DEF Undisturbed
<1>5. \A i \in 0 .. v.end - 1 : NotTaken(args, n, i)
  BY <1>3 DEF NotTaken
<1> HIDE DEF n, by
<1>6. v.end = size /\ v.end + n <= cap
  BY DEF size, n
<1>7. /\ Good(c, cap) /\ c.end = v.end + n
      /\ \A k \in 1 .. n : HasRead(v, c, v.end + k - 1, args[k])
      /\ \A i \in 0 .. v.end - 1 : NotTaken(args, n, i) => SameCell(v, c, i)
  BY <1>1, <1>3, <1>4, <1>6, ConstructDoes
<1> HIDE DEF c
<1>8. c.end = size - (size - size) + Len(by)
  BY <1>1, <1>2, <1>6, <1>7
<1>9. SameOn(v, c, 0, size)
  BY <1>5, <1>6, <1>7 DEF SameOn
<1>10. \A k \in 1 .. Len(by) : c.cells[size + k - 1] = by[k]
  BY <1>2, <1>6, <1>7 DEF HasRead
<1>11. \A j \in size .. size - 1 : c.cells[size + Len(by) + (j - size)] = v.cells[j]
  BY <1>1
<1>12. BlockSplices(c, size, size, by)
  BY <1>8, <1>9, <1>10, <1>11 DEF BlockSplices
<1>13. size \in 0 .. size /\ size \in size .. size
  BY <1>1
<1>14. Contents(c) = Spliced(contents, size, size, by)
  BY <1>1, <1>2, <1>7, <1>12, <1>13, BlockTold
<1> QED
  BY <1>14 DEF c, by

(* Steps done on a block that has all of the vector's elements, be it its  *)
(* own or another.                                                         *)
LEMMA InsertedTold ==
  ASSUME NEW cap \in 0 .. MaxSize, Good(v, cap), NEW at \in 0 .. size, NEW args \in Seq(Args),
         size + Len(args) <= cap, \A k \in 1 .. Len(args) : Readable(args[k], size), Quiet(args)
  PROVE  Contents(Run(v, InsertSteps(size, at, args))) = Spliced(contents, at, at, ReadAll(args))
<1> DEFINE n == Len(args)
           c == Run(v, InsertSteps(size, at, args))
           by == ReadAll(args)
<1>1. cap \in Nat /\ size \in Nat /\ n \in Nat /\ at \in Nat
  BY SizeIs
<1>2. by \in Seq(Lives) /\ Len(by) = n /\ \A k \in 1 .. n : by[k] = Read(v, args[k])
  BY ReadAllIs
<1>3. Good(c, cap) /\ Inserted(v, c, at, args)
  BY <1>1, InsertDoes DEF size
<1> HIDE DEF n, by, c
<1>4. v.end = size
  BY DEF size
<1>5. /\ c.end = size + n /\ SameOn(v, c, 0, at)
      /\ \A k \in 1 .. n : HasRead(v, c, at + k - 1, args[k])
      /\ \A j \in at .. size - 1 : c.cells[j + n] = v.cells[j]
  BY <1>3, <1>4 DEF Inserted, Shifted, n
<1>6. c.end = size - (at - at) + Len(by)
  BY <1>1, <1>2, <1>5
<1>7. \A k \in 1 .. Len(by) : c.cells[at + k - 1] = by[k]
  BY <1>2, <1>5 DEF HasRead
<1>8. ASSUME NEW j \in at .. size - 1 PROVE c.cells[at + Len(by) + (j - at)] = v.cells[j]
  <2>1. at + Len(by) + (j - at) = j + n
    BY <1>1, <1>2
  <2> QED
    BY <1>5, <2>1
<1>9. BlockSplices(c, at, at, by)
  BY <1>5, <1>6, <1>7, <1>8 DEF BlockSplices
<1>10. at \in at .. size
  BY <1>1
<1>11. Contents(c) = Spliced(contents, at, at, by)
  BY <1>1, <1>2, <1>3, <1>9, <1>10, BlockTold
<1> QED
  BY <1>11 DEF c, by

(* An operation in a new block.                                            *)
LEMMA RegrowTold ==
  ASSUME NEW cap \in 0 .. MaxSize, Good(v, cap), NEW op, NEW room \in Nat, NEW at \in 0 .. size,
         NEW xs \in Seq(Lives), room >= size + Len(xs), Regrow(op, room, at, xs)
  PROVE  Told
<1> DEFINE new == SubSeq(contents, 1, at) \o xs \o SubSeq(contents, at + 1, size)
<1>1. cap \in Nat /\ size \in Nat /\ contents \in Seq(Lives) /\ Len(contents) = size
  BY SizeIs
<1>2. new = Spliced(contents, at, at, xs)
  BY <1>1 DEF Spliced
<1> HIDE DEF new
<1>3. at \in 0 .. Len(contents) /\ at \in at .. Len(contents)
  BY <1>1
<1>4. new \in Seq(Lives) /\ Splices(new, contents, at, at, xs)
  BY <1>1, <1>2, <1>3, SplicedIs
<1>5. Len(new) = size - (at - at) + Len(xs)
  BY <1>1, <1>4 DEF Splices
<1>6. Len(new) <= room
  BY <1>1, <1>5
<1>7. Contents(Holding(new, room)) = new
  BY <1>4, <1>6, HoldingContents
<1>8. \/ End(op, at, at, xs, Holding(new, room), FALSE)
      \/ End(op, at, at, xs, v, TRUE)
  BY DEF Regrow, new
<1>9. CASE End(op, at, at, xs, Holding(new, room), FALSE)
  BY <1>2, <1>7, <1>9, EndTold
<1>10. CASE End(op, at, at, xs, v, TRUE)
  <2> DEFINE yes == TRUE
  <2>1. End(op, at, at, xs, v, yes) /\ yes
    BY <1>10
  <2> HIDE DEF yes
  <2> QED
    BY <2>1, EndTold
<1> QED
  BY <1>8, <1>9, <1>10

LEMMA RecommendedIs ==
  ASSUME NEW cap \in 0 .. MaxSize, Good(v, cap), NEW n \in Nat
  PROVE  Recommended(n) \in Nat /\ Recommended(n) >= size + n
<1>1. size + n \in Nat /\ capacity \in Nat
  BY SizeIs
<1> QED
  BY <1>1, RecommendIs DEF Recommended

(* One lemma per operation: it does as told.                               *)
LEMMA PushBackTold ==
  ASSUME NEW cap \in 0 .. MaxSize, Good(v, cap), NEW arg \in Arguments, PushBack(arg)
  PROVE  Told
<1> DEFINE args == <<arg>>
<1>1. cap \in Nat /\ size \in 0 .. cap /\ size \in Nat /\ capacity = cap
  BY SizeIs
<1>2. arg \in Args /\ Readable(arg, size) /\ (arg.move => arg.at < 0)
  BY ArgumentReadable, ArgumentUnmoved
<1>3. /\ args \in Seq(Args) /\ Len(args) = 1 /\ \A k \in 1 .. Len(args) : Readable(args[k], size)
      /\ Quiet(args)
  BY <1>2 DEF Quiet
<1>4. ConstructAll(args) = <<Construct(arg)>>
  BY DEF ConstructAll
<1>5. \/ size < capacity /\ Attempt("push_back", size, size, ReadAll(args), v, <<Construct(arg)>>)
      \/ Regrow("push_back", Recommended(1), size, ReadAll(args))
  BY DEF PushBack
<1> HIDE DEF args
<1>6. CASE size < capacity /\ Attempt("push_back", size, size, ReadAll(args), v, <<Construct(arg)>>)
  <2>1. size + Len(args) <= cap
    BY <1>1, <1>3, <1>6
  <2>2. Contents(Run(v, ConstructAll(args))) = Spliced(contents, size, size, ReadAll(args))
    BY <1>3, <2>1, ConstructTold
  <2> QED
    BY <1>4, <1>6, <2>2, AttemptTold
<1>7. CASE Regrow("push_back", Recommended(1), size, ReadAll(args))
  <2>1. ReadAll(args) \in Seq(Lives) /\ Len(ReadAll(args)) = 1
    BY <1>3, ReadAllIs
  <2>2. Recommended(1) \in Nat /\ Recommended(1) >= size + Len(ReadAll(args)) /\ size \in 0 .. size
    BY <1>1, <2>1, RecommendedIs
  <2> QED
    BY <1>7, <2>1, <2>2, RegrowTold
<1> QED
  BY <1>5, <1>6, <1>7

LEMMA InsertTold ==
  ASSUME NEW cap \in 0 .. MaxSize, Good(v, cap), NEW at \in 0 .. size, NEW args \in Seq(Args),
         \A k \in 1 .. Len(args) : Readable(args[k], size), Quiet(args), Insert(at, args)
  PROVE  Told
<1> DEFINE n == Len(args)
<1>1. cap \in Nat /\ size \in 0 .. cap /\ size \in Nat /\ capacity = cap /\ n \in Nat
  BY SizeIs
<1>2. ReadAll(args) \in Seq(Lives) /\ Len(ReadAll(args)) = n
  BY ReadAllIs
<1>3. CASE size + n <= capacity
  <2>1. Attempt("insert", at, at, ReadAll(args), v, InsertSteps(size, at, args))
    BY <1>3 DEF Insert
  <2> QED
    BY <1>1, <1>3, <2>1, InsertedTold, AttemptTold
<1>4. CASE ~ (size + n <= capacity)
  <2>1. Regrow("insert", Recommended(n), at, ReadAll(args))
    BY <1>4 DEF Insert
  <2>2. Recommended(n) \in Nat /\ Recommended(n) >= size + n
    BY <1>1, RecommendedIs
  <2> QED
    BY <1>2, <2>1, <2>2, RegrowTold
<1> QED
  BY <1>3, <1>4

LEMMA AppendTold ==
  ASSUME NEW cap \in 0 .. MaxSize, Good(v, cap), NEW n \in 1 .. MaxArgs, NEW arg \in Arguments, ~ arg.move,
         AppendCopies(n, arg)
  PROVE  Told
<1> DEFINE args == [k \in 1 .. n |-> arg]
<1>1. cap \in Nat /\ size \in 0 .. cap /\ size \in Nat /\ capacity = cap /\ n \in Nat
  BY SizeIs, Constants
<1>2. arg \in Args /\ Readable(arg, size)
  BY ArgumentReadable
<1>3. args \in Seq(Args) /\ Len(args) = n /\ \A k \in 1 .. n : args[k] = arg
  BY <1>1, <1>2, CopiesAre
<1>4. \/ size + n <= capacity /\ Attempt("append", size, size, ReadAll(args), v, ConstructAll(args))
      \/ Regrow("append", Recommended(n), size, ReadAll(args))
  BY DEF AppendCopies
<1> HIDE DEF args
<1>5. (\A k \in 1 .. Len(args) : Readable(args[k], size)) /\ Quiet(args)
  BY <1>2, <1>3 DEF Quiet
<1>6. CASE size + n <= capacity /\ Attempt("append", size, size, ReadAll(args), v, ConstructAll(args))
  BY <1>1, <1>3, <1>5, <1>6, ConstructTold, AttemptTold
<1>7. CASE Regrow("append", Recommended(n), size, ReadAll(args))
  <2>1. ReadAll(args) \in Seq(Lives) /\ Len(ReadAll(args)) = n
    BY <1>3, <1>5, ReadAllIs
  <2>2. Recommended(n) \in Nat /\ Recommended(n) >= size + n /\ size \in 0 .. size
    BY <1>1, RecommendedIs
  <2> QED
    BY <1>7, <2>1, <2>2, RegrowTold
<1> QED
  BY <1>4, <1>6, <1>7

LEMMA ReserveTold ==
  ASSUME NEW cap \in 0 .. MaxSize, Good(v, cap), NEW n \in 0 .. MaxSize + 1, Reserve(n)
  PROVE  Told
<1>1. cap \in Nat /\ size \in 0 .. cap /\ size \in Nat /\ capacity = cap
  BY SizeIs
<1> DEFINE none == <<>>
<1>2. n > capacity /\ Regrow("reserve", n, size, none)
  BY DEF Reserve
<1>3. none \in Seq(Lives) /\ Len(none) = 0
  OBVIOUS
<1> HIDE DEF none
<1>4. n \in Nat /\ n >= size + Len(none) /\ size \in 0 .. size
  BY <1>1, <1>2, <1>3
<1> QED
  BY <1>2, <1>3, <1>4, RegrowTold

LEMMA ValueIs ==
  ASSUME NEW x \in Lives, NEW b
  PROVE  /\ Value(x).at = -1 /\ Value(x).move = FALSE /\ Read(b, Value(x)) = x
         /\ Moved(Value(x)).at = -1 /\ Moved(Value(x)).move = TRUE /\ Read(b, Moved(Value(x))) = x
<1> DEFINE a == Value(x)
           c == Moved(a)
<1>1. a \in Args /\ a.at = -1 /\ a.x = x /\ a.move = FALSE
  BY DEF Value, Args
<1> HIDE DEF a
<1>2. c.at = -1 /\ c.x = x /\ c.move = TRUE
  BY <1>1 DEF Moved, Args
<1> HIDE DEF c
<1>3. Read(b, a) = x /\ Read(b, c) = x
  BY <1>1, <1>2 DEF Read
<1> QED
  BY <1>1, <1>2, <1>3 DEF a, c

(* Nothing replaced by nothing.                                            *)
LEMMA NothingTold ==
  ASSUME NEW cap \in 0 .. MaxSize, Good(v, cap)
  PROVE  contents = Spliced(contents, size, size, <<>>)
<1> DEFINE none == <<>>
           s == contents
<1>1. size \in Nat /\ s \in Seq(Lives) /\ Len(s) = size
  BY SizeIs
<1>2. none \in Seq(Lives) /\ Len(none) = 0 /\ 1 .. Len(none) = {}
  OBVIOUS
<1> HIDE DEF none, s
<1>3. size \in 0 .. Len(s) /\ size \in size .. Len(s)
  BY <1>1
<1>4. Len(s) = Len(s) - (size - size) + Len(none)
  BY <1>1, <1>2
<1>5. \A i \in size + 1 .. Len(s) : s[size + Len(none) + (i - size)] = s[i]
  BY <1>1
<1>6. Splices(s, s, size, size, none)
  BY <1>2, <1>4, <1>5 DEF Splices
<1>7. s = Spliced(s, size, size, none)
  BY <1>1, <1>2, <1>3, <1>6, SplicesOne
<1> QED
  BY <1>7 DEF none, s

LEMMA ShrinkToFitTold ==
  ASSUME NEW cap \in 0 .. MaxSize, Good(v, cap), ShrinkToFit
  PROVE  Told
<1>1. size \in Nat /\ contents \in Seq(Lives) /\ Len(contents) = size
  BY SizeIs
<1>2. PICK b \in {v, Holding(contents, size)} : End("shrink_to_fit", size, size, <<>>, b, FALSE)
  BY DEF ShrinkToFit
<1>3. Contents(Holding(contents, size)) = contents
  BY <1>1, HoldingContents
<1>4. Contents(b) = Spliced(contents, size, size, <<>>)
  BY <1>2, <1>3, NothingTold DEF contents
<1> QED
  BY <1>2, <1>4, EndTold

LEMMA DestroyTold ==
  ASSUME NEW cap \in 0 .. MaxSize, Good(v, cap), NEW n \in 0 .. size
  PROVE  Contents(Run(v, DestroyLast(n))) = Spliced(contents, size - n, size, <<>>)
<1> DEFINE c == Run(v, DestroyLast(n))
           none == <<>>
           from == size - n
<1>1. cap \in Nat /\ size \in Nat /\ n \in Nat /\ v.end = size
  BY SizeIs DEF size
<1>2. Good(c, cap) /\ c.end = size - n /\ \A i \in 0 .. (size - n) - 1 : SameCell(v, c, i)
  BY <1>1, DestroyDoes
<1>3. none \in Seq(Lives) /\ Len(none) = 0 /\ 1 .. Len(none) = {}
  OBVIOUS
<1> HIDE DEF c, none
<1>4. from \in 0 .. size /\ size \in from .. size
  BY <1>1
<1>5. c.end = size - (size - from) + Len(none) /\ SameOn(v, c, 0, from)
  BY <1>1, <1>2, <1>3 DEF SameOn
<1>6. size .. size - 1 = {}
  BY <1>1
<1> HIDE DEF from
<1>7. BlockSplices(c, from, size, none)
  BY <1>3, <1>5, <1>6 DEF BlockSplices
<1>9. Good(c, cap) /\ cap \in Nat /\ none \in Seq(Lives)
  BY <1>1, <1>2, <1>3
<1>8. Contents(c) = Spliced(contents, from, size, none)
  BY <1>4, <1>7, <1>9, BlockTold
<1> QED
  BY <1>8 DEF c, from, none

LEMMA ShrinkTold ==
  ASSUME NEW cap \in 0 .. MaxSize, Good(v, cap), NEW n \in 0 .. size, Shrink(n)
  PROVE  Told
<1>1. size \in Nat
  BY SizeIs
<1> DEFINE d == size - n
<1>2. d \in 0 .. size /\ size - d = n
  BY <1>1
<1>3. Attempt("shrink", n, size, <<>>, v, DestroyLast(d))
  BY DEF Shrink
<1> HIDE DEF d
<1>4. Contents(Run(v, DestroyLast(d))) = Spliced(contents, size - d, size, <<>>)
  BY <1>2, DestroyTold
<1> QED
  BY <1>2, <1>3, <1>4, AttemptTold

LEMMA OneDestroyed ==
  ASSUME NEW cap \in 0 .. MaxSize, Good(v, cap), size > 0
  PROVE  /\ <<Destroy>> = DestroyLast(1) /\ Legal(<<Destroy>>, size, size - 1, cap)
         /\ Contents(Run(v, <<Destroy>>)) = Spliced(contents, size - 1, size, <<>>)
<1>1. cap \in Nat /\ size \in 0 .. cap
  BY SizeIs
<1> DEFINE one == 1
<1>2. one \in 0 .. size /\ size \in 1 .. cap /\ size - 1 \in 0 .. cap
  BY <1>1
<1>3. <<Destroy>> = DestroyLast(one)
  BY DEF DestroyLast
<1> HIDE DEF one
<1>4. Contents(Run(v, DestroyLast(one))) = Spliced(contents, size - one, size, <<>>)
  BY <1>2, DestroyTold
<1>5. Legal(<<Destroy>>, size, size - 1, cap)
  BY <1>1, <1>2, OneLegal, DestroyFits
<1> QED
  BY <1>3, <1>4, <1>5 DEF one

LEMMA PopBackTold ==
  ASSUME NEW cap \in 0 .. MaxSize, Good(v, cap), PopBack
  PROVE  Told
<1>1. size > 0 /\ Attempt("pop_back", size - 1, size, <<>>, v, <<Destroy>>)
  BY DEF PopBack
<1>2. Contents(Run(v, <<Destroy>>)) = Spliced(contents, size - 1, size, <<>>)
  BY <1>1, OneDestroyed
<1> QED
  BY <1>1, <1>2, AttemptTold

(* A temporary changes nothing.                                            *)
LEMMA RunTemporary ==
  ASSUME NEW b, NEW arg
  PROVE  Run(b, <<Temporary(arg)>>) = b
<1> DEFINE t == Temporary(arg)
           s == <<t>>
<1>1. t.do = "temporary"
  BY DEF Temporary
<1>2. Len(s) = 1 /\ Len(s) \in Nat /\ s[1] = t
  OBVIOUS
<1> HIDE DEF t, s
<1>3. Do(b, t) = b
  BY <1>1 DEF Do
<1>4. PICK r : r = [k \in 0 .. Len(s) |-> IF k = 0 THEN b ELSE Do(r[k - 1], s[k])] /\ Run(b, s) = r[Len(s)]
  BY <1>2, RunIs
<1>5. r[0] = b /\ r[1] = Do(r[0], s[1])
  BY <1>2, <1>4
<1>6. Run(b, s) = b
  BY <1>2, <1>3, <1>4, <1>5
<1> QED
  BY <1>6 DEF s, t

LEMMA PopBackValueTold ==
  ASSUME NEW cap \in 0 .. MaxSize, Good(v, cap), PopBackValue
  PROVE  Told
<1> DEFINE back == ElementAt(size - 1)
           arg == IF nothrow THEN Moved(back) ELSE back
           temporary == <<Temporary(arg)>>
           last1 == <<Destroy>>
<1>1. cap \in Nat /\ size \in 0 .. cap
  BY SizeIs
<1>2. size > 0 /\ Attempt("pop_back_value", size - 1, size, <<>>, v, <<Temporary(arg), Destroy>>)
  BY DEF PopBackValue
<1>3. size \in 1 .. cap /\ size - 1 \in 0 .. cap /\ size \in Nat /\ size - 1 \in 0 .. size - 1
  BY <1>1, <1>2
<1>4. Readable(arg, size)
  BY <1>3, ElementReadable
<1> HIDE DEF arg
<1>5. Legal(temporary, v.end, size, cap)
  <2>1. Fits(Temporary(arg), size, cap) /\ EndAfter(Temporary(arg), size) = size
    BY <1>1, <1>4, TemporaryFits
  <2>2. Legal(temporary, size, size, cap)
    BY <1>1, <2>1, OneLegal
  <2> QED
    BY <2>2 DEF size
<1>6. Legal(last1, size, size - 1, cap) /\ Contents(Run(v, last1)) = Spliced(contents, size - 1, size, <<>>)
  BY <1>2, OneDestroyed
<1>7. <<Temporary(arg), Destroy>> = temporary \o last1
  OBVIOUS
<1>8. Run(v, temporary) = v
  BY RunTemporary
<1> HIDE DEF temporary, last1
<1>9. Run(v, temporary \o last1) = Run(Run(v, temporary), last1)
  BY <1>1, <1>5, <1>6, RunThen
<1> QED
  BY <1>2, <1>6, <1>7, <1>8, <1>9, AttemptTold

(* The elements after those erased move down to their place.               *)
LEMMA EraseTold ==
  ASSUME NEW cap \in 0 .. MaxSize, Good(v, cap), NEW from \in 0 .. size, NEW to \in 0 .. size,
         Erase(from, to)
  PROVE  Told
<1> DEFINE n == size - to
           down == [k \in 1 .. n |-> from + k - 1]
           args == [k \in 1 .. n |-> Moved(ElementAt(to + k - 1))]
           moves == AssignAt(down, args, n)
           d == to - from
           c1 == Run(v, moves)
           c2 == Run(c1, DestroyLast(d))
           none == <<>>
<1>1. /\ cap \in Nat /\ size \in 0 .. cap /\ size \in Nat /\ from < to /\ n \in Nat /\ from \in Nat /\ to \in Nat
      /\ d \in 0 .. size /\ to + n = size /\ from + d = to /\ n \in Int /\ d > 0
  BY SizeIs DEF Erase
<1>2. Attempt("erase", from, to, none, v, moves \o DestroyLast(d))
  <2>1. moves = [k \in 1 .. n |-> Assign(from + k - 1, Moved(ElementAt(to + k - 1)))]
    BY DEF AssignAt
  <2> QED
    BY <2>1 DEF Erase
<1>3. /\ \A k \in 1 .. n : down[k] = from + k - 1
      /\ \A k \in 1 .. n : args[k] = Moved(ElementAt(to + k - 1))
  OBVIOUS
<1>4. none \in Seq(Lives) /\ Len(none) = 0 /\ 1 .. Len(none) = {}
  OBVIOUS
<1> HIDE DEF n, d, down, args, none
<1>5. ASSUME NEW k \in 1 .. n
      PROVE  /\ Readable(args[k], size) /\ args[k].at = to + k - 1 /\ Read(v, args[k]) = v.cells[to + k - 1]
  <2> DEFINE i == to + k - 1
             g == Moved(ElementAt(i))
  <2>1. i \in 0 .. size - 1 /\ size \in Nat
    BY <1>1
  <2>2. args[k] = g
    BY <1>3
  <2> HIDE DEF i
  <2>3. Readable(g, size) /\ g.at = i /\ g.move = TRUE /\ Read(v, g) = v.cells[i]
    BY <2>1, MovedIs
  <2> QED
    BY <2>2, <2>3 DEF i
<1>6. \A k \in 1 .. n : down[k] = from + k - 1 /\ args[k].at = to + k - 1
  BY <1>3, <1>5
<1>7. /\ from \in Int /\ to \in Int /\ n \in Int /\ from < to /\ from >= 0 /\ to >= 0 /\ size \in Int /\ to + n = size
  BY <1>1
<1>8. Apart(down, args, n)
  <2>0. ASSUME NEW j \in 1 .. n, NEW k \in 1 .. n
        PROVE  /\ args[j].at = to + j - 1 /\ down[j] = from + j - 1 /\ args[k].at = to + k - 1
               /\ down[k] = from + k - 1 /\ j \in Int /\ k \in Int /\ j > 0 /\ k > 0
    BY <1>6, <1>7
  <2>1. ASSUME NEW j \in 1 .. n, NEW k \in 1 .. n, j # k
        PROVE  down[j] # down[k] /\ args[j].at # args[k].at
    BY <1>7, <2>0, <2>1
  <2>2. ASSUME NEW j \in 1 .. n, NEW k \in 1 .. n, j > k
        PROVE  args[j].at # down[k]
    BY <1>7, <2>0, <2>2
  <2>3. ASSUME NEW j \in 1 .. n, NEW k \in 1 .. n, j < k
        PROVE  down[j] # args[k].at
    BY <1>7, <2>0, <2>3
  <2> QED
    BY <2>1, <2>2, <2>3 DEF Apart, Undisturbed
<1>9. /\ Good(c1, cap) /\ c1.end = size /\ Legal(moves, v.end, size, cap)
      /\ \A k \in 1 .. n : HasRead(v, c1, down[k], args[k])
      /\ \A i \in 0 .. cap - 1 : (\A k \in 1 .. n : down[k] # i) /\ NotTaken(args, n, i) => SameCell(v, c1, i)
  <2>1. ASSUME NEW k \in 1 .. n PROVE Readable(args[k], v.end) /\ down[k] \in 0 .. v.end - 1
    <3>1. down[k] \in 0 .. size - 1
      BY <1>6, <1>7
    <3> QED
      BY <1>5, <3>1 DEF size
  <2>2. n \in Nat /\ cap \in Nat
    BY <1>1
  <2>3. LET x == Run(v, AssignAt(down, args, n)) IN
         /\ Legal(AssignAt(down, args, n), v.end, v.end, cap)
         /\ Good(x, cap) /\ x.end = v.end
         /\ \A k \in 1 .. n : HasRead(v, x, down[k], args[k])
         /\ \A i \in 0 .. cap - 1 : (\A k \in 1 .. n : down[k] # i) /\ NotTaken(args, n, i) => SameCell(v, x, i)
    BY <1>8, <2>1, <2>2, AssignDoes
  <2> QED
    BY <2>3 DEF size
<1> HIDE DEF moves
<1>10. Run(v, moves \o DestroyLast(d)) = c2
  <2>1. d \in 0 .. size
    BY <1>1
  <2>2. Legal(DestroyLast(d), size, size - d, cap)
    BY <1>1, <2>1, DestroyLegal
  <2> QED
    BY <1>1, <1>9, <2>2, RunThen
<1> HIDE DEF c1
<1>11. /\ Good(c2, cap) /\ c2.end = size - d
       /\ \A i \in 0 .. (size - d) - 1 : SameCell(c1, c2, i)
  <2>1. d \in 0 .. c1.end
    BY <1>1, <1>9
  <2>2. LET r == Run(c1, DestroyLast(d)) IN
         /\ Good(r, cap) /\ r.end = c1.end - d
         /\ \A i \in 0 .. (c1.end - d) - 1 : SameCell(c1, r, i)
    BY <1>1, <1>9, <2>1, DestroyDoes
  <2> QED
    BY <1>9, <2>2
<1> HIDE DEF c2
<1>12. SameOn(v, c2, 0, from)
  <2> SUFFICES ASSUME NEW i \in 0 .. from - 1 PROVE SameCell(v, c2, i)
    BY DEF SameOn
  <2>1. i \in 0 .. cap - 1 /\ i \in 0 .. (size - d) - 1
    BY <1>1
  <2>2. \A k \in 1 .. n : down[k] # i
    BY <1>6, <1>7
  <2>3. \A k \in 1 .. n : args[k].at # i
    BY <1>6, <1>7
  <2>4. SameCell(v, c1, i)
    BY <1>9, <2>1, <2>2, <2>3 DEF NotTaken
  <2>5. SameCell(c1, c2, i)
    BY <1>11, <2>1
  <2> QED
    BY <2>4, <2>5 DEF SameCell
<1>13. ASSUME NEW j \in to .. size - 1 PROVE c2.cells[from + Len(none) + (j - to)] = v.cells[j]
  <2> DEFINE k == j - to + 1
             i == from + Len(none) + (j - to)
  <2>1. k \in 1 .. n /\ from + k - 1 = i /\ to + k - 1 = j /\ i \in 0 .. (size - d) - 1
    BY <1>1, <1>4
  <2> HIDE DEF k, i
  <2>2. HasRead(v, c1, i, args[k])
    BY <1>6, <1>9, <2>1
  <2>3. Read(v, args[k]) = v.cells[j]
    BY <1>5, <2>1
  <2>4. SameCell(c1, c2, i)
    BY <1>11, <2>1
  <2>5. c2.cells[i] = v.cells[j]
    BY <2>2, <2>3, <2>4 DEF HasRead, SameCell
  <2> QED
    BY <2>5 DEF i
<1>14. c2.end = size - (to - from) + Len(none)
  BY <1>1, <1>4, <1>11 DEF d
<1>15. BlockSplices(c2, from, to, none)
  BY <1>4, <1>12, <1>13, <1>14 DEF BlockSplices
<1>16. Good(c2, cap) /\ cap \in Nat /\ none \in Seq(Lives) /\ to \in from .. size
  BY <1>1, <1>4, <1>11
<1>17. Contents(c2) = Spliced(contents, from, to, none)
  BY <1>15, <1>16, BlockTold
<1> QED
  BY <1>2, <1>10, <1>17, AttemptTold

(* Values constructed in a block, wherever its end is.                     *)
LEMMA ValuesDo ==
  ASSUME NEW cap \in Nat, NEW b, Good(b, cap), NEW xs \in Seq(Lives), NEW n, n = Len(xs), b.end + n <= cap
  PROVE  LET c == Run(b, ConstructAll(AsValues(xs))) IN
         /\ Good(c, cap) /\ c.end = b.end + n /\ SameOn(b, c, 0, b.end)
         /\ \A k \in 1 .. n : c.cells[b.end + k - 1] = xs[k]
         /\ Legal(ConstructAll(AsValues(xs)), b.end, b.end + n, cap)
<1> DEFINE args == AsValues(xs)
           c == Run(b, ConstructAll(args))
           e == b.end
<1>0. e \in 0 .. cap
  BY GoodHas
<1>1. e \in 0 .. cap /\ n \in Nat
  BY <1>0
<1>2. \A k \in 1 .. n : xs[k] \in Lives
  OBVIOUS
<1>3. DOMAIN args = 1 .. n /\ \A k \in 1 .. n : args[k] = Value(xs[k])
  BY DEF AsValues
<1> HIDE DEF args, e
<1>4. ASSUME NEW k \in 1 .. n
      PROVE  Readable(args[k], e) /\ args[k].move = FALSE /\ Read(b, args[k]) = xs[k]
  <2> DEFINE x == xs[k]
  <2>1. x \in Lives /\ e \in Nat
    BY <1>1, <1>2
  <2> HIDE DEF x
  <2>2. Readable(Value(x), e) /\ Value(x).move = FALSE /\ Read(b, Value(x)) = x
    BY <2>1, ValueReadable, ValueIs
  <2> QED
    BY <1>3, <2>2 DEF x
<1>5. Undisturbed(args, n)
  BY <1>4 DEF Undisturbed
<1>6. \A i \in 0 .. e - 1 : NotTaken(args, n, i)
  BY <1>4 DEF NotTaken
<1>7. \A k \in 1 .. n : Readable(args[k], b.end)
  BY <1>4 DEF e
<1>8. /\ Good(c, cap) /\ c.end = b.end + n
      /\ \A k \in 1 .. n : HasRead(b, c, b.end + k - 1, args[k])
      /\ \A i \in 0 .. b.end - 1 : NotTaken(args, n, i) => SameCell(b, c, i)
  BY <1>1, <1>3, <1>5, <1>7, ConstructDoes
<1>9. Legal(ConstructAll(args), e, e + n, cap)
  <2>1. e + n <= cap /\ \A k \in 1 .. n : Readable(args[k], e)
    BY <1>4 DEF e
  <2> QED
    BY <1>1, <1>3, <2>1, ConstructLegal
<1> HIDE DEF c
<1>10. SameOn(b, c, 0, e)
  BY <1>6, <1>8 DEF SameOn, e
<1>11. \A k \in 1 .. n : c.cells[b.end + k - 1] = xs[k]
  BY <1>4, <1>8 DEF HasRead
<1> QED
  BY <1>8, <1>9, <1>10, <1>11 DEF c, args, e

(* All elements are replaced by those given.                               *)
LEMMA AllTold ==
  ASSUME NEW cap \in 0 .. MaxSize, Good(v, cap), NEW cap2 \in Nat, NEW c, Good(c, cap2), NEW xs \in Seq(Lives),
         c.end = Len(xs), \A k \in 1 .. Len(xs) : c.cells[k - 1] = xs[k]
  PROVE  Contents(c) = Spliced(contents, 0, size, xs)
<1> DEFINE zero == 0
<1>1. size \in Nat
  BY SizeIs
<1>2. zero \in 0 .. size /\ size \in zero .. size /\ c.end = size - (size - zero) + Len(xs)
  BY <1>1
<1>3. \A k \in 1 .. Len(xs) : c.cells[zero + k - 1] = xs[k]
  <2> SUFFICES ASSUME NEW k \in 1 .. Len(xs) PROVE c.cells[zero + k - 1] = xs[k]
    OBVIOUS
  <2>1. zero + k - 1 = k - 1
    OBVIOUS
  <2> QED
    BY <2>1
<1>4. SameOn(v, c, 0, zero)
  BY DEF SameOn
<1>5. size .. size - 1 = {}
  BY <1>1
<1> HIDE DEF zero
<1>6. BlockSplices(c, zero, size, xs)
  BY <1>2, <1>3, <1>4, <1>5 DEF BlockSplices
<1>7. Contents(c) = Spliced(contents, zero, size, xs)
  BY <1>2, <1>6, BlockTold
<1> QED
  BY <1>7 DEF zero

LEMMA AssignAllTold ==
  ASSUME NEW cap \in 0 .. MaxSize, Good(v, cap), NEW xs \in Seq(Lives), AssignAll(xs)
  PROVE  Told
<1> DEFINE n == Len(xs)
           both == IF n < size THEN n ELSE size
           to == [k \in 1 .. both |-> k - 1]
           args == [k \in 1 .. both |-> Value(xs[k])]
           over == AssignAt(to, args, both)
           more == SubSeq(xs, both + 1, n)
           new == ConstructAll(AsValues(more))
           d == size - both
           room == Recommend(0, n)
           c1 == Run(v, over)
           c2 == Run(c1, new)
           c3 == Run(c2, DestroyLast(d))
<1>1. cap \in Nat /\ size \in 0 .. cap /\ size \in Nat /\ capacity = cap /\ n \in Nat
  BY SizeIs
<1>2. CASE n <= capacity
  <2>1. Attempt("assign", 0, size, xs, v, over \o new \o DestroyLast(d))
    <3>1. over = [k \in 1 .. both |-> Assign(k - 1, Value(xs[k]))]
      BY DEF AssignAt
    <3> QED
      BY <1>2, <3>1 DEF AssignAll
  <2>2. both \in Nat /\ both <= n /\ both <= size /\ n <= cap /\ (both = n \/ both = size) /\ d \in Nat
    BY <1>1, <1>2
  <2>3. /\ \A k \in 1 .. both : to[k] = k - 1
        /\ \A k \in 1 .. both : args[k] = Value(xs[k])
    OBVIOUS
  <2> HIDE DEF both, to, args
  <2>4. more \in Seq(Lives) /\ Len(more) = n - both /\ \A k \in 1 .. n - both : more[k] = xs[both + k]
    BY <1>1, <2>2
  <2>5. \A k \in 1 .. n : xs[k] \in Lives
    OBVIOUS
  <2> HIDE DEF more, n
  <2>6. ASSUME NEW k \in 1 .. both
        PROVE  /\ Readable(args[k], size) /\ args[k].move = FALSE /\ args[k].at = -1 /\ Read(v, args[k]) = xs[k]
               /\ to[k] \in 0 .. size - 1
    <3> DEFINE x == xs[k]
    <3>1. x \in Lives
      BY <1>1, <2>2, <2>5
    <3>2. to[k] \in 0 .. size - 1
      BY <1>1, <2>2, <2>3
    <3>3. args[k] = Value(x)
      BY <2>3
    <3> HIDE DEF x
    <3>4. Readable(Value(x), size) /\ Value(x).move = FALSE /\ Value(x).at = -1 /\ Read(v, Value(x)) = x
      BY <1>1, <3>1, ValueReadable, ValueIs
    <3> QED
      BY <3>2, <3>3, <3>4 DEF x
  <2>7. Apart(to, args, both)
    <3>1. \A j, k \in 1 .. both : j # k => to[j] # to[k]
      BY <2>2, <2>3
    <3>2. \A j, k \in 1 .. both : j < k => to[j] # args[k].at
      <4> SUFFICES ASSUME NEW j \in 1 .. both, NEW k \in 1 .. both PROVE to[j] # args[k].at
        OBVIOUS
      <4>1. to[j] \in 0 .. size - 1 /\ args[k].at = -1
        BY <2>6
      <4> QED
        BY <1>1, <4>1
    <3>3. \A k \in 1 .. both : ~ args[k].move
      BY <2>6
    <3> QED
      BY <3>1, <3>2, <3>3 DEF Apart, Undisturbed
  <2>8. /\ Good(c1, cap) /\ c1.end = size /\ Legal(over, v.end, size, cap)
        /\ \A k \in 1 .. both : HasRead(v, c1, to[k], args[k])
    <3>1. \A k \in 1 .. both : Readable(args[k], v.end) /\ to[k] \in 0 .. v.end - 1
      BY <2>6 DEF size
    <3>2. LET x == Run(v, AssignAt(to, args, both)) IN
           /\ Legal(AssignAt(to, args, both), v.end, v.end, cap)
           /\ Good(x, cap) /\ x.end = v.end
           /\ \A k \in 1 .. both : HasRead(v, x, to[k], args[k])
           /\ \A i \in 0 .. cap - 1 : (\A k \in 1 .. both : to[k] # i) /\ NotTaken(args, both, i) => SameCell(v, x, i)
      BY <1>1, <2>2, <2>7, <3>1, AssignDoes
    <3> QED
      BY <3>2 DEF size
  <2>9. ASSUME NEW k \in 1 .. both PROVE c1.cells[k - 1] = xs[k]
    BY <2>3, <2>6, <2>8 DEF HasRead
  <2> HIDE DEF over, c1
  <2>10. /\ Good(c2, cap) /\ c2.end = size + (n - both) /\ SameOn(c1, c2, 0, size)
         /\ \A k \in 1 .. n - both : c2.cells[size + k - 1] = more[k]
         /\ Legal(new, size, size + (n - both), cap)
    <3> DEFINE l == n - both
    <3>1. l = Len(more) /\ size + l <= cap /\ l \in Nat
      BY <1>1, <2>2, <2>4
    <3> HIDE DEF l
    <3>2. LET c == Run(c1, ConstructAll(AsValues(more))) IN
           /\ Good(c, cap) /\ c.end = c1.end + l /\ SameOn(c1, c, 0, c1.end)
           /\ \A k \in 1 .. l : c.cells[c1.end + k - 1] = more[k]
           /\ Legal(ConstructAll(AsValues(more)), c1.end, c1.end + l, cap)
      BY <1>1, <2>4, <2>8, <3>1, ValuesDo
    <3> QED
      BY <2>8, <3>2 DEF l
  <2>11. Run(v, over \o new) = c2 /\ Legal(over \o new, v.end, size + (n - both), cap)
    <3>1. Legal(over \o new, v.end, size + (n - both), cap)
      BY <1>1, <2>8, <2>10, ThenLegal
    <3> QED
      BY <1>1, <2>8, <2>10, <3>1, RunThen DEF c1
  <2> HIDE DEF new, c2
  <2> DEFINE e == size + (n - both)
  <2>12. e \in 0 .. cap /\ d \in 0 .. e /\ e - d = n /\ c2.end = e
    BY <1>1, <2>2, <2>10
  <2> HIDE DEF d, e
  <2>13. Good(c3, cap) /\ c3.end = n /\ \A i \in 0 .. n - 1 : SameCell(c2, c3, i)
    <3>1. LET r == Run(c2, DestroyLast(d)) IN
           /\ Good(r, cap) /\ r.end = c2.end - d
           /\ \A i \in 0 .. (c2.end - d) - 1 : SameCell(c2, r, i)
      BY <1>1, <2>10, <2>12, DestroyDoes
    <3> QED
      BY <2>12, <3>1
  <2>14. Run(v, over \o new \o DestroyLast(d)) = c3
    <3> DEFINE s == over \o new
               t == DestroyLast(d)
    <3>1. Legal(t, e, e - d, cap)
      BY <1>1, <2>12, DestroyLegal
    <3>2. Legal(s, v.end, e, cap)
      BY <2>11 DEF e
    <3> HIDE DEF s, t
    <3>3. Run(v, s \o t) = Run(Run(v, s), t)
      BY <1>1, <3>1, <3>2, RunThen
    <3> QED
      BY <2>11, <3>3 DEF s, t
  <2> HIDE DEF c3
  <2>15. ASSUME NEW k \in 1 .. n PROVE c3.cells[k - 1] = xs[k]
    <3>1. k - 1 \in 0 .. n - 1
      BY <1>1
    <3>2. SameCell(c2, c3, k - 1)
      BY <2>13, <3>1
    <3>3. CASE k <= both
      <4>1. k \in 1 .. both /\ k - 1 \in 0 .. size - 1
        BY <1>1, <2>2, <3>3
      <4>2. SameCell(c1, c2, k - 1)
        BY <2>10, <4>1 DEF SameOn
      <4>3. c1.cells[k - 1] = xs[k]
        BY <2>9, <4>1
      <4> QED
        BY <3>2, <4>2, <4>3 DEF SameCell
    <3>4. CASE k > both
      <4> DEFINE l == k - both
      <4>1. both # n
        BY <1>1, <2>2, <3>4
      <4>2. both = size
        BY <2>2, <4>1
      <4>3. l \in 1 .. n - both /\ both + l = k /\ size + l - 1 = k - 1
        BY <1>1, <2>2, <3>4, <4>2
      <4> HIDE DEF l
      <4>4. c2.cells[size + l - 1] = more[l] /\ more[l] = xs[both + l]
        BY <2>4, <2>10, <4>3
      <4>5. c2.cells[k - 1] = xs[k]
        BY <4>3, <4>4
      <4> QED
        BY <3>2, <4>5 DEF SameCell
    <3> QED
      BY <1>1, <2>2, <3>3, <3>4
  <2>16. Contents(c3) = Spliced(contents, 0, size, xs)
    BY <1>1, <2>13, <2>15, AllTold DEF n
  <2> QED
    BY <2>1, <2>14, <2>16, AttemptTold
<1>3. CASE ~ (n <= capacity)
  <2> DEFINE b == Holding(<<>>, room)
             steps == ConstructAll(AsValues(xs))
             c == Run(b, steps)
  <2>1. \/ End("assign", 0, size, xs, Null, TRUE)
        \/ room <= MaxSize /\ Attempt("assign", 0, size, xs, b, steps)
    BY <1>3 DEF AssignAll
  <2>2. CASE End("assign", 0, size, xs, Null, TRUE)
    <3> DEFINE yes == TRUE
    <3>1. End("assign", 0, size, xs, Null, yes) /\ yes
      BY <2>2
    <3> HIDE DEF yes
    <3> QED
      BY <3>1, EndTold
  <2>3. CASE Attempt("assign", 0, size, xs, b, steps)
    <3>1. room \in Nat /\ room >= n
      BY <1>1, RecommendIs
    <3>2. Good(b, room) /\ b.end = 0
      <4> DEFINE none == <<>>
      <4>1. none \in Seq(Lives) /\ Len(none) = 0 /\ Len(none) <= room
        BY <3>1
      <4> HIDE DEF none, room
      <4>2. Good(Holding(none, room), room) /\ Holding(none, room).end = Len(none)
        BY <3>1, <4>1, HoldingGood
      <4> QED
        BY <4>1, <4>2 DEF none
    <3> HIDE DEF room, b, n
    <3>3. b.end + n <= room /\ n = Len(xs)
      BY <1>1, <3>1, <3>2 DEF n
    <3>4. LET x == Run(b, ConstructAll(AsValues(xs))) IN
           /\ Good(x, room) /\ x.end = b.end + n /\ SameOn(b, x, 0, b.end)
           /\ \A k \in 1 .. n : x.cells[b.end + k - 1] = xs[k]
           /\ Legal(ConstructAll(AsValues(xs)), b.end, b.end + n, room)
      BY <3>1, <3>2, <3>3, ValuesDo
    <3> HIDE DEF steps
    <3>5. Good(c, room) /\ c.end = n /\ \A k \in 1 .. n : c.cells[k - 1] = xs[k]
      <4>1. b.end + n = n /\ \A k \in 1 .. n : b.end + k - 1 = k - 1
        BY <1>1, <3>2
      <4> QED
        BY <3>4, <4>1 DEF steps
    <3> HIDE DEF c
    <3>6. Contents(c) = Spliced(contents, 0, size, xs)
      BY <3>1, <3>3, <3>5, AllTold
    <3> QED
      BY <2>3, <3>6, AttemptTold DEF c
  <2> QED
    BY <2>1, <2>2, <2>3
<1> QED
  BY <1>2, <1>3

(* A block that holds xs is told to have them for all there was.           *)
LEMMA HoldingTold ==
  ASSUME NEW cap \in 0 .. MaxSize, Good(v, cap), NEW xs \in Seq(Lives), NEW room \in Nat, Len(xs) <= room
  PROVE  Contents(Holding(xs, room)) = Spliced(contents, 0, size, xs)
<1> DEFINE c == Holding(xs, room)
<1>1. Good(c, room) /\ c.end = Len(xs)
  BY HoldingGood
<1>2. Contents(c) = xs
  BY HoldingContents
<1> HIDE DEF c
<1>3. \A k \in 1 .. Len(xs) : Contents(c)[k] = c.cells[k - 1]
  BY <1>1 DEF Contents
<1>4. Contents(c) = Spliced(contents, 0, size, xs)
  BY <1>1, <1>2, <1>3, AllTold
<1> QED
  BY <1>4 DEF c

LEMMA AssignInputTold ==
  ASSUME NEW cap \in 0 .. MaxSize, Good(v, cap), NEW xs \in Seq(Lives), AssignInput(xs)
  PROVE  Told
<1> DEFINE grown[k \in 0 .. Len(xs)] ==
             IF k = 0 THEN capacity
             ELSE IF k <= grown[k - 1] THEN grown[k - 1] ELSE Recommend(grown[k - 1], k)
<1>1. cap \in Nat /\ capacity = cap /\ capacity \in Nat
  BY SizeIs
<1>2. xs \in Seq(Lives)
  OBVIOUS
<1>3. \E k \in 0 .. Len(xs) :
        End("assign", 0, size, xs, Holding(SubSeq(xs, 1, k), grown[k]), k < Len(xs))
  BY DEF AssignInput
<1>4. Len(xs) \in Nat
  BY <1>2
<1>5. Grown(grown, capacity, Len(xs))
  <2>1. \E r : Grown(r, capacity, Len(xs))
    BY <1>1, <1>4, GrownExists
  <2>2. \E r : r = [k \in 0 .. Len(xs) |->
                     IF k = 0 THEN capacity
                     ELSE IF k <= r[k - 1] THEN r[k - 1] ELSE Recommend(r[k - 1], k)]
    BY <2>1 DEF Grown
  <2>3. grown = [k \in 0 .. Len(xs) |->
                  IF k = 0 THEN capacity
                  ELSE IF k <= grown[k - 1] THEN grown[k - 1] ELSE Recommend(grown[k - 1], k)]
    BY <2>2
  <2> HIDE DEF grown
  <2> QED
    BY <2>3 DEF Grown
<1> HIDE DEF grown
<1> DEFINE some(k) == SubSeq(xs, 1, k)
<1>6. PICK k \in 0 .. Len(xs) :
        End("assign", 0, size, xs, Holding(some(k), grown[k]), k < Len(xs))
  BY <1>3
<1>7. grown[k] \in Nat /\ grown[k] >= k
  BY <1>1, <1>4, <1>5, GrownIsEnough
<1>8. k = Len(xs) => some(k) = xs
  BY <1>2
<1> HIDE DEF some
<1>9. CASE k < Len(xs)
  BY <1>6, <1>9, EndTold
<1>10. CASE ~ (k < Len(xs))
  <2>1. k = Len(xs)
    BY <1>4, <1>10
  <2>2. Len(xs) <= grown[k]
    BY <1>7, <2>1
  <2>3. Contents(Holding(xs, grown[k])) = Spliced(contents, 0, size, xs)
    BY <1>2, <1>7, <2>2, HoldingTold
  <2>4. some(k) = xs
    BY <1>8, <2>1
  <2> QED
    BY <1>6, <2>3, <2>4, EndTold
<1> QED
  BY <1>9, <1>10

LEMMA EmplaceTold ==
  ASSUME NEW cap \in 0 .. MaxSize, Good(v, cap), NEW at \in 0 .. size, NEW x \in Values, Emplace(at, x)
  PROVE  Told
<1> DEFINE temporary == IF at = size THEN <<>> ELSE <<Temporary(Value(x))>>
           arg == IF at = size THEN Value(x) ELSE Moved(Value(x))
           args == <<arg>>
           one == <<x>>
           steps == InsertSteps(size, at, args)
<1>1. cap \in Nat /\ size \in 0 .. cap /\ size \in Nat /\ capacity = cap /\ x \in Lives
  BY SizeIs, Constants
<1>2. /\ Readable(Value(x), size) /\ Readable(arg, size) /\ arg.at < 0 /\ Read(v, arg) = x
  <2> DEFINE a == Value(x)
             m == Moved(Value(x))
  <2>1. /\ Readable(a, size) /\ a.at = -1 /\ Read(v, a) = x
        /\ Readable(m, size) /\ m.at = -1 /\ Read(v, m) = x
    BY <1>1, ValueReadable, ValueIs
  <2>2. arg = IF at = size THEN a ELSE m
    OBVIOUS
  <2> HIDE DEF a, m, arg
  <2>3. arg = a \/ arg = m
    BY <2>2
  <2>4. Readable(arg, size) /\ arg.at = -1 /\ Read(v, arg) = x
    BY <2>1, <2>3
  <2> QED
    BY <2>1, <2>4 DEF a
<1>3. \/ size < capacity /\ Attempt("emplace", at, at, one, v, temporary \o steps)
      \/ ~ (size < capacity) /\ Regrow("emplace", Recommended(1), at, one)
  BY DEF Emplace
<1>4. one \in Seq(Lives) /\ Len(one) = 1 /\ one[1] = x
  BY <1>1
<1> HIDE DEF arg, one
<1>5. /\ args \in Seq(Args) /\ Len(args) = 1 /\ args[1] = arg
      /\ \A k \in 1 .. Len(args) : Readable(args[k], size)
      /\ Quiet(args)
  BY <1>2 DEF Readable, Quiet
<1> HIDE DEF args
<1>6. CASE size < capacity /\ Attempt("emplace", at, at, one, v, temporary \o steps)
  <2>1. Legal(temporary, size, size, cap) /\ Run(v, temporary) = v
    <3>1. CASE at = size
      BY <1>1, <3>1, NoneLegal, RunNone
    <3>2. CASE at # size
      <4>1. Fits(Temporary(Value(x)), size, cap) /\ EndAfter(Temporary(Value(x)), size) = size
        BY <1>1, <1>2, TemporaryFits
      <4>2. Legal(<<Temporary(Value(x))>>, size, size, cap)
        BY <1>1, <4>1, OneLegal
      <4>3. temporary = <<Temporary(Value(x))>>
        BY <3>2
      <4> QED
        BY <4>2, <4>3, RunTemporary
    <3> QED
      BY <3>1, <3>2
  <2> HIDE DEF temporary
  <2>2. size + Len(args) <= cap
    BY <1>1, <1>5, <1>6
  <2>3. Legal(steps, size, size + Len(args), cap)
    BY <1>1, <1>5, <2>2, InsertLegal
  <2>4. Contents(Run(v, steps)) = Spliced(contents, at, at, ReadAll(args))
    BY <1>5, <2>2, InsertedTold
  <2> HIDE DEF steps
  <2>5. Run(v, temporary \o steps) = Run(v, steps)
    <3>1. Legal(temporary, v.end, size, cap)
      BY <2>1 DEF size
    <3>2. Run(v, temporary \o steps) = Run(Run(v, temporary), steps)
      BY <1>1, <2>3, <3>1, RunThen
    <3> QED
      BY <2>1, <3>2
  <2>6. ReadAll(args) = one
    <3>1. /\ ReadAll(args) \in Seq(Lives) /\ Len(ReadAll(args)) = Len(args)
          /\ \A k \in 1 .. Len(args) : ReadAll(args)[k] = Read(v, args[k])
      BY <1>5, ReadAllIs
    <3>2. 1 .. Len(args) = {1}
      BY <1>5
    <3>3. ReadAll(args)[1] = one[1]
      BY <1>2, <1>4, <1>5, <3>1, <3>2
    <3> QED
      BY <1>4, <1>5, <3>1, <3>2, <3>3, EqualSeqs
  <2> QED
    BY <1>6, <2>4, <2>5, <2>6, AttemptTold
<1>7. CASE Regrow("emplace", Recommended(1), at, one)
  <2>1. Recommended(1) \in Nat /\ Recommended(1) >= size + Len(one)
    BY <1>4, RecommendedIs
  <2> QED
    BY <1>4, <1>7, <2>1, RegrowTold
<1> QED
  BY <1>3, <1>6, <1>7

LEMMA ModIs ==
  ASSUME NEW n \in Nat, n > 0, NEW x \in 0 .. n - 1
  PROVE  x % n = x /\ (x + n) % n = x
<1>1. x % n = x
  OBVIOUS
<1>2. (x + n) % n = x
  OBVIOUS
<1> QED
  BY <1>1, <1>2

LEMMA RunOne ==
  ASSUME NEW b, NEW step
  PROVE  Run(b, <<step>>) = Do(b, step)
<1> DEFINE s == <<step>>
<1>1. Len(s) = 1 /\ Len(s) \in Nat /\ s[1] = step
  OBVIOUS
<1> HIDE DEF s
<1>2. PICK r : r = [k \in 0 .. Len(s) |-> IF k = 0 THEN b ELSE Do(r[k - 1], s[k])] /\ Run(b, s) = r[Len(s)]
  BY <1>1, RunIs
<1>3. r[0] = b /\ r[1] = Do(r[0], s[1])
  BY <1>1, <1>2
<1>4. Run(b, s) = Do(b, step)
  BY <1>1, <1>2, <1>3
<1> QED
  BY <1>4 DEF s

(* The elements from middle on now begin at first, and those before them   *)
(* come after them.                                                        *)
Turned(b, c, first, middle) ==
  /\ c.end = b.end
  /\ SameOn(b, c, 0, first)
  /\ \A k \in 0 .. (b.end - middle) - 1 : c.cells[first + k] = b.cells[middle + k]
  /\ \A k \in 0 .. (middle - first) - 1 : c.cells[first + (b.end - middle) + k] = b.cells[first + k]

LEMMA RotateDoes ==
  ASSUME NEW cap \in Nat, NEW b, Good(b, cap), NEW first \in 0 .. b.end - 1, NEW middle \in first .. b.end - 1
  PROVE  /\ Legal(<<Rotate(first, middle)>>, b.end, b.end, cap)
         /\ Good(Run(b, <<Rotate(first, middle)>>), cap)
         /\ Turned(b, Run(b, <<Rotate(first, middle)>>), first, middle)
<1> DEFINE step == Rotate(first, middle)
           n == b.end - first
           r == b.end - middle
           from(i) == first + ((i - first + middle - first) % n)
           c == [i \in DOMAIN b.cells |-> IF i \in first .. b.end - 1 THEN b.cells[from(i)] ELSE b.cells[i]]
           d == Do(b, step)
<1>1. b.end \in 0 .. cap
  BY GoodHas
<1>2. b.cells \in Cells(cap) /\ DOMAIN b.cells = 0 .. cap - 1 /\ b \in Blocks(cap)
  BY GoodHas
<1>3. /\ n \in Nat /\ n > 0 /\ r \in Nat /\ r > 0 /\ first \in Nat /\ middle \in Nat /\ first <= middle
      /\ b.end \in Nat /\ b.end = first + n /\ b.end = middle + r /\ n <= cap - first
  BY <1>1
<1>4. Readable(Moved(ElementAt(middle)), b.end) /\ Moved(ElementAt(middle)).at = middle
  <2>1. middle \in 0 .. b.end - 1
    BY <1>3
  <2> QED
    BY <1>3, <2>1, ElementReadable
<1>5. step.do = "rotate" /\ step.to = first /\ step.arg = Moved(ElementAt(middle))
  BY DEF Rotate
<1>6. step \in Steps
  BY <1>3, <1>4 DEF Rotate, Steps, StepKinds, Readable
<1> HIDE DEF step
<1>7. Fits(step, b.end, cap)
  BY <1>4, <1>5, <1>6 DEF Fits
<1>8. EndAfter(step, b.end) = b.end
  BY <1>5 DEF EndAfter
<1>9. Legal(<<step>>, b.end, b.end, cap)
  BY <1>1, <1>7, <1>8, OneLegal
<1>10. Good(d, cap) /\ d.end = b.end
  BY <1>5, <1>7, RotateGood
<1>11. d = [b EXCEPT !.cells = c]
  <2>1. d = Rotated(b, step.to, step.arg.at)
    BY <1>5 DEF Do
  <2>2. step.to = first /\ step.arg.at = middle
    BY <1>4, <1>5
  <2>3. d = Rotated(b, first, middle)
    BY <2>1, <2>2
  <2> QED
    BY <2>3 DEF Rotated
<1> HIDE DEF c, d
<1>12. d.cells = c
  BY <1>2, <1>11 DEF Blocks
<1>13. ASSUME NEW i \in 0 .. cap - 1 PROVE c[i] = IF i \in first .. b.end - 1 THEN b.cells[from(i)] ELSE b.cells[i]
  BY <1>2 DEF c
<1> HIDE DEF from
<1>14. SameOn(b, d, 0, first)
  <2> SUFFICES ASSUME NEW i \in 0 .. first - 1 PROVE SameCell(b, d, i)
    BY DEF SameOn
  <2>1. i \in 0 .. cap - 1 /\ i \notin first .. b.end - 1
    BY <1>1, <1>3
  <2> QED
    BY <1>12, <1>13, <2>1 DEF SameCell
<1>15. ASSUME NEW k \in 0 .. r - 1 PROVE d.cells[first + k] = b.cells[middle + k]
  <2> DEFINE i == first + k
             x == k + middle - first
  <2>1. i \in first .. b.end - 1 /\ i \in 0 .. cap - 1 /\ x \in 0 .. n - 1 /\ i - first + middle - first = x
        /\ first + x = middle + k
    BY <1>1, <1>3
  <2> HIDE DEF i, x, n
  <2>2. x % n = x
    BY <1>3, <2>1, ModIs
  <2>3. from(i) = middle + k
    BY <2>1, <2>2 DEF from
  <2>4. d.cells[i] = b.cells[middle + k]
    BY <1>12, <1>13, <2>1, <2>3
  <2> QED
    BY <2>4 DEF i
<1>16. ASSUME NEW k \in 0 .. (middle - first) - 1 PROVE d.cells[first + r + k] = b.cells[first + k]
  <2> DEFINE i == first + r + k
  <2>1. i \in first .. b.end - 1 /\ i \in 0 .. cap - 1 /\ k \in 0 .. n - 1 /\ i - first + middle - first = k + n
    BY <1>1, <1>3
  <2> HIDE DEF i, n
  <2>2. (k + n) % n = k
    BY <1>3, <2>1, ModIs
  <2>3. from(i) = first + k
    BY <2>1, <2>2 DEF from
  <2>4. d.cells[i] = b.cells[first + k]
    BY <1>12, <1>13, <2>1, <2>3
  <2> QED
    BY <2>4 DEF i
<1>17. Turned(b, d, first, middle)
  BY <1>10, <1>14, <1>15, <1>16 DEF Turned, r
<1>18. Run(b, <<step>>) = d
  BY RunOne DEF d
<1> QED
  BY <1>9, <1>10, <1>17, <1>18 DEF step

(* A block with all elements of the vector, and xs behind them.            *)
Appended(c, xs) ==
  /\ c.end = size + Len(xs)
  /\ SameOn(v, c, 0, size)
  /\ \A k \in 1 .. Len(xs) : c.cells[size + k - 1] = xs[k]

(* What was put at the end is rotated into place.                          *)
Rotation(at, n) == IF at = size \/ n = 0 THEN <<>> ELSE <<Rotate(at, size)>>

LEMMA RotationTold ==
  ASSUME NEW cap \in 0 .. MaxSize, Good(v, cap), NEW at \in 0 .. size, NEW xs \in Seq(Lives),
         NEW room \in Nat, NEW c, Good(c, room), Appended(c, xs)
  PROVE  /\ Legal(Rotation(at, Len(xs)), c.end, c.end, room)
         /\ Good(Run(c, Rotation(at, Len(xs))), room)
         /\ BlockSplices(Run(c, Rotation(at, Len(xs))), at, at, xs)
<1> DEFINE n == Len(xs)
<1>1. size \in Nat /\ at \in Nat /\ at <= size /\ n \in Nat
  BY SizeIs
<1>2. c.end = size + n /\ SameOn(v, c, 0, size) /\ \A k \in 1 .. n : c.cells[size + k - 1] = xs[k]
  BY DEF Appended
<1>3. c.end \in 0 .. room
  BY GoodHas
<1> HIDE DEF n
<1>4. \A i \in 0 .. size - 1 : c.cells[i] = v.cells[i]
  BY <1>2 DEF SameOn, SameCell
<1>5. SameOn(v, c, 0, at)
  <2>1. \A i \in 0 .. at - 1 : i \in 0 .. size - 1
    BY <1>1
  <2> QED
    BY <1>2, <2>1 DEF SameOn
<1>6. CASE at = size \/ n = 0
  <2> DEFINE none == <<>>
  <2>1. Rotation(at, n) = none
    BY <1>6 DEF Rotation
  <2>2. Legal(none, c.end, c.end, room) /\ Run(c, none) = c
    BY <1>3, NoneLegal, RunNone
  <2> HIDE DEF none
  <2>3. c.end = size - (at - at) + n
    BY <1>1, <1>2
  <2>4. ASSUME NEW k \in 1 .. n PROVE c.cells[at + k - 1] = xs[k]
    <3>1. at = size
      BY <1>1, <1>6, <2>4
    <3> QED
      BY <1>2, <2>4, <3>1
  <2>5. ASSUME NEW j \in at .. size - 1 PROVE c.cells[at + n + (j - at)] = v.cells[j]
    <3>1. at + n + (j - at) = j /\ j \in 0 .. size - 1
      BY <1>1, <1>6, <2>5
    <3> QED
      BY <1>4, <3>1
  <2>6. BlockSplices(c, at, at, xs)
    BY <1>5, <2>3, <2>4, <2>5 DEF BlockSplices, n
  <2> QED
    BY <2>1, <2>2, <2>6 DEF n
<1>7. CASE ~ (at = size \/ n = 0)
  <2> DEFINE rotate == <<Rotate(at, size)>>
             d == Run(c, rotate)
  <2>1. Rotation(at, n) = rotate
    BY <1>7 DEF Rotation
  <2>2. at \in 0 .. c.end - 1 /\ size \in at .. c.end - 1
    BY <1>1, <1>2, <1>7
  <2>3. Legal(rotate, c.end, c.end, room) /\ Good(d, room) /\ Turned(c, d, at, size)
    BY <2>2, RotateDoes
  <2> HIDE DEF rotate, d
  <2>4. d.end = c.end /\ SameOn(c, d, 0, at)
    BY <2>3 DEF Turned
  <2>5. ASSUME NEW k \in 0 .. n - 1 PROVE d.cells[at + k] = c.cells[size + k]
    <3>1. k \in 0 .. (c.end - size) - 1
      BY <1>1, <1>2
    <3> QED
      BY <2>3, <3>1 DEF Turned
  <2>6. ASSUME NEW k \in 0 .. (size - at) - 1 PROVE d.cells[at + n + k] = c.cells[at + k]
    <3>1. c.end - size = n
      BY <1>1, <1>2
    <3> QED
      BY <2>3, <3>1 DEF Turned
  <2>7. SameOn(v, d, 0, at)
    BY <1>5, <2>4 DEF SameOn, SameCell
  <2>8. d.end = size - (at - at) + n
    BY <1>1, <1>2, <2>4
  <2>9. ASSUME NEW k \in 1 .. n PROVE d.cells[at + k - 1] = xs[k]
    <3> DEFINE l == k - 1
    <3>1. l \in 0 .. n - 1 /\ at + l = at + k - 1 /\ size + l = size + k - 1
      BY <1>1
    <3> HIDE DEF l
    <3>2. d.cells[at + l] = c.cells[size + l]
      BY <2>5, <3>1
    <3> QED
      BY <1>2, <3>1, <3>2
  <2>10. ASSUME NEW j \in at .. size - 1 PROVE d.cells[at + n + (j - at)] = v.cells[j]
    <3> DEFINE k == j - at
    <3>1. k \in 0 .. (size - at) - 1 /\ at + k = j /\ j \in 0 .. size - 1
      BY <1>1
    <3> HIDE DEF k
    <3>2. d.cells[at + n + k] = c.cells[j]
      BY <2>6, <3>1
    <3>3. d.cells[at + n + k] = v.cells[j]
      BY <1>4, <3>1, <3>2
    <3> QED
      BY <3>3 DEF k
  <2>11. BlockSplices(d, at, at, xs)
    BY <2>7, <2>8, <2>9, <2>10 DEF BlockSplices, n
  <2> QED
    BY <2>1, <2>3, <2>11 DEF n, d
<1> QED
  BY <1>6, <1>7

(* The first of xs are in place, and the rest goes behind them.            *)
LEMMA RestTold ==
  ASSUME NEW cap \in 0 .. MaxSize, Good(v, cap), NEW at \in 0 .. size, NEW xs \in Seq(Lives),
         NEW m \in 0 .. Len(xs), NEW d, NEW e, BlockSplices(d, at, at, SubSeq(xs, 1, m)),
         NEW args, args = AsMoved(SubSeq(xs, m + 1, Len(xs))), Inserted(d, e, at + m, args)
  PROVE  BlockSplices(e, at, at, xs)
<1> DEFINE n == Len(xs)
           first == SubSeq(xs, 1, m)
           rest == SubSeq(xs, m + 1, n)
           l == n - m
<1>1. size \in Nat /\ at \in Nat /\ at <= size /\ n \in Nat /\ m \in Nat /\ m <= n /\ l \in Nat /\ m + l = n
  BY SizeIs
<1>2. first \in Seq(Lives) /\ Len(first) = m /\ \A k \in 1 .. m : first[k] = xs[k]
  <2>0. Len(xs) \in Nat
    OBVIOUS
  <2>1. m \in Nat /\ m <= Len(xs)
    BY <2>0
  <2> QED
    BY <2>1
<1>3. rest \in Seq(Lives) /\ Len(rest) = l /\ \A k \in 1 .. l : rest[k] = xs[m + k]
  <2>1. n \in Nat /\ m \in Nat /\ m <= n
    BY <1>1
  <2>2. rest \in Seq(Lives) /\ Len(rest) = l
    BY <2>1
  <2>3. \A k \in 1 .. l : rest[k] = xs[m + k]
    BY <2>1
  <2> QED
    BY <2>2, <2>3
<1> HIDE DEF first, rest, n, l
<1>4. /\ d.end = size - (at - at) + m
      /\ SameOn(v, d, 0, at)
      /\ \A k \in 1 .. m : d.cells[at + k - 1] = xs[k]
      /\ \A j \in at .. size - 1 : d.cells[at + m + (j - at)] = v.cells[j]
  BY <1>2 DEF BlockSplices, first
<1>5. Len(args) = l /\ \A k \in 1 .. l : args[k] = Moved(Value(rest[k]))
  <2>1. args = AsMoved(rest)
    BY DEF rest, n
  <2>2. DOMAIN rest = 1 .. l
    BY <1>3
  <2>3. args = [k \in 1 .. l |-> Moved(Value(rest[k]))]
    BY <2>1, <2>2 DEF AsMoved
  <2> QED
    BY <1>1, <2>3
<1>6. ASSUME NEW k \in 1 .. l PROVE Read(d, args[k]) = xs[m + k]
  <2> DEFINE x == rest[k]
  <2>1. x \in Lives
    BY <1>3
  <2> HIDE DEF x
  <2>2. Read(d, Moved(Value(x))) = x
    BY <2>1, ValueIs
  <2> QED
    BY <1>3, <1>5, <2>2 DEF x
<1>7. /\ e.end = d.end + l
      /\ SameOn(d, e, 0, at + m)
      /\ \A k \in 1 .. l : HasRead(d, e, at + m + k - 1, args[k])
      /\ \A j \in at + m .. d.end - 1 : e.cells[j + l] = d.cells[j]
  BY <1>5 DEF Inserted, Shifted
<1>8. e.end = size - (at - at) + n
  BY <1>1, <1>4, <1>7
<1>9. ASSUME NEW i \in 0 .. (at + m) - 1 PROVE e.cells[i] = d.cells[i]
  BY <1>7 DEF SameOn, SameCell
<1>10. SameOn(v, e, 0, at)
  <2> SUFFICES ASSUME NEW i \in 0 .. at - 1 PROVE SameCell(v, e, i)
    BY DEF SameOn
  <2>1. i \in 0 .. (at + m) - 1
    BY <1>1
  <2>2. SameCell(v, d, i)
    BY <1>4 DEF SameOn
  <2> QED
    BY <1>9, <2>1, <2>2 DEF SameCell
<1>11. ASSUME NEW k \in 1 .. n PROVE e.cells[at + k - 1] = xs[k]
  <2>1. CASE k <= m
    <3>1. k \in 1 .. m /\ at + k - 1 \in 0 .. (at + m) - 1
      BY <1>1, <2>1
    <3> QED
      BY <1>4, <1>9, <3>1
  <2>2. CASE k > m
    <3> DEFINE j == k - m
    <3>1. j \in 1 .. l /\ m + j = k /\ at + m + j - 1 = at + k - 1
      BY <1>1, <2>2
    <3> HIDE DEF j
    <3>2. HasRead(d, e, at + m + j - 1, args[j])
      BY <1>7, <3>1
    <3> QED
      BY <1>6, <3>1, <3>2 DEF HasRead
  <2> QED
    BY <1>1, <2>1, <2>2
<1>12. ASSUME NEW j \in at .. size - 1 PROVE e.cells[at + n + (j - at)] = v.cells[j]
  <2> DEFINE i == at + m + (j - at)
  <2>1. i \in at + m .. d.end - 1 /\ i + l = at + n + (j - at)
    BY <1>1, <1>4
  <2>2. d.cells[i] = v.cells[j]
    BY <1>4
  <2> HIDE DEF i
  <2> QED
    BY <1>7, <2>1, <2>2
<1> QED
  BY <1>8, <1>10, <1>11, <1>12 DEF BlockSplices, n

LEMMA InsertInputTold ==
  ASSUME NEW cap \in 0 .. MaxSize, Good(v, cap), NEW at \in 0 .. size, NEW xs \in Seq(Lives),
         InsertInput(at, xs)
  PROVE  Told
<1> DEFINE n == Len(xs)
           room == IF n > capacity - size THEN capacity - size ELSE n
           first == SubSeq(xs, 1, room)
           here == ConstructAll(AsValues(first))
           rest == SubSeq(xs, room + 1, n)
           rotate == Rotation(at, room)
           new == Recommend(capacity, size + n)
           both == contents \o first
           reserved == Holding(both, new)
           args == AsMoved(rest)
           more == InsertSteps(size + room, at + room, args)
           yes == TRUE
<1>1. /\ cap \in Nat /\ size \in 0 .. cap /\ size \in Nat /\ capacity = cap /\ n \in Nat /\ at \in Nat /\ at <= size
      /\ contents \in Seq(Lives) /\ Len(contents) = size
  BY SizeIs
<1>2. /\ room \in Nat /\ room <= n /\ size + room <= cap /\ size + room \in 0 .. cap
      /\ size + room \in Nat /\ n - room \in Nat
  BY <1>1
<1>3. \/ rest = <<>> /\ Attempt("insert_input", at, at, xs, v, here \o rotate)
      \/ \E k \in DOMAIN here : End("insert_input", at, at, xs, Run(v, SubSeq(here, 1, k - 1)), yes)
      \/ End("insert_input", at, at, xs, v, yes)
      \/ new <= MaxSize /\ Attempt("insert_input", at, at, xs, reserved, rotate \o more)
  BY DEF InsertInput, Rotation
<1>4. yes
  OBVIOUS
<1> HIDE DEF yes, room
<1>5. first \in Seq(Lives) /\ Len(first) = room /\ \A k \in 1 .. room : first[k] = xs[k]
  <2>1. n \in Nat /\ room \in Nat /\ room <= n
    BY <1>1, <1>2
  <2> QED
    BY <2>1
<1>6. rest \in Seq(Lives) /\ Len(rest) = n - room
  <2>1. n \in Nat /\ room \in Nat /\ room <= n
    BY <1>1, <1>2
  <2> QED
    BY <2>1
<1>7. room = n => first = xs
  BY <1>5, EqualSeqs
<1> HIDE DEF first, rest, here, rotate, more, args, n
<1>8. rest = <<>> => room = n
  <2>1. rest = <<>> => Len(rest) = 0
    OBVIOUS
  <2>2. n - room = 0 => room = n
    BY <1>1, <1>2
  <2> QED
    BY <1>6, <2>1, <2>2
<1>9. CASE rest = <<>> /\ Attempt("insert_input", at, at, xs, v, here \o rotate)
  <2> DEFINE c == Run(v, here)
             d == Run(c, rotate)
  <2>1. v.end = size /\ room = Len(first) /\ v.end + room <= cap
    BY <1>2, <1>5 DEF size
  <2>2. LET x == Run(v, ConstructAll(AsValues(first))) IN
         /\ Good(x, cap) /\ x.end = v.end + room /\ SameOn(v, x, 0, v.end)
         /\ \A k \in 1 .. room : x.cells[v.end + k - 1] = first[k]
         /\ Legal(ConstructAll(AsValues(first)), v.end, v.end + room, cap)
    BY <1>1, <1>5, <2>1, ValuesDo
  <2>3. Good(c, cap) /\ Appended(c, first) /\ Legal(here, v.end, c.end, cap)
    BY <2>1, <2>2 DEF Appended, here
  <2> HIDE DEF c
  <2>4. Legal(rotate, c.end, c.end, cap) /\ Good(d, cap) /\ BlockSplices(d, at, at, first)
    BY <1>1, <1>5, <2>3, RotationTold DEF rotate
  <2>5. Run(v, here \o rotate) = d
    BY <1>1, <2>3, <2>4, RunThen DEF c
  <2> HIDE DEF d
  <2>6. first = xs
    BY <1>7, <1>8, <1>9
  <2>7. at \in at .. size
    BY <1>1
  <2>8. Contents(d) = Spliced(contents, at, at, xs)
    BY <1>1, <2>4, <2>6, <2>7, BlockTold
  <2> QED
    BY <1>9, <2>5, <2>8, AttemptTold
<1>10. ASSUME NEW k \in DOMAIN here, End("insert_input", at, at, xs, Run(v, SubSeq(here, 1, k - 1)), yes)
       PROVE  Told
  BY <1>4, <1>10, EndTold
<1>11. CASE End("insert_input", at, at, xs, v, yes)
  BY <1>4, <1>11, EndTold
<1>12. CASE Attempt("insert_input", at, at, xs, reserved, rotate \o more)
  <2>1. new \in Nat /\ new >= size + n
    <3>1. size + n \in Nat /\ capacity \in Nat
      BY <1>1
    <3> QED
      BY <3>1, RecommendIs
  <2>2. /\ both \in Seq(Lives) /\ Len(both) = size + room
        /\ \A i \in 1 .. size : both[i] = contents[i]
        /\ \A k \in 1 .. room : both[size + k] = first[k]
    <3>1. /\ both \in Seq(Lives) /\ Len(both) = Len(contents) + Len(first)
          /\ \A i \in 1 .. Len(contents) : both[i] = contents[i]
          /\ \A k \in 1 .. Len(first) : both[Len(contents) + k] = first[k]
      <4>1. contents \in Seq(Lives) /\ first \in Seq(Lives)
        BY <1>1, <1>5
      <4> QED
        BY <4>1
    <3> QED
      BY <1>1, <1>5, <3>1
  <2>3. size + room <= new /\ size + n <= new /\ size + room \in Nat
    BY <1>1, <1>2, <2>1
  <2> HIDE DEF new, both
  <2>4. Good(reserved, new) /\ reserved.end = size + room /\ Contents(reserved) = both
    BY <2>1, <2>2, <2>3, HoldingGood, HoldingContents
  <2> HIDE DEF reserved
  <2>5. \A i \in 1 .. size + room : both[i] = reserved.cells[i - 1]
    BY <2>4 DEF Contents
  <2>6. \A i \in 1 .. size : contents[i] = v.cells[i - 1]
    BY DEF contents, Contents, size
  <2>7. Appended(reserved, first)
    <3>1. ASSUME NEW i \in 0 .. size - 1 PROVE SameCell(v, reserved, i)
      <4> DEFINE j == i + 1
      <4>1. j \in 1 .. size /\ j \in 1 .. size + room /\ j - 1 = i
        BY <1>1, <1>2
      <4> HIDE DEF j
      <4> QED
        BY <2>2, <2>5, <2>6, <4>1 DEF SameCell
    <3>2. ASSUME NEW k \in 1 .. room PROVE reserved.cells[size + k - 1] = first[k]
      <4> DEFINE j == size + k
      <4>1. j \in 1 .. size + room /\ j - 1 = size + k - 1
        BY <1>1, <1>2
      <4>2. both[j] = first[k]
        BY <2>2
      <4> HIDE DEF j
      <4> QED
        BY <2>5, <4>1, <4>2
    <3> QED
      BY <1>5, <2>4, <3>1, <3>2 DEF Appended, SameOn
  <2> DEFINE d == Run(reserved, rotate)
             e == Run(d, more)
  <2>8. Legal(rotate, reserved.end, reserved.end, new) /\ Good(d, new) /\ BlockSplices(d, at, at, first)
    BY <1>5, <2>1, <2>4, <2>7, RotationTold DEF rotate
  <2> HIDE DEF d
  <2>9. d.end = size + room
    <3>1. d.end = size - (at - at) + Len(first)
      BY <2>8 DEF BlockSplices
    <3> QED
      BY <1>1, <1>5, <3>1
  <2>10. args \in Seq(Args) /\ Len(args) = n - room /\ \A k \in 1 .. Len(args) : Readable(args[k], d.end)
    BY <1>2, <1>6, <2>9, ValuesReadable DEF args
  <2>11. Quiet(args)
    <3>1. \A k \in 1 .. Len(args) : args[k] = Moved(Value(rest[k])) /\ rest[k] \in Lives
      <4>1. DOMAIN rest = 1 .. Len(args)
        BY <1>6, <2>10
      <4>2. \A k \in DOMAIN rest : rest[k] \in Lives
        BY <1>6
      <4> QED
        BY <4>1, <4>2 DEF args, AsMoved
    <3>2. ASSUME NEW x \in Lives PROVE Moved(Value(x)).at < 0
      <4>1. Moved(Value(x)).at = -1
        BY ValueIs
      <4> QED
        BY <4>1
    <3> QED
      BY <3>1, <3>2 DEF Quiet
  <2> DEFINE at2 == at + room
  <2>12. at2 \in 0 .. d.end /\ d.end + Len(args) <= new /\ more = InsertSteps(d.end, at2, args)
    BY <1>1, <1>2, <2>3, <2>9, <2>10 DEF more
  <2> HIDE DEF at2
  <2>13. Good(e, new) /\ Inserted(d, e, at2, args)
    <3>1. /\ Good(Run(d, InsertSteps(d.end, at2, args)), new)
          /\ Inserted(d, Run(d, InsertSteps(d.end, at2, args)), at2, args)
      BY <2>1, <2>8, <2>10, <2>11, <2>12, InsertDoes
    <3> QED
      BY <2>12, <3>1
  <2>14. Legal(more, d.end, d.end + Len(args), new)
    <3>1. d.end \in 0 .. new
      BY <2>1, <2>8, GoodHas
    <3>2. Legal(InsertSteps(d.end, at2, args), d.end, d.end + Len(args), new)
      BY <2>1, <2>10, <2>12, <3>1, InsertLegal
    <3> QED
      BY <2>12, <3>2
  <2>15. Run(reserved, rotate \o more) = e
    <3>1. Legal(rotate, reserved.end, d.end, new)
      BY <2>4, <2>8, <2>9
    <3>2. Run(reserved, rotate \o more) = Run(Run(reserved, rotate), more)
      BY <2>1, <2>4, <2>14, <3>1, RunThen
    <3> QED
      BY <3>2 DEF d
  <2> HIDE DEF e
  <2>16. BlockSplices(e, at, at, xs)
    <3>1. room \in 0 .. Len(xs)
      BY <1>1, <1>2 DEF n
    <3>2. BlockSplices(d, at, at, SubSeq(xs, 1, room))
      BY <2>8 DEF first
    <3>3. args = AsMoved(SubSeq(xs, room + 1, Len(xs)))
      BY DEF args, rest, n
    <3>4. Inserted(d, e, at + room, args)
      BY <2>13 DEF at2
    <3> QED
      BY <3>1, <3>2, <3>3, <3>4, RestTold
  <2>17. at \in at .. size
    BY <1>1
  <2>18. Contents(e) = Spliced(contents, at, at, xs)
    BY <2>1, <2>13, <2>16, <2>17, BlockTold
  <2> QED
    BY <1>12, <2>15, <2>18, AttemptTold
<1> QED
  BY <1>3, <1>9, <1>10, <1>11, <1>12

LEMMA NextTold == IInv /\ [Next]_vars => Told \/ UNCHANGED vars
<1> SUFFICES ASSUME IInv, Next PROVE Told
  OBVIOUS
<1>1. PICK cap \in 0 .. MaxSize : Good(v, cap)
  BY DEF IInv
<1>2. CASE \E arg \in Arguments : PushBack(arg)
  BY <1>1, <1>2, PushBackTold
<1>3. CASE PopBack \/ PopBackValue \/ ShrinkToFit
  BY <1>1, <1>3, PopBackTold, PopBackValueTold, ShrinkToFitTold
<1>4. ASSUME NEW at \in 0 .. size, NEW arg \in Arguments, Insert(at, <<arg>>) PROVE Told
  <2> DEFINE args == <<arg>>
  <2>1. arg \in Args /\ Readable(arg, size) /\ (arg.move => arg.at < 0)
    BY <1>1, ArgumentReadable, ArgumentUnmoved
  <2>2. args \in Seq(Args) /\ (\A k \in 1 .. Len(args) : Readable(args[k], size)) /\ Quiet(args)
    BY <2>1 DEF Quiet
  <2>3. Insert(at, args)
    BY <1>4
  <2> HIDE DEF args
  <2> QED
    BY <1>1, <2>2, <2>3, InsertTold
<1>5. ASSUME NEW at \in 0 .. size, NEW n \in 2 .. MaxArgs, NEW arg \in Arguments,
             ~ arg.move, Insert(at, [k \in 1 .. n |-> arg])
      PROVE  Told
  <2> DEFINE args == [k \in 1 .. n |-> arg]
  <2>1. arg \in Args /\ Readable(arg, size) /\ n \in Nat
    BY <1>1, ArgumentReadable, Constants
  <2>2. args \in Seq(Args) /\ Len(args) = n /\ \A k \in 1 .. n : args[k] = arg
    BY <2>1, CopiesAre
  <2>3. Insert(at, args)
    BY <1>5
  <2> HIDE DEF args
  <2>4. (\A k \in 1 .. Len(args) : Readable(args[k], size)) /\ Quiet(args)
    BY <1>5, <2>1, <2>2 DEF Quiet
  <2> QED
    BY <1>1, <2>2, <2>3, <2>4, InsertTold
<1>6. CASE \E at \in 0 .. size, x \in Values : Emplace(at, x)
  BY <1>1, <1>6, EmplaceTold
<1>7. ASSUME NEW at \in 0 .. size, NEW xs \in Ranges, Insert(at, AsValues(xs)) \/ InsertInput(at, xs)
      PROVE  Told
  <2>1. xs \in Seq(Lives)
    BY RangeLives
  <2>2. CASE Insert(at, AsValues(xs))
    <3> DEFINE args == AsValues(xs)
    <3>1. size \in Nat
      BY <1>1, SizeIs
    <3>2. args \in Seq(Args) /\ Len(args) = Len(xs) /\ \A k \in 1 .. Len(xs) : Readable(args[k], size)
      BY <2>1, <3>1, ValuesReadable
    <3>3. \A k \in 1 .. Len(xs) : args[k] = Value(xs[k])
      BY <2>1 DEF AsValues
    <3>4. \A x : ~ Value(x).move
      BY DEF Value
    <3>5. Insert(at, args)
      BY <2>2
    <3> HIDE DEF args
    <3>6. Quiet(args)
      BY <3>2, <3>3, <3>4 DEF Quiet
    <3> QED
      BY <1>1, <3>2, <3>5, <3>6, InsertTold
  <2>3. CASE InsertInput(at, xs)
    BY <1>1, <2>1, <2>3, InsertInputTold
  <2> QED
    BY <1>7, <2>2, <2>3
<1>8. CASE \E from, to \in 0 .. size : Erase(from, to)
  BY <1>1, <1>8, EraseTold
<1>9. CASE \E n \in 1 .. MaxArgs, arg \in Arguments : ~ arg.move /\ AppendCopies(n, arg)
  BY <1>1, <1>9, AppendTold
<1>10. CASE \E n \in 0 .. size : Shrink(n)
  BY <1>1, <1>10, ShrinkTold
<1>11. CASE \E n \in 0 .. MaxSize + 1 : Reserve(n)
  BY <1>1, <1>11, ReserveTold
<1>12. CASE \E xs \in Ranges : AssignAll(xs) \/ AssignInput(xs)
  BY <1>1, <1>12, RangeLives, AssignAllTold, AssignInputTold
<1> QED
  BY <1>2, <1>3, <1>4, <1>5, <1>6, <1>7, <1>8, <1>9, <1>10, <1>11, <1>12 DEF Next

(* Every operation that does not throw leaves the contents the standard    *)
(* says: what it was given in the place of the elements from from up to    *)
(* to, and all others, in order, around that. So it does for every way the *)
(* new elements and the old ones fall over initialised and raw memory, and *)
(* when the value it inserts is one of the elements it moves.              *)
THEOREM DoneAsTold == Spec => DoesAsTold
<1>1. Spec => []IInv
  BY InitSound, NextSound, PTL DEF Spec
<1>2. IInv /\ [Next]_vars => [Told]_vars
  BY NextTold
<1> QED
  BY <1>1, <1>2, PTL DEF Spec, DoesAsTold, Told
================================================================================
