---------------------------- MODULE PinToolTotals ----------------------------
(***************************************************************************)
(* Proofs for PinTool about the counts of accesses: what profiledAccesses  *)
(* says of the accesses made, and what the overall statistics add up to.   *)
(* A sum over the threads is the cardinality of a set of accesses.         *)
(***************************************************************************)
EXTENDS PinToolProofs, FiniteSetTheorems

-----------------------------------------------------------------------------
(* The invariant. *)

\* The accesses of each thread t numbered from 1 to f[t].
Accesses(f) == {a \in Threads \X (1..(Cap + 1)) : a[2] <= f[a[1]]}

\* What a thread has that is not in the overall statistics yet: its own
\* statistics and the callback in progress.
Owed == [t \in Threads |-> elements[t] + num[t]]

\* The threads with an access that profiledAccesses does not include yet.
InCheckSkip == {"check", "trystart", "starting", "limit", "trylimit", "load", "store"}
Pending == {t \in Threads : pc[t] \in InCheckSkip /\ num[t] = 1}

\* Who adds to the overall statistics, and who has nothing to add.
Account(t) ==
    /\ statMutex = t <=> pc[t] \in {"read", "add"}
    /\ pc[t] = "add" => sum[t] = total
    /\ pc[t] \notin InCheckSkip \cup {"handoff"} => num[t] = 0
    /\ pc[t] \in {"new", "dead"} => elements[t] = 0

\* Nothing is dropped or counted twice between a callback and the Dump.
Books ==
    /\ \A t \in Threads : Account(t)
    /\ phase = "dumped" => \A t \in Threads : pc[t] \in {"new", "dead"}
    /\ made = Plus(total, Cardinality(Accesses(Owed)))

\* The counter never runs ahead of the accesses made, nor does what a thread read
\* of it before others stored theirs: an increment can be lost, never repeated.
Behind(count) == made = Cap \/ count + Cardinality(Pending) <= made
Counter ==
    /\ Behind(profiledAccesses)
    /\ \A t \in Threads : pc[t] = "store" => Behind(loaded[t])
    /\ \A t \in Threads : pc[t] = "trylimit" => made >= Limit
    /\ endTraces > 0 => made >= Limit

-----------------------------------------------------------------------------
(* Sets of accesses. *)

\* They are finite.
LEMMA AccessesFinite ==
    ASSUME NEW f
    PROVE  IsFiniteSet(Accesses(f)) /\ Cardinality(Accesses(f)) \in Nat
<1>1. IsFiniteSet(1..(Cap + 1))
  BY Marks, FS_Interval
<1>2. IsFiniteSet(Threads \X (1..(Cap + 1)))
  BY <1>1, PinToolAssumption, FS_Product
<1>3. Accesses(f) \in SUBSET (Threads \X (1..(Cap + 1)))
  BY DEF Accesses
<1> QED
  BY <1>2, <1>3, FS_Subset, FS_CardinalityType

\* Without those of one thread there are as many fewer as the thread has.
LEMMA AccessesWithout ==
    ASSUME NEW f \in [Threads -> 0..(Cap + 1)], NEW t \in Threads
    PROVE  Cardinality(Accesses(f)) = Cardinality(Accesses([f EXCEPT ![t] = 0])) + f[t]
<1> DEFINE g == [f EXCEPT ![t] = 0]
           X == {t} \X (1..f[t])
<1>1. f[t] \in 0..(Cap + 1)
  OBVIOUS
<1>2. IsFiniteSet(X) /\ Cardinality(X) = f[t]
  <2>1. IsFiniteSet({t}) /\ Cardinality({t}) = 1
    BY FS_Singleton
  <2>2. IsFiniteSet(1..f[t]) /\ Cardinality(1..f[t]) = f[t]
    BY <1>1, FS_Interval
  <2>3. /\ IsFiniteSet({t} \X (1..f[t]))
        /\ Cardinality({t} \X (1..f[t])) = Cardinality({t}) * Cardinality(1..f[t])
    BY <2>1, <2>2, FS_Product, Zenon
  <2>4. Cardinality({t}) * Cardinality(1..f[t]) = f[t]
    BY <1>1, <2>1, <2>2, Marks
  <2> QED BY <2>3, <2>4
<1>3. Accesses(f) \cap X = X
  BY <1>1, Marks DEF Accesses
<1>4. Accesses(g) = Accesses(f) \ X
  <2>1. ASSUME NEW a \in Threads \X (1..(Cap + 1))
        PROVE  a[2] <= g[a[1]] <=> a[2] <= f[a[1]] /\ a \notin X
    <3>1. PICK u \in Threads, k \in 1..(Cap + 1) : a = <<u, k>>
      OBVIOUS
    <3>2. CASE u = t
      BY <1>1, <3>1, <3>2
    <3>3. CASE u # t
      BY <3>1, <3>3
    <3> QED BY <3>2, <3>3
  <2> QED BY <2>1 DEF Accesses
<1>5. Cardinality(Accesses(g)) = Cardinality(Accesses(f)) - f[t]
  <2>1. IsFiniteSet(Accesses(f))
    BY AccessesFinite
  <2> HIDE DEF X, g
  <2>2. Cardinality(Accesses(f) \ X)
          = Cardinality(Accesses(f)) - Cardinality(Accesses(f) \cap X)
    BY <2>1, FS_Difference
  <2> QED BY <2>2, <1>2, <1>3, <1>4
<1>6. Cardinality(Accesses(f)) \in Nat /\ Cardinality(Accesses(g)) \in Nat
  BY AccessesFinite
<1> QED BY <1>1, <1>5, <1>6

\* When one thread's number changes, the cardinality changes by as much.
LEMMA AccessesChange ==
    ASSUME NEW f \in [Threads -> 0..(Cap + 1)], NEW g \in [Threads -> 0..(Cap + 1)],
           NEW t \in Threads, \A u \in Threads : u # t => f[u] = g[u]
    PROVE  Cardinality(Accesses(f)) + g[t] = Cardinality(Accesses(g)) + f[t]
<1> DEFINE h == [f EXCEPT ![t] = 0]
<1>1. h = [g EXCEPT ![t] = 0]
  OBVIOUS
<1>2. f[t] \in Nat /\ g[t] \in Nat
  BY Marks
<1>3. Cardinality(Accesses(f)) = Cardinality(Accesses(h)) + f[t]
  BY AccessesWithout
<1>4. Cardinality(Accesses(g)) = Cardinality(Accesses([g EXCEPT ![t] = 0])) + g[t]
  BY AccessesWithout
<1>5. Cardinality(Accesses(h)) \in Nat
  BY AccessesFinite
<1> HIDE DEF h
<1> QED
  BY <1>1, <1>2, <1>3, <1>4, <1>5

\* No thread has more than all together.
LEMMA AccessesOne ==
    ASSUME NEW f \in [Threads -> 0..(Cap + 1)], NEW t \in Threads
    PROVE  Cardinality(Accesses(f)) >= f[t]
<1> DEFINE h == [f EXCEPT ![t] = 0]
<1>1. f[t] \in Nat /\ Cardinality(Accesses(h)) \in Nat
  BY Marks, AccessesFinite
<1>2. Cardinality(Accesses(f)) = Cardinality(Accesses(h)) + f[t]
  BY AccessesWithout
<1> HIDE DEF h
<1> QED
  BY <1>1, <1>2

\* Saturated sums.
LEMMA PlusSums ==
    ASSUME NEW a \in 0..Cap, NEW b \in Nat, NEW c \in Nat
    PROVE  /\ Plus(Plus(a, b), c) = Plus(a, b + c)
           /\ Plus(a, 0) = a
           /\ b >= Cap => Plus(a, b) = Cap
           /\ Plus(a, b) >= a
  BY Marks DEF Plus

\* The set of threads with an access to count is finite.
LEMMA PendingFinite == IsFiniteSet(Pending) /\ Cardinality(Pending) \in Nat
  BY PinToolAssumption, FS_Subset, FS_CardinalityType DEF Pending

LEMMA OwedType ==
    ASSUME TypeOK
    PROVE  /\ Owed \in [Threads -> 0..(Cap + 1)]
           /\ \A t \in Threads : elements[t] \in 0..Cap /\ num[t] \in 0..1
                                   /\ Owed[t] = elements[t] + num[t]
  BY Marks DEF TypeOK, Owed

-----------------------------------------------------------------------------
(* The statistics. *)

\* A step that moves one thread and leaves all counts alone.
LEMMA BooksQuiet ==
    ASSUME TypeOK, Books, NEW t \in Threads,
           UNCHANGED <<num, elements, made, statMutex, sum, total, phase>>,
           \A u \in Threads : u # t => pc'[u] = pc[u],
           pc[t] \notin {"read", "add", "dead"},
           pc'[t] \notin {"read", "add", "new", "dead"},
           pc'[t] \notin InCheckSkip \cup {"handoff"} =>
               pc[t] \notin InCheckSkip \cup {"handoff"},
           pc[t] = "new" => phase # "dumped"
    PROVE  Books'
<1>1. \A u \in Threads : Account(u)'
  BY DEF Books, Account
<1>2. phase' = "dumped" => \A u \in Threads : pc'[u] \in {"new", "dead"}
  BY DEF Books
<1>3. Owed' = Owed
  BY DEF Owed
<1>4. made' = Plus(total', Cardinality(Accesses(Owed')))
  BY <1>3 DEF Books
<1> QED
  BY <1>1, <1>2, <1>4 DEF Books

\* A step that changes what one thread has or the overall statistics have: the
\* sum of both changes by d.
LEMMA BooksMoved ==
    ASSUME TypeOK, TypeOK', Books, NEW t \in Threads,
           \A u \in Threads : u # t => elements'[u] = elements[u] /\ num'[u] = num[u]
    PROVE  /\ Cardinality(Accesses(Owed')) + elements[t] + num[t]
                = Cardinality(Accesses(Owed)) + elements'[t] + num'[t]
           /\ Cardinality(Accesses(Owed)) \in Nat
           /\ Cardinality(Accesses(Owed')) \in Nat
           /\ Cardinality(Accesses(Owed')) >= elements'[t] + num'[t]
<1>1. /\ Owed \in [Threads -> 0..(Cap + 1)] /\ Owed' \in [Threads -> 0..(Cap + 1)]
      /\ \A u \in Threads : Owed[u] = elements[u] + num[u] /\ Owed'[u] = elements'[u] + num'[u]
  BY Marks DEF TypeOK, Owed
<1>2. \A u \in Threads : u # t => Owed[u] = Owed'[u]
  BY <1>1
<1>3. Cardinality(Accesses(Owed)) + Owed'[t] = Cardinality(Accesses(Owed')) + Owed[t]
  BY <1>1, <1>2, AccessesChange
<1>4. Cardinality(Accesses(Owed)) \in Nat /\ Cardinality(Accesses(Owed')) \in Nat
  BY AccessesFinite
<1>5. Cardinality(Accesses(Owed')) >= Owed'[t]
  BY <1>1, AccessesOne
<1>6. /\ elements[t] \in Nat /\ num[t] \in Nat /\ elements'[t] \in Nat /\ num'[t] \in Nat
  BY Marks DEF TypeOK
<1> QED
  BY <1>1, <1>3, <1>4, <1>5, <1>6

\* A callback begins: there is one access more.
LEMMA BooksCallback ==
    ASSUME TypeOK, TypeOK', Books, NEW t \in Threads, NEW n \in 0..1, Callback(t, n)
    PROVE  Books'
<1>1. /\ pc[t] = "run" /\ pc' = [pc EXCEPT ![t] = "check"]
      /\ num' = [num EXCEPT ![t] = n] /\ made' = Plus(made, n)
      /\ UNCHANGED <<elements, phase, statMutex, sum, total>>
  BY DEF Callback, Goto, endVars, statVars
<1>2. /\ pc'[t] = "check" /\ num'[t] = n /\ num[t] = 0
      /\ \A u \in Threads : u # t => pc'[u] = pc[u] /\ num'[u] = num[u]
  BY <1>1 DEF TypeOK, Books, Account, InCheckSkip
<1>3. \A u \in Threads : Account(u)'
  BY <1>1, <1>2 DEF Books, Account, InCheckSkip
<1>4. phase' = "dumped" => \A u \in Threads : pc'[u] \in {"new", "dead"}
  BY <1>1 DEF Books
<1>5. made' = Plus(total', Cardinality(Accesses(Owed')))
  <2>1. /\ Cardinality(Accesses(Owed')) = Cardinality(Accesses(Owed)) + n
        /\ Cardinality(Accesses(Owed)) \in Nat
    <3>1. elements[t] \in Nat
      BY Marks DEF TypeOK
    <3> QED BY <1>1, <1>2, <3>1, BooksMoved
  <2>2. total \in 0..Cap /\ made = Plus(total, Cardinality(Accesses(Owed)))
    BY DEF TypeOK, Books
  <2> QED
    BY <1>1, <2>1, <2>2, PlusSums
<1> QED
  BY <1>3, <1>4, <1>5 DEF Books

\* The callback is added to the thread's own statistics.
LEMMA BooksHandoff ==
    ASSUME TypeOK, TypeOK', Books, NEW t \in Threads, EnqueueFullAndGetNextToFill(t)
    PROVE  Books'
<1>1. /\ pc[t] = "handoff" /\ num' = [num EXCEPT ![t] = 0]
      /\ elements' = [elements EXCEPT ![t] = Plus(elements[t], num[t])]
      /\ UNCHANGED <<made, phase, statMutex, sum, total>>
  BY DEF EnqueueFullAndGetNextToFill, endVars, statVars
<1>2. PICK to \in {"fini", "run"} : pc' = [pc EXCEPT ![t] = to]
  BY DEF EnqueueFullAndGetNextToFill, Goto
<1>3. /\ pc'[t] = to /\ num'[t] = 0 /\ elements'[t] = Plus(elements[t], num[t])
      /\ \A u \in Threads : u # t => /\ pc'[u] = pc[u] /\ num'[u] = num[u]
                                      /\ elements'[u] = elements[u]
  BY <1>1, <1>2 DEF TypeOK
<1>4. \A u \in Threads : Account(u)'
  BY <1>1, <1>3 DEF Books, Account, InCheckSkip
<1>5. phase' = "dumped" => \A u \in Threads : pc'[u] \in {"new", "dead"}
  BY <1>1 DEF Books
<1>6. made' = Plus(total', Cardinality(Accesses(Owed')))
  <2>1. elements[t] \in 0..Cap /\ num[t] \in 0..1 /\ total \in 0..Cap
          /\ made = Plus(total, Cardinality(Accesses(Owed)))
    BY DEF TypeOK, Books
  <2>2. /\ Cardinality(Accesses(Owed')) + elements[t] + num[t]
             = Cardinality(Accesses(Owed)) + elements'[t] + num'[t]
        /\ Cardinality(Accesses(Owed)) \in Nat
        /\ Cardinality(Accesses(Owed')) \in Nat
        /\ Cardinality(Accesses(Owed')) >= elements'[t] + num'[t]
    BY <1>3, BooksMoved
  <2>3. CASE elements[t] + num[t] <= Cap
    <3>1. elements'[t] = elements[t] + num[t]
      BY <1>3, <2>1, <2>3, Marks DEF Plus
    <3>2. Cardinality(Accesses(Owed')) = Cardinality(Accesses(Owed))
      BY <1>3, <2>1, <2>2, <3>1
    <3> QED BY <1>1, <2>1, <3>2
  <2>4. CASE elements[t] + num[t] > Cap
    <3>1. elements'[t] = Cap /\ elements[t] + num[t] \in Nat
      BY <1>3, <2>1, <2>4, Marks DEF Plus
    <3>2. Cardinality(Accesses(Owed')) >= Cap /\ Cardinality(Accesses(Owed)) >= Cap
      BY <1>3, <2>1, <2>2, <2>4, <3>1, Marks
    <3> QED BY <1>1, <2>1, <2>2, <3>2, PlusSums
  <2> QED BY <2>1, <2>3, <2>4, Marks
<1> QED
  BY <1>4, <1>5, <1>6 DEF Books

\* AccumulateAppThreadStatistics moves a thread's own statistics to the overall
\* ones; statMutex keeps what the thread read of them valid.
LEMMA BooksAccumulate ==
    ASSUME TypeOK, TypeOK', Books, NEW t \in Threads,
           AccumulateLock(t) \/ AccumulateRead(t) \/ AccumulateAdd(t)
    PROVE  Books'
<1> USE Marks
<1>0. UNCHANGED <<num, made, phase>> /\ total \in 0..Cap
  BY DEF AccumulateLock, AccumulateRead, AccumulateAdd, threadVars, endVars, TypeOK
<1>1. CASE AccumulateLock(t)
  <2>1. /\ pc[t] = "lock" /\ pc' = [pc EXCEPT ![t] = "read"] /\ statMutex = Free
        /\ statMutex' = t /\ UNCHANGED <<elements, sum, total>>
    BY <1>1 DEF AccumulateLock, Goto, threadVars
  <2>2. pc'[t] = "read" /\ \A u \in Threads : u # t => pc'[u] = pc[u]
    BY <2>1 DEF TypeOK
  <2>3. \A u \in Threads : Account(u)'
    BY <1>0, <2>1, <2>2 DEF Books, Account, InCheckSkip
  <2>4. phase' = "dumped" => \A u \in Threads : pc'[u] \in {"new", "dead"}
    BY <1>0, <2>1 DEF Books
  <2>5. Owed' = Owed
    BY <1>0, <2>1 DEF Owed
  <2> QED
    BY <1>0, <2>1, <2>3, <2>4, <2>5 DEF Books
<1>2. CASE AccumulateRead(t)
  <2>1. /\ pc[t] = "read" /\ pc' = [pc EXCEPT ![t] = "add"]
        /\ sum' = [sum EXCEPT ![t] = total] /\ UNCHANGED <<elements, statMutex, total>>
    BY <1>2 DEF AccumulateRead, Goto, threadVars
  <2>2. /\ pc'[t] = "add" /\ sum'[t] = total
        /\ \A u \in Threads : u # t => pc'[u] = pc[u] /\ sum'[u] = sum[u]
    BY <2>1 DEF TypeOK
  <2>3. \A u \in Threads : Account(u)'
    BY <1>0, <2>1, <2>2 DEF Books, Account, InCheckSkip
  <2>4. phase' = "dumped" => \A u \in Threads : pc'[u] \in {"new", "dead"}
    BY <1>0, <2>1 DEF Books
  <2>5. Owed' = Owed
    BY <1>0, <2>1 DEF Owed
  <2> QED
    BY <1>0, <2>1, <2>3, <2>4, <2>5 DEF Books
<1>3. CASE AccumulateAdd(t)
  <2>1. /\ pc[t] = "add" /\ pc' = [pc EXCEPT ![t] = "dead"] /\ statMutex' = Free
        /\ total' = Plus(sum[t], elements[t]) /\ elements' = [elements EXCEPT ![t] = 0]
        /\ sum' = [sum EXCEPT ![t] = 0]
    BY <1>3 DEF AccumulateAdd, Goto
  <2>2. /\ pc'[t] = "dead" /\ elements'[t] = 0
        /\ \A u \in Threads : u # t => /\ pc'[u] = pc[u] /\ sum'[u] = sum[u]
                                       /\ elements'[u] = elements[u]
    BY <2>1 DEF TypeOK
  <2>3. statMutex = t /\ sum[t] = total /\ num[t] = 0
    BY <2>1 DEF Books, Account, InCheckSkip
  <2>4. \A u \in Threads : u # t => pc[u] \notin {"read", "add"}
    BY <2>3 DEF Books, Account
  <2>5. \A u \in Threads : Account(u)'
    BY <1>0, <2>1, <2>2, <2>3, <2>4 DEF Books, Account, InCheckSkip
  <2>6. phase' = "dumped" => \A u \in Threads : pc'[u] \in {"new", "dead"}
    BY <1>0, <2>1 DEF Books
  <2>7. made' = Plus(total', Cardinality(Accesses(Owed')))
    <3>1. elements[t] \in Nat /\ made = Plus(total, Cardinality(Accesses(Owed)))
      BY DEF TypeOK, Books
    <3>2. /\ Cardinality(Accesses(Owed)) = elements[t] + Cardinality(Accesses(Owed'))
          /\ Cardinality(Accesses(Owed')) \in Nat
      BY <1>0, <2>2, <2>3, <3>1, BooksMoved
    <3>3. Plus(Plus(total, elements[t]), Cardinality(Accesses(Owed')))
            = Plus(total, elements[t] + Cardinality(Accesses(Owed')))
      BY <1>0, <3>1, <3>2, PlusSums
    <3> QED
      BY <1>0, <2>1, <2>3, <3>1, <3>2, <3>3
  <2> QED
    BY <2>5, <2>6, <2>7 DEF Books
<1> QED BY <1>1, <1>2, <1>3

\* Every step keeps the books.
LEMMA BooksStep ==
    ASSUME TypeOK, TypeOK', Books, [Next]_vars
    PROVE  Books'
<1>1. ASSUME NEW t \in Threads,
             \/ CheckStarted(t) \/ TryStart(t) \/ StartTrace(t) \/ CheckLimit(t)
             \/ TryLimit(t) \/ LoadAccesses(t) \/ StoreAccesses(t)
      PROVE  Books'
  <2>1. UNCHANGED <<num, elements, made, statMutex, sum, total, phase>>
    BY <1>1 DEF CheckStarted, TryStart, StartTrace, CheckLimit, TryLimit, LoadAccesses,
       StoreAccesses, threadVars, endVars, statVars
  <2>2. pc[t] \in InCheckSkip
    BY <1>1 DEF CheckStarted, TryStart, StartTrace, CheckLimit, TryLimit, LoadAccesses,
       StoreAccesses, InCheckSkip
  <2>3. \E to \in InCheckSkip \cup {"handoff"} : Goto(t, to)
    BY <1>1 DEF CheckStarted, TryStart, StartTrace, CheckLimit, TryLimit, LoadAccesses,
       StoreAccesses, InCheckSkip
  <2>4. /\ pc'[t] \in InCheckSkip \cup {"handoff"}
        /\ \A u \in Threads : u # t => pc'[u] = pc[u]
    BY <2>3 DEF Goto, TypeOK
  <2> QED
    BY <2>1, <2>2, <2>4, BooksQuiet DEF InCheckSkip
<1>2. ASSUME NEW t \in Threads, ThreadStart(t) \/ ReclaimBuffer(t) \/ ReclaimCurrent(t)
      PROVE  Books'
  <2>1. UNCHANGED <<num, elements, made, statMutex, sum, total, phase>>
    BY <1>2 DEF ThreadStart, ReclaimBuffer, ReclaimCurrent, threadVars, endVars, statVars
  <2>2. /\ \/ pc[t] = "new" /\ pc'[t] = "run" /\ phase # "dumped"
           \/ pc[t] = "fini" /\ pc'[t] \in {"fini", "lock"}
        /\ \A u \in Threads : u # t => pc'[u] = pc[u]
    BY <1>2 DEF ThreadStart, ReclaimBuffer, ReclaimCurrent, Goto, TypeOK
  <2> QED
    BY <2>1, <2>2, BooksQuiet DEF InCheckSkip
<1>3. ASSUME NEW t \in Threads, BufferFull(t) \/ ExitFlush(t) PROVE Books'
  <2>1. PICK n \in 0..1 : Callback(t, n)
    BY <1>3 DEF BufferFull, ExitFlush
  <2> QED BY <2>1, BooksCallback
<1>4. ASSUME NEW t \in Threads, ToolStep(t) PROVE Books'
  BY <1>1, <1>2, <1>4, BooksHandoff, BooksAccumulate DEF ToolStep
<1>5. ASSUME UNCHANGED <<pc, num, elements, made, statMutex, sum, total>>,
             phase' = "dumped" => \A t \in Threads : pc[t] \in {"new", "dead"}
      PROVE  Books'
  <2>1. \A t \in Threads : Account(t)'
    BY <1>5 DEF Books, Account
  <2>2. Owed' = Owed
    BY <1>5 DEF Owed
  <2> QED
    BY <1>5, <2>1, <2>2 DEF Books
<1>6. CASE EndTrace \/ AppExit \/ Fini \/ Terminated \/ UNCHANGED vars
  <2>1. UNCHANGED <<pc, num, elements, made, statMutex, sum, total>>
    BY <1>6 DEF EndTrace, EndTraceCheck, EndTraceSet, ExitApplication, AppExit, Fini,
       PrepareCheck, PrepareSet, Dump, Terminated, threadVars, statVars, vars
  <2>2. phase' = "dumped" => phase = "dumped" \/ \A t \in Threads : pc[t] \in {"new", "dead"}
    BY <1>6 DEF EndTrace, EndTraceCheck, EndTraceSet, ExitApplication, AppExit, Fini,
       PrepareCheck, PrepareSet, Dump, Terminated, endVars, vars
  <2> QED
    BY <1>5, <2>1, <2>2 DEF Books
<1> QED
  BY <1>2, <1>3, <1>4, <1>6 DEF Next

-----------------------------------------------------------------------------
(* The counter. *)

\* A step that neither counts nor reads the counter, and lets no thread into the
\* test of the limit.
LEMMA CounterQuiet ==
    ASSUME Counter, UNCHANGED <<made, profiledAccesses, loaded, endTraces>>,
           Pending' = Pending,
           \A u \in Threads : pc'[u] \in {"store", "trylimit"} => pc'[u] = pc[u]
    PROVE  Counter'
  BY DEF Counter, Behind

\* A callback begins: the access is made, and pending.
LEMMA CounterCallback ==
    ASSUME TypeOK, Books, Counter, NEW t \in Threads, NEW n \in 0..1, Callback(t, n)
    PROVE  Counter'
<1> USE Marks
<1>1. /\ pc[t] = "run" /\ pc' = [pc EXCEPT ![t] = "check"]
      /\ num' = [num EXCEPT ![t] = n] /\ made' = Plus(made, n)
      /\ UNCHANGED <<loaded, profiledAccesses, endTraces>>
  BY DEF Callback, Goto, limitVars
<1>2. /\ pc'[t] = "check" /\ num'[t] = n
      /\ \A u \in Threads : u # t => pc'[u] = pc[u] /\ num'[u] = num[u]
  BY <1>1 DEF TypeOK
<1>3. Cardinality(Pending') = Cardinality(Pending) + n
  <2>1. t \notin Pending
    BY <1>1 DEF Pending, InCheckSkip
  <2>2. CASE n = 0
    <3>1. Pending' = Pending
      BY <1>1, <1>2, <2>1, <2>2 DEF Pending, InCheckSkip
    <3> QED BY <2>2, <3>1, PendingFinite
  <2>3. CASE n = 1
    <3>1. Pending' = Pending \cup {t}
      BY <1>2, <2>3 DEF Pending, InCheckSkip
    <3>2. Cardinality(Pending \cup {t}) = Cardinality(Pending) + 1
      BY <2>1, PendingFinite, FS_AddElement
    <3> QED BY <2>3, <3>1, <3>2
  <2> QED BY <2>2, <2>3
<1>4. /\ made \in 0..Cap /\ made' \in 0..Cap
      /\ made' >= made /\ (made' = Cap \/ made' = made + n)
  BY <1>1 DEF TypeOK, Plus
<1>5. ASSUME NEW c \in 0..Cap, Behind(c)
      PROVE  made' = Cap \/ c + Cardinality(Pending') <= made'
  BY <1>3, <1>4, <1>5, PendingFinite DEF Behind
<1>6. made' = Cap \/ profiledAccesses + Cardinality(Pending') <= made'
  BY <1>5 DEF Counter, TypeOK
<1>7. ASSUME NEW u \in Threads, pc'[u] = "store"
      PROVE  made' = Cap \/ loaded[u] + Cardinality(Pending') <= made'
  BY <1>2, <1>5, <1>7 DEF Counter, TypeOK
<1>8. \A u \in Threads : pc'[u] = "trylimit" => made' >= Limit
  BY <1>2, <1>4 DEF Counter
<1>9. endTraces' > 0 => made' >= Limit
  BY <1>1, <1>4 DEF Counter
<1> QED
  BY <1>1, <1>6, <1>7, <1>8, <1>9 DEF Counter, Behind

\* StoreAccesses: the access is no longer pending.  What the thread read was never
\* ahead, so its sum is not either; what others read is unaffected.
LEMMA CounterStore ==
    ASSUME TypeOK, TypeOK', Counter, NEW t \in Threads, StoreAccesses(t)
    PROVE  Counter'
<1> USE Marks
<1>1. /\ pc[t] = "store" /\ pc' = [pc EXCEPT ![t] = "handoff"]
      /\ profiledAccesses' = Plus(loaded[t], num[t])
      /\ loaded' = [loaded EXCEPT ![t] = 0]
      /\ UNCHANGED <<num, made, endTraces>>
  BY DEF StoreAccesses, Goto
<1>2. /\ pc'[t] = "handoff"
      /\ \A u \in Threads : u # t => pc'[u] = pc[u] /\ loaded'[u] = loaded[u]
  BY <1>1 DEF TypeOK
<1>3. num[t] \in 0..1 /\ loaded[t] \in 0..Cap /\ made \in 0..Cap
  BY DEF TypeOK
<1>4. Cardinality(Pending') = Cardinality(Pending) - num[t]
  <2>1. CASE num[t] = 0
    <3>1. Pending' = Pending
      BY <1>1, <1>2, <2>1 DEF Pending, InCheckSkip
    <3> QED BY <2>1, <3>1, PendingFinite
  <2>2. CASE num[t] = 1
    <3>1. t \in Pending /\ Pending' = Pending \ {t}
      BY <1>1, <1>2, <2>2 DEF Pending, InCheckSkip
    <3>2. Cardinality(Pending \ {t}) = Cardinality(Pending) - 1
      BY <3>1, PendingFinite, FS_RemoveElement
    <3> QED BY <2>2, <3>1, <3>2
  <2> QED BY <1>3, <2>1, <2>2
<1>5. Cardinality(Pending') \in Nat
  <2>1. Pending' \in SUBSET Threads
    BY DEF Pending
  <2> QED
    BY <2>1, PinToolAssumption, FS_Subset, FS_CardinalityType
<1>6. made' = Cap \/ profiledAccesses' + Cardinality(Pending') <= made'
  <2>1. made = Cap \/ loaded[t] + Cardinality(Pending) <= made
    BY <1>1 DEF Counter, Behind
  <2>2. profiledAccesses' <= loaded[t] + num[t] /\ profiledAccesses' \in Nat
    BY <1>1, <1>3 DEF Plus
  <2> QED
    BY <1>1, <1>3, <1>4, <1>5, <2>1, <2>2, PendingFinite
<1>7. ASSUME NEW u \in Threads, pc'[u] = "store"
      PROVE  made' = Cap \/ loaded'[u] + Cardinality(Pending') <= made'
  <2>1. u # t /\ loaded'[u] = loaded[u] /\ loaded[u] \in 0..Cap
    BY <1>2, <1>7 DEF TypeOK
  <2>2. made = Cap \/ loaded[u] + Cardinality(Pending) <= made
    BY <1>2, <1>7, <2>1 DEF Counter, Behind
  <2> QED
    BY <1>1, <1>3, <1>4, <2>1, <2>2, PendingFinite
<1>8. \A u \in Threads : pc'[u] = "trylimit" => made' >= Limit
  BY <1>1, <1>2 DEF Counter
<1>9. endTraces' > 0 => made' >= Limit
  BY <1>1 DEF Counter
<1> QED
  BY <1>6, <1>7, <1>8, <1>9 DEF Counter, Behind

\* The test of the limit, the try-lock and the load.
LEMMA CounterCheck ==
    ASSUME TypeOK, Counter, NEW t \in Threads,
           CheckLimit(t) \/ TryLimit(t) \/ LoadAccesses(t)
    PROVE  Counter'
<1> USE Marks
<1>1. UNCHANGED <<num, made, profiledAccesses>> /\ made \in 0..Cap /\ profiledAccesses \in 0..Cap
  BY DEF CheckLimit, TryLimit, LoadAccesses, threadVars, limitVars, TypeOK
<1>2. PICK to \in {"trylimit", "load", "store"} :
         pc' = [pc EXCEPT ![t] = to] /\ pc[t] \in {"limit", "trylimit", "load"}
  BY DEF CheckLimit, TryLimit, LoadAccesses, Goto
<1>3. pc'[t] = to /\ \A u \in Threads : u # t => pc'[u] = pc[u]
  BY <1>2 DEF TypeOK
<1>4. Pending' = Pending
  BY <1>1, <1>2, <1>3 DEF Pending, InCheckSkip
<1>5. made' = Cap \/ profiledAccesses' + Cardinality(Pending') <= made'
  BY <1>1, <1>4 DEF Counter, Behind
<1>6. CASE CheckLimit(t)
  <2>1. /\ to = IF profiledAccesses >= Limit THEN "trylimit" ELSE "load"
        /\ UNCHANGED <<loaded, endTraces>>
    BY <1>3, <1>6 DEF CheckLimit, Goto, threadVars, limitVars, TypeOK
  <2>2. profiledAccesses >= Limit => made >= Limit
    BY <1>1, PendingFinite DEF Counter, Behind
  <2> QED
    BY <1>1, <1>3, <1>4, <1>5, <2>1, <2>2 DEF Counter, Behind
<1>7. CASE TryLimit(t)
  <2>1. to = "load" /\ pc[t] = "trylimit" /\ UNCHANGED loaded
    BY <1>3, <1>7 DEF TryLimit, Goto, threadVars, TypeOK
  <2>2. made >= Limit
    BY <2>1 DEF Counter
  <2> QED
    BY <1>1, <1>3, <1>4, <1>5, <2>1, <2>2 DEF Counter, Behind
<1>8. CASE LoadAccesses(t)
  <2>1. to = "store" /\ loaded' = [loaded EXCEPT ![t] = profiledAccesses] /\ UNCHANGED endTraces
    BY <1>3, <1>8 DEF LoadAccesses, Goto, limitVars, TypeOK
  <2>2. /\ loaded'[t] = profiledAccesses
        /\ \A u \in Threads : u # t => loaded'[u] = loaded[u]
    BY <2>1 DEF TypeOK
  <2> QED
    BY <1>1, <1>3, <1>4, <1>5, <2>1, <2>2 DEF Counter, Behind
<1> QED BY <1>6, <1>7, <1>8

\* Every step keeps the counter behind.
LEMMA CounterStep ==
    ASSUME TypeOK, TypeOK', Books, Counter, [Next]_vars
    PROVE  Counter'
<1>1. ASSUME NEW t \in Threads,
             \/ ThreadStart(t) \/ CheckStarted(t) \/ TryStart(t) \/ StartTrace(t)
             \/ ReclaimBuffer(t) \/ ReclaimCurrent(t)
             \/ AccumulateLock(t) \/ AccumulateRead(t) \/ AccumulateAdd(t)
      PROVE  Counter'
  <2>1. UNCHANGED <<num, made, profiledAccesses, loaded, endTraces>>
    BY <1>1 DEF ThreadStart, CheckStarted, TryStart, StartTrace, ReclaimBuffer,
       ReclaimCurrent, AccumulateLock, AccumulateRead, AccumulateAdd, threadVars, limitVars
  <2>2. pc' = pc \/ \E to \in {"run", "limit", "trystart", "starting", "lock", "read", "add",
                               "dead"} :
          /\ pc' = [pc EXCEPT ![t] = to]
          /\ pc[t] \in InCheckSkip <=> to \in InCheckSkip
    BY <1>1 DEF ThreadStart, CheckStarted, TryStart, StartTrace, ReclaimBuffer,
       ReclaimCurrent, AccumulateLock, AccumulateRead, AccumulateAdd, Goto, InCheckSkip
  <2>3. Pending' = Pending
    BY <2>1, <2>2 DEF Pending, TypeOK
  <2>4. \A u \in Threads : pc'[u] \in {"store", "trylimit"} => pc'[u] = pc[u]
    BY <2>2 DEF TypeOK
  <2> QED
    BY <2>1, <2>3, <2>4, CounterQuiet
<1>2. ASSUME NEW t \in Threads, EnqueueFullAndGetNextToFill(t) PROVE Counter'
  <2>1. /\ pc[t] = "handoff" /\ num' = [num EXCEPT ![t] = 0]
        /\ UNCHANGED <<made, profiledAccesses, loaded, endTraces>>
    BY <1>2 DEF EnqueueFullAndGetNextToFill, limitVars
  <2>2. PICK to \in {"fini", "run"} : pc' = [pc EXCEPT ![t] = to]
    BY <1>2 DEF EnqueueFullAndGetNextToFill, Goto
  <2>3. pc'[t] = to /\ \A u \in Threads : u # t => pc'[u] = pc[u] /\ num'[u] = num[u]
    BY <2>1, <2>2 DEF TypeOK
  <2>4. Pending' = Pending
    BY <2>1, <2>3 DEF Pending, InCheckSkip
  <2> QED
    BY <2>1, <2>3, <2>4, CounterQuiet
<1>3. ASSUME NEW t \in Threads, BufferFull(t) \/ ExitFlush(t) PROVE Counter'
  <2>1. PICK n \in 0..1 : Callback(t, n)
    BY <1>3 DEF BufferFull, ExitFlush
  <2> QED BY <2>1, CounterCallback
<1>4. ASSUME NEW t \in Threads, ToolStep(t) PROVE Counter'
  BY <1>1, <1>2, <1>4, CounterCheck, CounterStore DEF ToolStep
<1>5. CASE EndTrace \/ AppExit \/ Fini \/ Terminated \/ UNCHANGED vars
  <2>1. UNCHANGED <<pc, num, made, profiledAccesses, loaded, endTraces>>
    BY <1>5 DEF EndTrace, EndTraceCheck, EndTraceSet, ExitApplication, AppExit, Fini,
       PrepareCheck, PrepareSet, Dump, Terminated, threadVars, limitVars, vars
  <2>2. Pending' = Pending
    BY <2>1 DEF Pending
  <2> QED
    BY <2>1, <2>2, CounterQuiet
<1> QED
  BY <1>1, <1>3, <1>4, <1>5 DEF Next

-----------------------------------------------------------------------------
(* The theorems. *)

\* The books and the counter hold in every reachable state.
THEOREM TotalsInductive == Spec => [](IndInv /\ Books /\ Counter)
<1>1. Init => Books /\ Counter
  <2> SUFFICES ASSUME Init PROVE Books /\ Counter
    OBVIOUS
  <2> USE Marks
  <2>1. \A t \in Threads : pc[t] = "new" /\ num[t] = 0 /\ elements[t] = 0 /\ statMutex # t
    BY DEF Init
  <2>2. Accesses(Owed) = {} /\ Pending = {}
    BY <2>1 DEF Accesses, Owed, Pending
  <2>3. Cardinality(Accesses(Owed)) = 0 /\ Cardinality(Pending) = 0
    BY <2>2, FS_EmptySet
  <2>4. made = 0 /\ total = 0 /\ profiledAccesses = 0 /\ endTraces = 0 /\ phase = "up"
    BY DEF Init
  <2>5. Books
    BY <2>1, <2>3, <2>4 DEF Books, Account, Plus
  <2>6. Counter
    BY <2>1, <2>3, <2>4 DEF Counter, Behind
  <2> QED BY <2>5, <2>6
<1>2. IndInv /\ IndInv' /\ Books /\ Counter /\ [Next]_vars => Books' /\ Counter'
  BY BooksStep, CounterStep DEF IndInv
<1> QED
  BY <1>1, <1>2, PinToolInductive, PTL DEF Spec

\* When Dump has run no thread holds anything back: the overall statistics are the
\* accesses of all callbacks, and every buffer went back to Pin.
LEMMA DumpedAll == IndInv /\ Books => DumpComplete
<1> SUFFICES ASSUME IndInv, Books, phase = "dumped"
             PROVE  total = made /\ \A t \in Threads : owned[t] = 0 /\ pool[t] = 0
  BY DEF DumpComplete
<1>1. \A t \in Threads : pc[t] \in {"new", "dead"}
  BY DEF Books
<1>2. \A t \in Threads : num[t] = 0 /\ elements[t] = 0
  BY <1>1 DEF Books, Account, InCheckSkip
<1>3. Accesses(Owed) = {}
  BY <1>2, Marks DEF Accesses, Owed
<1>4. made = Plus(total, 0) /\ total \in 0..Cap
  BY <1>3, FS_EmptySet DEF Books, IndInv, TypeOK
<1>5. total = made
  BY <1>4, PlusSums
<1> QED
  BY <1>1, <1>5 DEF IndInv, Pools

\* The report of Dump is complete: AccumulateAppThreadStatistics loses nothing of
\* any thread, and AllBuffersProcessed leaks no buffer.
THEOREM DumpIsComplete == Spec => []DumpComplete
  BY DumpedAll, TotalsInductive, PTL

\* A trace that its limit ended has at least that many accesses, however many
\* increments of profiledAccesses the threads lost to each other in CheckSkip.
THEOREM LimitReached == Spec => []AtLeastLimit
<1>1. IndInv /\ Books /\ Counter => AtLeastLimit
  BY DumpedAll DEF DumpComplete, Counter, AtLeastLimit
<1> QED
  BY <1>1, TotalsInductive, PTL
=============================================================================
