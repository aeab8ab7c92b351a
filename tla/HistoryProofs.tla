--------------------------- MODULE HistoryProofs ---------------------------
(***************************************************************************)
(* Theorems of Session about what a session keeps account of: the writes   *)
(* of its files, which /undo and /rewind take back, the calls that it and  *)
(* its child agents make on one budget, and what a run is told of the      *)
(* turns before it, laid out as in ToolsProofs.                            *)
(***************************************************************************)
EXTENDS SessionProofs

-----------------------------------------------------------------------------
(***************************************************************************)
(* The rewind of a session.  A file that no /rewind led astray holds the   *)
(* last of its writes that stand, those apart that a restore under way has *)
(* taken back (Left), and each of these found the file as the one before   *)
(* it left it (Accounted).  A list that nothing blocks therefore holds, of a  *)
(* file nobody writes to meanwhile, the last writes (Reversible), so that  *)
(* the action restored next is the last that is left (ListInv); and what   *)
(* is kept of a file is what /rewind found in it (FoundInv).               *)
(***************************************************************************)

LogFields == {"run", "path", "before", "after", "reversed"}
RewindFields == {"phase", "target", "list", "todo", "blocked", "originals", "raced", "found"}
RewindPhases == {"idle", "confirm", "restore", "marked", "undoing", "late"}

\* The writes of a file that nothing took back.
Writes(p) == {k \in DOMAIN log : log[k].path = p /\ ~log[k].reversed}

\* n is the last of the writes W, 0 if there are none.
IsLast(n, W) == (n = 0 /\ W = {}) \/ (n \in W /\ \A k \in W : k <= n)

LogTypes ==
  /\ IsSequence(log) /\ DOMAIN onDisk = Path
  /\ \A k \in DOMAIN log :
       /\ DOMAIN log[k] = LogFields /\ log[k].run \in Nat
       /\ log[k].path \in Path \cup {"command"} /\ log[k].reversed \in BOOLEAN
       /\ log[k].path \in Path => log[k].after = k

\* What a derived session is cut by: every agent run has a message.
Derivable ==
  /\ IsSequence(turnRuns) /\ IsSequence(history) /\ summary \in Nat
  /\ \A r \in DOMAIN turnRuns :
       /\ DOMAIN turnRuns[r] = {"kind", "status"}
       /\ turnRuns[r].kind = "agent" => \E m \in DOMAIN history : history[m] = r
  /\ DOMAIN child = {"upto", "summary"}
  /\ child.upto \in Nat /\ child.summary \in Nat /\ child.summary <= child.upto
  /\ DOMAIN rw = RewindFields /\ rw.phase \in RewindPhases
  /\ rw.phase = "confirm" =>
       rw.target \in DOMAIN turnRuns /\ turnRuns[rw.target].kind = "agent"

Descends(l) == l \in Seq(Nat) /\ \A i, j \in DOMAIN l : i < j => l[j] < l[i]

Elements(l) == {l[i] : i \in DOMAIN l}

\* The actions of the list that have been taken back, and those of them whose
\* files have not been put back.
Restored == Elements(rw.list) \ Elements(rw.todo)
Undone == {d \in Restored : log[d].path \in Rewind!Touched}

Left(p) == Writes(p) \ Undone

\* Each of the writes W found what the last one before it left.
Chained(W) == \A k \in W : IsLast(log[k].before, {j \in W : j < k})

Accounted(p) == IsLast(onDisk[p], Left(p)) /\ Chained(Left(p))

\* The list has of the file p the last writes, if any.
Reversible(p) == \A k \in Elements(rw.list) : log[k].path = p =>
  /\ ~log[k].reversed
  /\ \A j \in Writes(p) : j > k => j \in Elements(rw.list)

Quiet == Path \ (astray \cup rw.raced)

DiskInv == \A p \in Path \ astray : Accounted(p)

OfFiles == \A k \in Elements(rw.list) : k \in DOMAIN log /\ log[k].path \in Path

ListInv ==
  /\ rw.phase \in {"idle", "confirm"} => rw.originals = {}
  /\ rw.phase = "confirm" /\ ~rw.blocked =>
       /\ Descends(rw.list) /\ rw.todo = rw.list /\ OfFiles
       /\ \A p \in Quiet : Reversible(p)
  /\ rw.phase = "restore" =>
       /\ Descends(rw.todo) /\ Elements(rw.todo) \subseteq Elements(rw.list)
       /\ \A d \in Restored, u \in Elements(rw.todo) : u < d
       /\ \A d \in Restored : log[d].path \in Rewind!Touched
       /\ \A p \in Quiet : Reversible(p)
  /\ rw.phase \in {"restore", "undoing"} =>
       \A p \in Quiet : /\ Chained(Writes(p))
                        /\ \A o \in rw.originals : o.path = p => IsLast(o.content, Writes(p))
  /\ rw.phase \in {"restore", "undoing", "marked", "late"} => OfFiles
  /\ rw.phase \in {"marked", "late"} => \A d \in Elements(rw.list) : log[d].reversed

FoundInv ==
  /\ \A o, q \in rw.originals : o.path = q.path => o = q
  /\ \A o \in rw.originals : o.path \in Path
  /\ rw.phase # "idle" => \A p \in Path \ rw.raced :
       /\ \A o \in rw.originals : o.path = p => o.content = rw.found[p]
       /\ p \notin Rewind!Touched => onDisk[p] = rw.found[p]

\* Max and Min of a set of positions.
LEMMA LastAndFirst ==
  ASSUME NEW n \in Nat, NEW S \in SUBSET (1 .. n), S # {}
  PROVE  /\ Rewind!Max(S) \in S /\ \A y \in S : y <= Rewind!Max(S)
         /\ Rewind!Min(S) \in S /\ \A y \in S : Rewind!Min(S) <= y
<1>1. \E x \in S : \A y \in S : x >= y
  BY LastPosition
<1>2. \E x \in S : \A y \in S : x <= y
  <2> DEFINE T == {n + 1 - x : x \in S}
  <2>0. \A x \in S : x \in 1 .. n
    OBVIOUS
  <2>1. T \in SUBSET (1 .. n) /\ T # {}
    <3>1. \A x \in S : n + 1 - x \in 1 .. n
      BY <2>0
    <3> QED BY <3>1
  <2>2. PICK m \in T : \A y \in T : y <= m
    BY <2>1, LastPosition
  <2>3. PICK x \in S : m = n + 1 - x
    OBVIOUS
  <2>4. ASSUME NEW y \in S PROVE x <= y
    <3>1. n + 1 - y \in T
      OBVIOUS
    <3>2. n + 1 - y <= n + 1 - x
      BY <2>2, <2>3, <3>1
    <3> HIDE DEF T
    <3>3. x \in 1 .. n /\ y \in 1 .. n
      OBVIOUS
    <3> QED BY <3>2, <3>3
  <2> QED BY <2>4
<1>3. Rewind!Max(S) \in S /\ \A y \in S : Rewind!Max(S) >= y
  BY <1>1 DEF Rewind!Max
<1>4. Rewind!Min(S) \in S /\ \A y \in S : Rewind!Min(S) <= y
  BY <1>2 DEF Rewind!Min
<1> QED BY <1>3, <1>4

\* The sizes that Rewind speaks of are those of the library.
LEMMA RewindSize == \A S : Rewind!Cardinality(S) = Cardinality(S)
BY DEF Rewind!Cardinality, Cardinality

Above(S, k) == {j \in S : j > k}

\* How many are above tells the members of a set of positions apart.
LEMMA AboveLess ==
  ASSUME NEW n \in Nat, NEW S \in SUBSET (1 .. n), NEW k \in S, NEW m \in S, k < m
  PROVE  Cardinality(Above(S, m)) < Cardinality(Above(S, k))
<1>1. IsFiniteSet(S)
  BY FS_Interval, FS_Subset, 1 \in Int, n \in Int
<1>n. \A x \in S : x \in Nat
  OBVIOUS
<1>2. Above(S, m) \in SUBSET Above(S, k) /\ m \in Above(S, k) \ Above(S, m)
  <2>1. k \in Nat /\ m \in Nat
    BY <1>n
  <2>2. \A j \in S : j > m => j > k
    BY <1>n, <2>1
  <2>3. m > k /\ ~(m > m)
    BY <2>1
  <2> QED BY <2>2, <2>3 DEF Above
<1>3. IsFiniteSet(Above(S, k))
  BY <1>1, FS_Subset DEF Above
<1>4. /\ Cardinality(Above(S, m)) <= Cardinality(Above(S, k))
      /\ Cardinality(Above(S, m)) # Cardinality(Above(S, k))
      /\ Cardinality(Above(S, m)) \in Nat /\ Cardinality(Above(S, k)) \in Nat
  BY <1>2, <1>3, FS_Subset, FS_CardinalityType
<1> QED BY <1>4

\* A member with i - 1 above it, for every i up to the size.
LEMMA Ranked ==
  ASSUME NEW n \in Nat, NEW S \in SUBSET (1 .. n), NEW i \in 1 .. Cardinality(S)
  PROVE  \E k \in S : Cardinality(Above(S, k)) = i - 1
<1>0. IsFiniteSet(S) /\ Cardinality(S) \in Nat
  BY FS_Interval, FS_Subset, FS_CardinalityType, 1 \in Int, n \in Int
<1>n. \A x \in S : x \in Nat
  OBVIOUS
<1> DEFINE R == OpToRel(<, Nat)
           Bad == {m \in 1 .. Cardinality(S) : ~\E k \in S : Cardinality(Above(S, k)) = m - 1}
<1> SUFFICES ASSUME Bad # {} PROVE FALSE
  OBVIOUS
<1>1. Bad \subseteq Nat
  BY <1>0
<1>2. PICK m \in Bad : \A y \in Bad : ~(<<y, m>> \in R)
  BY <1>1, WFMin, NatLessThanWellFounded
<1>3. ASSUME NEW y \in Bad PROVE ~(y < m)
  BY <1>1, <1>2 DEF OpToRel
<1>4. m \in 1 .. Cardinality(S) /\ ~\E k \in S : Cardinality(Above(S, k)) = m - 1
  OBVIOUS
<1>5. CASE m = 1
  <2>1. S # {}
    BY <1>0, <1>4, FS_EmptySet
  <2>2. PICK k \in S : \A y \in S : y <= k
    BY <2>1, LastPosition
  <2>3. Above(S, k) = {}
    <3>1. \A j \in S : ~(j > k)
      BY <1>n, <2>2
    <3> QED BY <3>1 DEF Above
  <2> QED BY <1>4, <1>5, <2>3, FS_EmptySet
<1>6. CASE m # 1
  <2>1. m - 1 \in 1 .. Cardinality(S) /\ m - 1 < m
    BY <1>0, <1>4, <1>6
  <2>2. m - 1 \notin Bad
    BY <1>3, <2>1
  <2>3. PICK k \in S : Cardinality(Above(S, k)) = (m - 1) - 1
    BY <2>1, <2>2
  <2> DEFINE U == {j \in S : j < k}
  <2>4. Above(S, k) \cup {k} \subseteq S /\ IsFiniteSet(Above(S, k)) /\ k \notin Above(S, k)
    BY <1>0, FS_Subset DEF Above
  <2>5. Cardinality(Above(S, k) \cup {k}) = m - 1
    <3>1. Cardinality(Above(S, k) \cup {k}) = Cardinality(Above(S, k)) + 1
      BY <2>4, FS_AddElement
    <3> QED BY <1>1, <2>3, <3>1
  <2>6. S # Above(S, k) \cup {k}
    <3>1. m - 1 # Cardinality(S)
      BY <1>0, <1>4
    <3> QED BY <2>5, <3>1
  <2>7. U # {}
    <3>1. PICK j \in S : j \notin Above(S, k) \cup {k}
      BY <2>4, <2>6
    <3>2. j < k
      BY <1>n, <3>1 DEF Above
    <3> QED BY <3>2
  <2>8. PICK u \in U : \A y \in U : y <= u
    <3>1. U \in SUBSET (1 .. n)
      OBVIOUS
    <3> QED BY <2>7, <3>1, LastPosition
  <2>9. Above(S, u) = Above(S, k) \cup {k}
    <3>1. u \in S /\ u < k /\ \A y \in S : y < k => y <= u
      BY <2>8
    <3> HIDE DEF U
    <3>2. \A j \in S : j > u <=> (j > k \/ j = k)
      BY <1>n, <3>1
    <3> QED BY <1>n, <3>2 DEF Above
  <2> QED BY <1>4, <2>5, <2>8, <2>9
<1> QED BY <1>5, <1>6

\* sorted(reverse=True): the list of a set, the last one first.
LEMMA DescendingLists ==
  ASSUME NEW n \in Nat, NEW S \in SUBSET (1 .. n)
  PROVE  Descends(Rewind!Descending(S)) /\ Elements(Rewind!Descending(S)) = S
<1> DEFINE N == Cardinality(S)
           l == Rewind!Descending(S)
<1>0. IsFiniteSet(S) /\ N \in Nat
  BY FS_Interval, FS_Subset, FS_CardinalityType, 1 \in Int, n \in Int
<1>n. \A x \in S : x \in Nat
  OBVIOUS
<1>1. /\ DOMAIN l = 1 .. N
      /\ \A i \in 1 .. N : l[i] = CHOOSE k \in S : Cardinality(Above(S, k)) = i - 1
      /\ l = [i \in DOMAIN l |-> l[i]]
  <2>1. \A k \in S : Rewind!Cardinality({j \in S : j > k}) = Cardinality(Above(S, k))
    BY RewindSize DEF Above
  <2>2. \A i : (CHOOSE k \in S : Rewind!Cardinality({j \in S : j > k}) = i - 1)
               = CHOOSE k \in S : Cardinality(Above(S, k)) = i - 1
    BY <2>1, Zenon
  <2>3. Rewind!Cardinality(S) = N
    BY RewindSize
  <2> DEFINE E(i) == CHOOSE k \in S : Rewind!Cardinality({j \in S : j > k}) = i - 1
  <2>4. l = [i \in 1 .. N |-> E(i)]
    BY <2>3, Zenon DEF Rewind!Descending
  <2>5. \A i : E(i) = CHOOSE k \in S : Cardinality(Above(S, k)) = i - 1
    BY <2>2
  <2> HIDE DEF l, N, E
  <2>6. DOMAIN l = 1 .. N /\ (\A i \in 1 .. N : l[i] = E(i)) /\ l = [i \in DOMAIN l |-> l[i]]
    BY <2>4
  <2> QED BY <2>5, <2>6, Zenon
<1>2. ASSUME NEW i \in 1 .. N PROVE l[i] \in S /\ Cardinality(Above(S, l[i])) = i - 1
  <2>1. \E k \in S : Cardinality(Above(S, k)) = i - 1
    BY Ranked
  <2>2. l[i] = CHOOSE k \in S : Cardinality(Above(S, k)) = i - 1
    BY <1>1
  <2> HIDE DEF l
  <2> QED BY <2>1, <2>2
<1>3. DOMAIN l = 1 .. N /\ l \in [1 .. N -> Nat]
  <2>1. \A i \in 1 .. N : l[i] \in Nat
    <3> SUFFICES ASSUME NEW i \in 1 .. N PROVE l[i] \in Nat
      OBVIOUS
    <3>1. l[i] \in S
      BY <1>2
    <3> HIDE DEF l
    <3> QED BY <1>n, <3>1
  <2> HIDE DEF N
  <2> QED BY <1>1, <2>1
<1> HIDE DEF l, N
<1>4. l \in Seq(Nat)
  BY <1>0, <1>3, SeqDef
<1>5. ASSUME NEW i \in 1 .. N, NEW j \in 1 .. N, i < j PROVE l[j] < l[i]
  <2>1. /\ l[i] \in S /\ l[j] \in S /\ l[i] \in Nat /\ l[j] \in Nat
        /\ Cardinality(Above(S, l[i])) = i - 1 /\ Cardinality(Above(S, l[j])) = j - 1
    BY <1>2, <1>n
  <2>2. l[i] # l[j]
    BY <1>0, <1>5, <2>1
  <2>3. ~(l[i] < l[j])
    <3>1. l[i] < l[j] => j - 1 < i - 1
      BY <2>1, AboveLess
    <3> QED BY <1>0, <1>5, <3>1
  <2> QED BY <2>1, <2>2, <2>3
<1>6. ASSUME NEW k \in S PROVE \E i \in 1 .. N : l[i] = k
  <2> DEFINE i == Cardinality(Above(S, k)) + 1
  <2>1. i \in 1 .. N
    <3>1. Above(S, k) \in SUBSET (S \ {k}) /\ IsFiniteSet(S \ {k}) /\ Cardinality(S \ {k}) = N - 1
      BY <1>0, FS_RemoveElement DEF Above, N
    <3>2. Cardinality(Above(S, k)) <= N - 1 /\ Cardinality(Above(S, k)) \in Nat
      BY <3>1, FS_Subset, FS_CardinalityType
    <3> QED BY <1>0, <3>2
  <2>2. l[i] \in S /\ Cardinality(Above(S, l[i])) = i - 1
    BY <1>2, <2>1
  <2>3. i - 1 = Cardinality(Above(S, k)) /\ i - 1 \in Nat
    <3>1. Cardinality(Above(S, k)) \in Nat
      BY <1>0, FS_Subset, FS_CardinalityType DEF Above
    <3> QED BY <3>1
  <2>4. ~(l[i] < k) /\ ~(k < l[i])
    <3>1. l[i] < k => Cardinality(Above(S, k)) < Cardinality(Above(S, l[i]))
      BY <2>2, AboveLess
    <3>2. k < l[i] => Cardinality(Above(S, l[i])) < Cardinality(Above(S, k))
      BY <2>2, AboveLess
    <3> HIDE DEF i
    <3> QED BY <2>2, <2>3, <3>1, <3>2
  <2>5. l[i] \in Nat /\ k \in Nat
    <3> HIDE DEF i
    <3> QED BY <1>n, <2>2
  <2>6. l[i] = k
    BY <2>4, <2>5
  <2> QED BY <2>1, <2>6
<1> QED BY <1>2, <1>3, <1>4, <1>5, <1>6 DEF Descends, Elements, l

\* Writes are positions of the log.
LEMMA WritesArePositions ==
  ASSUME LogTypes, NEW p
  PROVE  /\ Len(log) \in Nat /\ DOMAIN log = 1 .. Len(log)
         /\ Writes(p) \in SUBSET (1 .. Len(log)) /\ \A k \in Writes(p) : k \in Nat
<1>1. Len(log) \in Nat /\ DOMAIN log = 1 .. Len(log)
  BY Appended DEF LogTypes
<1>2. Writes(p) \in SUBSET (1 .. Len(log))
  BY <1>1 DEF Writes
<1>3. \A k \in 1 .. Len(log) : k \in Nat
  BY <1>1
<1> QED BY <1>1, <1>2, <1>3

\* What the records say a file holds is its last write that stands.
LEMMA RecordsTell ==
  ASSUME LogTypes, NEW p \in Path, NEW n, IsLast(n, Writes(p))
  PROVE  Rewind!LastKept(p) = n
<1>1. {k \in DOMAIN log : log[k].path = p /\ ~log[k].reversed} = Writes(p)
  BY DEF Writes
<1>2. CASE Writes(p) = {}
  BY <1>1, <1>2 DEF Rewind!LastKept, IsLast
<1>3. CASE Writes(p) # {}
  <2> DEFINE m == Rewind!Max(Writes(p))
  <2>1. /\ Len(log) \in Nat /\ Writes(p) \in SUBSET (1 .. Len(log))
        /\ \A k \in Writes(p) : k \in Nat
    BY WritesArePositions
  <2>2. m \in Writes(p) /\ \A y \in Writes(p) : y <= m
    BY <1>3, <2>1, LastAndFirst
  <2>3. n \in Writes(p) /\ \A y \in Writes(p) : y <= n
    BY <1>3 DEF IsLast
  <2> HIDE DEF m
  <2>4. m = n
    BY <2>1, <2>2, <2>3
  <2>5. log[n].after = n
    BY <2>3 DEF LogTypes, Writes
  <2>6. Rewind!LastKept(p) = log[m].after
    BY <1>1, <1>3 DEF Rewind!LastKept, m
  <2> QED BY <2>4, <2>5, <2>6
<1> QED BY <1>2, <1>3

\* A new entry of the log.
LEMMA LogGrows ==
  ASSUME LogTypes, NEW e, log' = Append(log, e)
  PROVE  /\ IsSequence(log') /\ DOMAIN log' = 1 .. (Len(log) + 1)
         /\ DOMAIN log = 1 .. Len(log) /\ Len(log) \in Nat
         /\ log'[Len(log) + 1] = e /\ \A k \in DOMAIN log : log'[k] = log[k]
         /\ \A p : Writes(p)' = Writes(p) \cup
              IF e.path = p /\ ~e.reversed THEN {Len(log) + 1} ELSE {}
<1>1. /\ IsSequence(log') /\ DOMAIN log' = 1 .. (Len(log) + 1)
      /\ DOMAIN log = 1 .. Len(log) /\ Len(log) \in Nat
      /\ log'[Len(log) + 1] = e /\ \A k \in DOMAIN log : log'[k] = log[k]
  BY Appended DEF LogTypes
<1>2. DOMAIN log' = DOMAIN log \cup {Len(log) + 1} /\ Len(log) + 1 \notin DOMAIN log
  BY <1>1
<1>3. ASSUME NEW p
      PROVE  Writes(p)' = Writes(p) \cup
               IF e.path = p /\ ~e.reversed THEN {Len(log) + 1} ELSE {}
  BY <1>1, <1>2 DEF Writes
<1> QED BY <1>1, <1>3

\* Blockers: without one, an action on a file that nothing led astray is taken
\* back only with those after it.
LEMMA UnblockedIsReversible ==
  ASSUME LogTypes, NEW S \in SUBSET (DOMAIN log), \A k \in S : ~log[k].reversed,
         ~Rewind!Blockers(S), NEW p \in Path,
         IsLast(onDisk[p], Writes(p)), Chained(Writes(p))
  PROVE  \A k \in S : log[k].path = p => \A j \in Writes(p) : j > k => j \in S
<1>0. Len(log) \in Nat /\ DOMAIN log = 1 .. Len(log) /\ \A k \in Writes(p) : k \in Nat
  BY WritesArePositions
<1>1. ASSUME NEW k \in S, log[k].path = p
      PROVE  /\ k \in Nat /\ k \in Writes(p) /\ Rewind!Simulated(S, k) = k
  <2>1. Rewind!Simulated(S, k) = log[k].after
    BY DEF Rewind!Blockers, Rewind!Conflict
  <2>2. log[k].after = k
    BY <1>1 DEF LogTypes
  <2>3. k \in Nat
    BY <1>0
  <2> QED BY <1>1, <2>1, <2>2, <2>3 DEF Writes
<1> DEFINE Skips(k) == {j \in Writes(p) : j > k /\ j \notin S}
           Bad == {k \in S : log[k].path = p /\ Skips(k) # {}}
<1>2. CASE Bad # {}
  <2>1. Bad \in SUBSET (1 .. Len(log))
    BY <1>0
  <2>2. PICK k \in Bad : \A y \in Bad : y <= k
    BY <1>0, <1>2, <2>1, LastPosition
  <2> DEFINE after == {i \in S : i > k /\ log[i].path = p}
  <2>3. PICK j \in Writes(p) : j > k /\ j \notin S
    OBVIOUS
  <2>4. k \in S /\ log[k].path = p /\ j \in Nat /\ k \in Nat /\ Rewind!Simulated(S, k) = k
    BY <1>0, <1>1
  <2>5. CASE after = {}
    <3>1. Rewind!Simulated(S, k) = onDisk[p]
      BY <2>4, <2>5 DEF Rewind!Simulated
    <3>2. IsLast(k, Writes(p))
      BY <2>4, <3>1
    <3> QED BY <2>3, <2>4, <3>2 DEF IsLast
  <2>6. CASE after # {}
    <3> DEFINE m == Rewind!Min(after)
    <3>1. Rewind!Simulated(S, k) = log[m].before
      BY <2>4, <2>6 DEF Rewind!Simulated
    <3>2. after \in SUBSET (1 .. Len(log))
      BY <1>0
    <3>3. m \in after
      BY <1>0, <2>6, <3>2, LastAndFirst
    <3> HIDE DEF m
    <3>4. m \in S /\ m > k /\ log[m].path = p /\ m \in Nat /\ m \in Writes(p)
      BY <1>1, <3>3
    <3>5. IsLast(k, {i \in Writes(p) : i < m})
      BY <2>4, <3>1, <3>4 DEF Chained
    <3>6. ~(j < m)
      <4>1. j < m => j \in {i \in Writes(p) : i < m}
        BY <2>3
      <4> QED BY <2>3, <2>4, <3>4, <3>5, <4>1 DEF IsLast
    <3>7. j > m
      BY <2>3, <2>4, <3>4, <3>6
    <3>8. m \in Bad
      BY <2>3, <3>4, <3>7
    <3>9. m <= k
      BY <2>2, <3>8
    <3> QED BY <2>4, <3>4, <3>9
  <2> QED BY <2>5, <2>6
<1>3. CASE Bad = {}
  BY <1>3
<1> QED BY <1>2, <1>3

\* Outside a restore and its compensation nothing that stands is undone.
LEMMA AllIsLeft ==
  ASSUME ListInv, rw.phase \in {"idle", "confirm", "marked", "late"}, NEW p
  PROVE  Left(p) = Writes(p)
<1>1. CASE rw.phase \in {"idle", "confirm"}
  BY <1>1 DEF ListInv, Left, Undone, Rewind!Touched
<1>2. CASE rw.phase \in {"marked", "late"}
  <2>1. \A d \in Undone : log[d].reversed
    BY <1>2 DEF ListInv, Undone, Restored
  <2> QED BY <2>1 DEF Left, Writes
<1> QED BY <1>1, <1>2

\* A file that is not touched has all its writes left.
LEMMA UntouchedIsLeft ==
  ASSUME NEW p, p \notin Rewind!Touched
  PROVE  Left(p) = Writes(p)
BY DEF Left, Writes, Undone

\* What is undone is on the log.
LEMMA UndoneIsLogged ==
  ASSUME ListInv, rw.phase \in RewindPhases
  PROVE  \A d \in Undone : d \in DOMAIN log
<1>1. CASE rw.phase \in {"idle", "confirm"}
  BY <1>1 DEF ListInv, Undone, Rewind!Touched
<1>2. CASE rw.phase \in {"restore", "undoing", "marked", "late"}
  BY <1>2 DEF ListInv, Undone, Restored, OfFiles
<1> QED BY <1>1, <1>2 DEF RewindPhases

\* A file whose content and whose writes that are left stay the same.
LEMMA StandsOn ==
  ASSUME NEW p, Accounted(p), Left(p)' = Left(p), onDisk'[p] = onDisk[p],
         \A k \in Left(p) : log'[k].before = log[k].before
  PROVE  Accounted(p)'
<1> DEFINE W == Left(p)
<1>1. IsLast(onDisk[p], W) /\ \A k \in W : IsLast(log[k].before, {j \in W : j < k})
  BY DEF Accounted, Chained
<1>2. Left(p)' = W /\ \A k \in W : log'[k].before = log[k].before
  OBVIOUS
<1> HIDE DEF W
<1>4. \A k \in W : IsLast(log'[k].before, {j \in W : j < k})
  BY <1>1, <1>2
<1> QED BY <1>1, <1>2, <1>4 DEF Accounted, Chained

\* A file whose content and writes are told anew.
LEMMA StandsAnew ==
  ASSUME NEW p, NEW W, Left(p)' = W, IsLast(onDisk'[p], W),
         \A k \in W : IsLast(log'[k].before, {j \in W : j < k})
  PROVE  Accounted(p)'
BY DEF Accounted, Chained

\* A log that grows, a rewind that goes on beside it.
LEMMA ListGrows ==
  ASSUME ListInv, rw.phase \in RewindPhases,
         \A k \in DOMAIN log : k \in DOMAIN log' /\ log'[k] = log[k],
         astray' = astray, rw.raced \subseteq rw'.raced,
         /\ rw'.phase = rw.phase /\ rw'.list = rw.list /\ rw'.todo = rw.todo
         /\ rw'.blocked = rw.blocked /\ rw'.originals = rw.originals,
         \A q \in Path \ rw'.raced : rw.phase = "idle" \/ Writes(q)' = Writes(q)
  PROVE  ListInv' /\ Undone' = Undone
<1>1. /\ Elements(rw.list)' = Elements(rw.list) /\ Elements(rw.todo)' = Elements(rw.todo)
      /\ Restored' = Restored /\ Rewind!Touched' = Rewind!Touched
  BY DEF Elements, Restored, Rewind!Touched
<1>2. Quiet' \subseteq Quiet /\ \A q \in Quiet' : q \in Path \ rw'.raced
  BY DEF Quiet
<1>3. OfFiles => /\ OfFiles'
                 /\ \A d \in Elements(rw.list) : d \in DOMAIN log /\ log'[d] = log[d]
  BY <1>1 DEF OfFiles
<1>4. ASSUME OfFiles, rw.phase # "idle", NEW p \in Quiet', Reversible(p) PROVE Reversible(p)'
  <2>1. Writes(p)' = Writes(p)
    BY <1>2, <1>4
  <2> QED BY <1>1, <1>3, <1>4, <2>1 DEF Reversible
<1>5. ASSUME rw.phase # "idle", NEW p \in Quiet', Chained(Writes(p)),
             \A o \in rw.originals : o.path = p => IsLast(o.content, Writes(p))
      PROVE  /\ Chained(Writes(p))'
             /\ \A o \in rw'.originals : o.path = p => IsLast(o.content, Writes(p)')
  <2>1. Writes(p)' = Writes(p)
    BY <1>2, <1>5
  <2>2. \A k \in Writes(p) : log'[k] = log[k]
    BY DEF Writes
  <2> QED BY <1>5, <2>1, <2>2 DEF Chained
<1>6. CASE rw.phase = "idle"
  BY <1>1, <1>6 DEF ListInv, Undone, Rewind!Touched
<1>7. CASE rw.phase = "confirm"
  <2>1. Undone = {} /\ Undone' = {}
    BY <1>1, <1>7 DEF ListInv, Undone, Rewind!Touched
  <2>2. ASSUME ~rw.blocked
        PROVE  Descends(rw.list)' /\ OfFiles' /\ \A p \in Quiet' : Reversible(p)'
    <3>1. Descends(rw.list) /\ OfFiles /\ \A p \in Quiet : Reversible(p)
      BY <1>7, <2>2 DEF ListInv
    <3>2. Descends(rw.list)'
      BY <3>1 DEF Descends
    <3>3. \A p \in Quiet' : Reversible(p)'
      BY <1>2, <1>4, <1>7, <3>1
    <3> QED BY <1>3, <3>1, <3>2, <3>3
  <2> QED BY <1>7, <2>1, <2>2 DEF ListInv
<1>8. CASE rw.phase \in {"restore", "undoing", "marked", "late"}
  <2>1. OfFiles /\ OfFiles'
    BY <1>3, <1>8 DEF ListInv
  <2>2. \A d \in Elements(rw.list) : log'[d] = log[d]
    BY <1>3, <2>1
  <2>3. Undone' = Undone
    BY <1>1, <2>2 DEF Undone, Restored
  <2>4. ASSUME rw.phase = "restore"
        PROVE  /\ Descends(rw.todo)' /\ \A d \in Restored : log'[d].path \in Rewind!Touched
               /\ \A p \in Quiet' : Reversible(p)'
    <3>1. /\ Descends(rw.todo) /\ \A p \in Quiet : Reversible(p)
          /\ \A d \in Restored : log[d].path \in Rewind!Touched
      BY <2>4 DEF ListInv
    <3>2. Descends(rw.todo)'
      BY <3>1 DEF Descends
    <3>3. \A p \in Quiet' : Reversible(p)'
      BY <1>2, <1>4, <2>1, <2>4, <3>1
    <3> QED BY <2>2, <3>1, <3>2, <3>3 DEF Restored
  <2>5. ASSUME rw.phase \in {"restore", "undoing"}, NEW p \in Quiet'
        PROVE  /\ Chained(Writes(p))'
               /\ \A o \in rw'.originals : o.path = p => IsLast(o.content, Writes(p)')
    BY <1>2, <1>5, <2>5 DEF ListInv
  <2>6. rw.phase \in {"marked", "late"} => \A d \in Elements(rw.list) : log'[d].reversed
    BY <2>2 DEF ListInv
  <2>7. rw.phase = "restore" =>
          /\ Elements(rw.todo) \subseteq Elements(rw.list)
          /\ \A d \in Restored, u \in Elements(rw.todo) : u < d
    BY DEF ListInv
  <2>8. (rw.phase \in {"restore", "undoing"} => \A p \in Quiet :
          /\ Chained(Writes(p))
          /\ \A o \in rw.originals : o.path = p => IsLast(o.content, Writes(p)))'
    BY <2>5 DEF IsLast
  <2> QED BY <1>1, <1>8, <2>1, <2>3, <2>4, <2>6, <2>7, <2>8 DEF ListInv
<1> QED BY <1>6, <1>7, <1>8 DEF RewindPhases

HistoryInv == LogTypes /\ DiskInv /\ ListInv /\ FoundInv

\* Steps that leave files, log and the rewind alone.
LEMMA DiskFrame ==
  ASSUME HistoryInv, UNCHANGED <<log, onDisk, astray, rw>>
  PROVE  HistoryInv'
<1>1. LogTypes'
  BY DEF HistoryInv, LogTypes
<1>2. /\ Elements(rw.list)' = Elements(rw.list) /\ Elements(rw.todo)' = Elements(rw.todo)
      /\ Rewind!Touched' = Rewind!Touched /\ Quiet' = Quiet
      /\ \A p : Writes(p)' = Writes(p)
  BY DEF Elements, Rewind!Touched, Quiet, Writes
<1>3. Restored' = Restored /\ Undone' = Undone
  BY <1>2 DEF Restored, Undone
<1>4. DiskInv'
  <2>1. ASSUME NEW p \in Path \ astray PROVE Accounted(p)'
    BY <1>2, <1>3, StandsOn DEF HistoryInv, DiskInv, Left
  <2> QED BY <2>1 DEF DiskInv
<1>5. FoundInv'
  BY <1>2 DEF HistoryInv, FoundInv
<1>6. OfFiles' <=> OfFiles
  BY <1>2 DEF OfFiles
<1>7. \A p : (Reversible(p)' <=> Reversible(p)) /\ (Chained(Writes(p))' <=> Chained(Writes(p)))
  BY <1>2 DEF Reversible, Chained, IsLast
<1>8. Descends(rw.list)' <=> Descends(rw.list)
  BY DEF Descends
<1>9. Descends(rw.todo)' <=> Descends(rw.todo)
  BY DEF Descends
<1>10. ListInv'
  BY <1>2, <1>3, <1>6, <1>7, <1>8, <1>9 DEF HistoryInv, ListInv, IsLast
<1> QED BY <1>1, <1>4, <1>5, <1>10 DEF HistoryInv

\* The end of a /rewind, however it ends, when what it left half way counts as
\* astray.
LEMMA RewindEnds ==
  ASSUME HistoryInv, rw.phase \in RewindPhases, UNCHANGED <<onDisk, log>>,
         rw' = Rewind!NoRewind, astray \subseteq astray',
         rw.phase \in {"restore", "undoing"} => Rewind!Touched \subseteq astray'
  PROVE  HistoryInv'
<1>1. LogTypes'
  BY DEF HistoryInv, LogTypes
<1>2. rw'.phase = "idle" /\ rw'.originals = {}
  BY DEF Rewind!NoRewind
<1>3. ListInv' /\ FoundInv'
  BY <1>2 DEF ListInv, FoundInv
<1>4. Undone' = {}
  BY <1>2 DEF Undone, Rewind!Touched
<1>5. ASSUME NEW p \in Path \ astray' PROVE Accounted(p)'
  <2>1. Accounted(p)
    BY <1>5 DEF HistoryInv, DiskInv
  <2>2. Left(p) = Writes(p)
    <3>1. CASE rw.phase \in {"restore", "undoing"}
      BY <1>5, <3>1, UntouchedIsLeft
    <3>2. CASE rw.phase \in {"idle", "confirm", "marked", "late"}
      BY <3>2, AllIsLeft DEF HistoryInv
    <3> QED BY <3>1, <3>2 DEF RewindPhases
  <2>3. Left(p)' = Writes(p)
    <3>1. Writes(p)' = Writes(p)
      BY DEF Writes
    <3> QED BY <1>4, <3>1 DEF Left
  <2> QED BY <2>1, <2>2, <2>3, StandsOn
<1> QED BY <1>1, <1>3, <1>5 DEF HistoryInv, DiskInv

\* A write is the last of its file, whatever a /rewind does meanwhile.
LEMMA WriteKeeps ==
  ASSUME HistoryInv, Derivable, NEW r \in DOMAIN turnRuns \cup {0}, NEW p \in Path,
         Path \cap {"command"} = {}, Rewind!Write(r, p)
  PROVE  HistoryInv'
<1> DEFINE n == Len(log) + 1
           e == [run |-> r, path |-> p, before |-> onDisk[p], after |-> n, reversed |-> FALSE]
<1>0. DOMAIN rw = RewindFields /\ rw.phase \in RewindPhases /\ LogTypes
  BY DEF Derivable, HistoryInv
<1>1. /\ log' = Append(log, e) /\ onDisk' = [onDisk EXCEPT ![p] = n] /\ astray' = astray
      /\ rw' = IF rw.phase = "idle" THEN rw ELSE [rw EXCEPT !.raced = @ \cup {p}]
  BY DEF Rewind!Write, Rewind!Idle
<1>2. /\ IsSequence(log') /\ DOMAIN log' = 1 .. n /\ Len(log) \in Nat
      /\ DOMAIN log = 1 .. Len(log) /\ log'[n] = e
      /\ \A k \in DOMAIN log : log'[k] = log[k]
      /\ \A q : Writes(q)' = Writes(q) \cup IF e.path = q /\ ~e.reversed THEN {n} ELSE {}
  BY <1>0, <1>1, LogGrows
<1>3. /\ DOMAIN e = LogFields /\ e.run \in Nat /\ e.path = p /\ e.reversed = FALSE
      /\ e.after = n /\ e.before = onDisk[p]
  <2>1. r \in Nat
    <3>1. IsSequence(turnRuns)
      BY DEF Derivable
    <3>2. DOMAIN turnRuns = 1 .. Len(turnRuns) /\ Len(turnRuns) \in Nat
      BY <3>1, Appended
    <3> QED BY <3>2
  <2> QED BY <2>1 DEF LogFields
<1>4. n \in Nat /\ \A k \in DOMAIN log' : k = n \/ k \in DOMAIN log
  BY <1>2
<1>n. \A q : \A k \in Writes(q) : k \in Nat /\ k < n
  <2>1. \A q : \A k \in Writes(q) : k \in 1 .. Len(log)
    BY <1>0, WritesArePositions
  <2> QED BY <1>2, <2>1
<1>m. \A k \in DOMAIN log : k \in DOMAIN log'
  BY <1>2
<1> HIDE DEF n, e
<1>5. LogTypes'
  <2>1. \A k \in DOMAIN log' :
          /\ DOMAIN log'[k] = LogFields /\ log'[k].run \in Nat
          /\ log'[k].path \in Path \cup {"command"} /\ log'[k].reversed \in BOOLEAN
          /\ log'[k].path \in Path => log'[k].after = k
    BY <1>0, <1>2, <1>3, <1>4 DEF LogTypes
  <2>2. DOMAIN onDisk' = Path
    BY <1>0, <1>1 DEF LogTypes
  <2> QED BY <1>2, <2>1, <2>2 DEF LogTypes
<1>6. /\ rw'.phase = rw.phase /\ rw'.list = rw.list /\ rw'.todo = rw.todo
      /\ rw'.blocked = rw.blocked /\ rw'.originals = rw.originals /\ rw'.found = rw.found
      /\ rw.raced \subseteq rw'.raced /\ (rw.phase # "idle" => p \in rw'.raced)
  BY <1>0, <1>1 DEF RewindFields
<1>7. \A q \in Path : Writes(q)' = IF q = p THEN Writes(q) \cup {n} ELSE Writes(q)
  BY <1>2, <1>3
<1>8. ListInv' /\ Undone' = Undone
  <2>1. \A q \in Path \ rw'.raced : rw.phase = "idle" \/ Writes(q)' = Writes(q)
    BY <1>6, <1>7
  <2>2. \A k \in DOMAIN log : k \in DOMAIN log' /\ log'[k] = log[k]
    BY <1>2, <1>m
  <2>3. ListInv /\ rw.phase \in RewindPhases /\ astray' = astray /\ rw.raced \subseteq rw'.raced
    BY <1>0, <1>1, <1>6 DEF HistoryInv
  <2> QED BY <1>6, <2>1, <2>2, <2>3, ListGrows, Zenon
<1>9. FoundInv'
  <2>1. \A q \in Path : q # p => onDisk'[q] = onDisk[q]
    BY <1>0, <1>1 DEF LogTypes
  <2>2. Rewind!Touched' = Rewind!Touched
    BY <1>6 DEF Rewind!Touched
  <2>3. ASSUME rw.phase # "idle", NEW q \in Path \ rw'.raced
        PROVE  /\ q \in Path \ rw.raced /\ q # p
               /\ rw.found[q] = rw'.found[q] /\ onDisk'[q] = onDisk[q]
    BY <1>6, <2>1, <2>3
  <2>4. FoundInv
    BY DEF HistoryInv
  <2> QED BY <1>6, <2>2, <2>3, <2>4 DEF FoundInv
<1>u. n \notin Undone
  <2>1. \A d \in Undone : d \in DOMAIN log
    BY <1>0, UndoneIsLogged DEF HistoryInv
  <2> QED BY <1>2, <2>1 DEF n
<1>10. ASSUME NEW q \in Path \ astray' PROVE Accounted(q)'
  <2>0. Accounted(q)
    BY <1>1, <1>10 DEF HistoryInv, DiskInv
  <2>w. \A k \in Left(q) : k \in Nat /\ k < n /\ k \in DOMAIN log
    BY <1>n DEF Left, Writes
  <2>1. CASE q = p
    <3> DEFINE W == Left(p) \cup {n}
    <3>1. Left(p)' = W
      BY <1>7, <1>8, <1>u DEF Left
    <3>2. onDisk'[p] = n
      BY <1>0, <1>1 DEF LogTypes
    <3>3. IsLast(n, W)
      BY <1>4, <2>1, <2>w DEF IsLast
    <3>4. ASSUME NEW k \in W PROVE IsLast(log'[k].before, {j \in W : j < k})
      <4>1. CASE k = n
        <5>1. {j \in W : j < n} = Left(p)
          BY <1>4, <2>1, <2>w
        <5>2. log'[k].before = onDisk[p]
          BY <1>2, <1>3, <4>1
        <5> QED BY <2>0, <2>1, <4>1, <5>1, <5>2 DEF Accounted
      <4>2. CASE k \in Left(p)
        <5>1. {j \in W : j < k} = {j \in Left(p) : j < k}
          BY <1>4, <2>1, <2>w, <4>2
        <5>2. log'[k] = log[k]
          BY <1>2, <2>1, <2>w, <4>2
        <5> QED BY <2>0, <2>1, <4>2, <5>1, <5>2 DEF Accounted, Chained
      <4> QED BY <4>1, <4>2
    <3> HIDE DEF W
    <3> QED BY <2>1, <3>1, <3>2, <3>3, <3>4, StandsAnew
  <2>2. CASE q # p
    <3>1. Left(q)' = Left(q)
      BY <1>7, <1>8, <2>2 DEF Left
    <3>2. onDisk'[q] = onDisk[q]
      BY <1>0, <1>1, <2>2 DEF LogTypes
    <3> QED BY <1>2, <2>0, <2>w, <3>1, <3>2, StandsOn
  <2> QED BY <2>1, <2>2
<1> QED BY <1>5, <1>8, <1>9, <1>10 DEF HistoryInv, DiskInv

\* A command is no write.
LEMMA CommandKeeps ==
  ASSUME HistoryInv, Derivable, NEW r \in DOMAIN turnRuns,
         Path \cap {"command"} = {}, Rewind!Command(r)
  PROVE  HistoryInv'
<1> DEFINE n == Len(log) + 1
           e == [run |-> r, path |-> "command", before |-> 0, after |-> 0, reversed |-> FALSE]
<1>0. DOMAIN rw = RewindFields /\ rw.phase \in RewindPhases /\ LogTypes
  BY DEF Derivable, HistoryInv
<1>1. log' = Append(log, e) /\ UNCHANGED <<onDisk, astray, rw>>
  BY DEF Rewind!Command
<1>2. /\ IsSequence(log') /\ DOMAIN log' = 1 .. n /\ Len(log) \in Nat
      /\ DOMAIN log = 1 .. Len(log) /\ log'[n] = e
      /\ \A k \in DOMAIN log : log'[k] = log[k]
      /\ \A q : Writes(q)' = Writes(q) \cup IF e.path = q /\ ~e.reversed THEN {n} ELSE {}
  BY <1>0, <1>1, LogGrows
<1>3. /\ DOMAIN e = LogFields /\ e.run \in Nat /\ e.path = "command" /\ e.reversed = FALSE
  <2>1. r \in Nat
    <3>1. IsSequence(turnRuns)
      BY DEF Derivable
    <3>2. DOMAIN turnRuns = 1 .. Len(turnRuns) /\ Len(turnRuns) \in Nat
      BY <3>1, Appended
    <3> QED BY <3>2
  <2> QED BY <2>1 DEF LogFields
<1>4. DOMAIN log' = DOMAIN log \cup {n}
  BY <1>2
<1> HIDE DEF n, e
<1>5. LogTypes'
  BY <1>0, <1>1, <1>2, <1>3, <1>4 DEF LogTypes
<1>6. \A p \in Path : Writes(p)' = Writes(p)
  BY <1>2, <1>3
<1>7. ListInv' /\ Undone' = Undone
  <2>1. \A k \in DOMAIN log : k \in DOMAIN log' /\ log'[k] = log[k]
    BY <1>2, <1>4
  <2> QED BY <1>0, <1>1, <1>6, <2>1, ListGrows DEF HistoryInv
<1>8. FoundInv'
  <2>1. Rewind!Touched' = Rewind!Touched
    BY <1>1 DEF Rewind!Touched
  <2> QED BY <1>1, <2>1 DEF HistoryInv, FoundInv
<1>9. ASSUME NEW q \in Path \ astray' PROVE Accounted(q)'
  <2>1. Accounted(q)
    BY <1>1, <1>9 DEF HistoryInv, DiskInv
  <2>2. Left(q)' = Left(q) /\ \A k \in Left(q) : log'[k] = log[k]
    BY <1>2, <1>6, <1>7 DEF Left, Writes
  <2> QED BY <1>1, <2>1, <2>2, StandsOn
<1> QED BY <1>5, <1>7, <1>8, <1>9 DEF HistoryInv, DiskInv

\* /undo takes back the write its file ends with.
LEMMA UndoKeeps ==
  ASSUME HistoryInv, Path \cap {"command"} = {}, Rewind!Undo
  PROVE  HistoryInv'
<1> DEFINE applied == {k \in DOMAIN log : log[k].run # 0 /\ log[k].path # "command"
                                         /\ ~log[k].reversed}
           k == Rewind!Max(applied)
           p == log[k].path
<1>0. LogTypes
  BY DEF HistoryInv
<1>1. /\ applied # {} /\ rw.phase = "idle" /\ UNCHANGED <<astray, rw>>
      /\ onDisk[p] = log[k].after
      /\ onDisk' = [onDisk EXCEPT ![p] = log[k].before]
      /\ log' = [log EXCEPT ![k].reversed = TRUE]
  BY DEF Rewind!Undo, Rewind!Idle
<1>2. k \in DOMAIN log /\ log[k].path # "command" /\ ~log[k].reversed
  <2>1. applied \in SUBSET (1 .. Len(log)) /\ Len(log) \in Nat
    BY <1>0, WritesArePositions
  <2>2. k \in applied
    BY <1>1, <2>1, LastAndFirst
  <2> QED BY <2>2
<1> HIDE DEF k, applied
<1>3. p \in Path /\ k \in Writes(p) /\ k \in Nat /\ log[k].after = k /\ onDisk[p] = k
  <2>1. p \in Path
    BY <1>0, <1>2 DEF LogTypes
  <2>2. k \in Writes(p)
    BY <1>2 DEF Writes
  <2>3. k \in Nat
    BY <1>0, <2>2, WritesArePositions
  <2> QED BY <1>0, <1>1, <1>2, <2>1, <2>2, <2>3 DEF LogTypes
<1>e. log' = [log EXCEPT ![k] = [log[k] EXCEPT !.reversed = TRUE]]
  BY <1>1
<1>4. /\ DOMAIN log' = DOMAIN log /\ IsSequence(log')
      /\ \A m \in DOMAIN log : m # k => log'[m] = log[m]
      /\ log'[k] = [log[k] EXCEPT !.reversed = TRUE]
  BY <1>0, <1>2, <1>e, Replaced DEF LogTypes
<1>5. /\ DOMAIN log'[k] = LogFields /\ log'[k].run = log[k].run /\ log'[k].path = p
      /\ log'[k].after = log[k].after /\ log'[k].before = log[k].before
      /\ log'[k].reversed = TRUE
  BY <1>0, <1>2, <1>4 DEF LogTypes, LogFields
<1>6. LogTypes'
  BY <1>0, <1>1, <1>2, <1>4, <1>5 DEF LogTypes
<1> HIDE DEF p
<1>7. ASSUME NEW q PROVE Writes(q)' = Writes(q) \ {k}
  <2>1. k \notin Writes(q)'
    BY <1>5 DEF Writes
  <2>2. ASSUME NEW j, j # k PROVE j \in Writes(q)' <=> j \in Writes(q)
    BY <1>4, <2>2 DEF Writes
  <2> QED BY <2>1, <2>2
<1>8. ListInv' /\ FoundInv'
  BY <1>1 DEF HistoryInv, ListInv, FoundInv
<1>9. Undone = {} /\ Undone' = {}
  BY <1>1 DEF HistoryInv, ListInv, Undone, Rewind!Touched
<1>10. ASSUME NEW q \in Path \ astray' PROVE Accounted(q)'
  <2>0. /\ IsLast(onDisk[q], Writes(q))
        /\ \A m \in Writes(q) : IsLast(log[m].before, {j \in Writes(q) : j < m})
    <3>1. Accounted(q) /\ Left(q) = Writes(q)
      BY <1>1, <1>9, <1>10 DEF HistoryInv, DiskInv, Left
    <3> QED BY <3>1 DEF Accounted, Chained
  <2>1. Left(q)' = Writes(q) \ {k}
    BY <1>7, <1>9 DEF Left
  <2>2. \A j \in Writes(q) : j \in Nat
    BY <1>0, WritesArePositions
  <2>3. CASE q = p
    <3>1. \A j \in Writes(q) : j <= k
      BY <1>3, <2>0, <2>3 DEF IsLast
    <3>2. {j \in Writes(q) : j < k} = Writes(q) \ {k}
      <4>1. \A j \in Writes(q) : j < k <=> j # k
        BY <1>3, <2>2, <3>1
      <4> QED BY <4>1
    <3>3. IsLast(log[k].before, Writes(q) \ {k})
      BY <1>3, <2>0, <2>3, <3>2
    <3>4. onDisk'[q] = log[k].before
      BY <1>0, <1>1, <1>3, <2>3 DEF LogTypes
    <3>5. ASSUME NEW m \in Writes(q) \ {k}
          PROVE  IsLast(log'[m].before, {j \in Writes(q) \ {k} : j < m})
      <4>1. m < k /\ log'[m] = log[m]
        BY <1>4, <3>2, <3>5 DEF Writes
      <4>2. {j \in Writes(q) \ {k} : j < m} = {j \in Writes(q) : j < m}
        <5>1. \A j \in Writes(q) : j < m => j # k
          <6>1. \A j \in Writes(q) : j \in Nat
            BY <2>2
          <6>2. k \in Writes(q) /\ m \in Writes(q) /\ m < k
            BY <2>0, <2>3, <3>1, <3>5, <4>1, <1>3
          <6> QED BY <6>1, <6>2
        <5> QED BY <5>1
      <4>3. m \in Writes(q)
        BY <3>5
      <4>4. IsLast(log[m].before, {j \in Writes(q) : j < m})
        BY <2>0, <4>3, Zenon
      <4> QED BY <4>1, <4>2, <4>4, Zenon
    <3> QED BY <2>1, <3>3, <3>4, <3>5, StandsAnew
  <2>4. CASE q # p
    <3>1. k \notin Writes(q)
      BY <2>4 DEF Writes, p
    <3>2. Left(q)' = Left(q) /\ Left(q) = Writes(q)
      BY <1>9, <2>1, <3>1 DEF Left
    <3>3. onDisk'[q] = onDisk[q]
      BY <1>0, <1>1, <2>4 DEF LogTypes
    <3>4. \A m \in Left(q) : log'[m] = log[m]
      BY <1>4, <3>1, <3>2 DEF Writes
    <3>5. Accounted(q)
      BY <1>1, <1>10 DEF HistoryInv, DiskInv
    <3> QED BY <3>2, <3>3, <3>4, <3>5, StandsOn
  <2> QED BY <2>3, <2>4
<1> QED BY <1>6, <1>8, <1>10 DEF HistoryInv, DiskInv

\* /rewind lists the actions of the runs after its target.
LEMMA RewindBegins ==
  ASSUME HistoryInv, NEW t \in DOMAIN turnRuns, Rewind!Rewind(t)
  PROVE  HistoryInv'
<1> DEFINE S == Rewind!Later(t)
           l == Rewind!Descending(S)
<1>0. LogTypes
  BY DEF HistoryInv
<1>1. /\ rw.phase = "idle" /\ UNCHANGED <<onDisk, log, astray>>
      /\ rw' = [Rewind!NoRewind EXCEPT !.phase = "confirm", !.target = t, !.list = l,
                   !.todo = l, !.blocked = Rewind!Blockers(S), !.found = onDisk]
  BY DEF Rewind!Rewind, Rewind!Idle
<1>2. S \in SUBSET (DOMAIN log) /\ \A k \in S : ~log[k].reversed
  BY DEF Rewind!Later
<1>3. Descends(l) /\ Elements(l) = S
  <2>1. Len(log) \in Nat /\ DOMAIN log = 1 .. Len(log)
    BY <1>0, WritesArePositions
  <2> HIDE DEF S
  <2> QED BY <1>2, <2>1, DescendingLists
<1> HIDE DEF S, l
<1>4. /\ rw'.phase = "confirm" /\ rw'.list = l /\ rw'.todo = l /\ rw'.originals = {}
      /\ rw'.blocked = Rewind!Blockers(S) /\ rw'.raced = {} /\ rw'.found = onDisk
  BY <1>1 DEF Rewind!NoRewind
<1>5. LogTypes'
  BY <1>0, <1>1 DEF LogTypes
<1>6. \A p : Writes(p)' = Writes(p) /\ Left(p) = Writes(p) /\ Left(p)' = Writes(p)
  <2>1. Undone = {} /\ Undone' = {}
    BY <1>1, <1>4 DEF HistoryInv, ListInv, Undone, Rewind!Touched
  <2> QED BY <1>1, <2>1 DEF Left, Writes
<1>7. ASSUME NEW p \in Path \ astray' PROVE Accounted(p)'
  BY <1>1, <1>6, <1>7, StandsOn DEF HistoryInv, DiskInv
<1>8. FoundInv'
  BY <1>1, <1>4 DEF FoundInv, Rewind!Touched
<1>9. Elements(rw.list)' = S /\ Descends(rw.list)'
  BY <1>3, <1>4 DEF Elements, Descends
<1>10. ASSUME ~Rewind!Blockers(S)
       PROVE  OfFiles' /\ \A p \in Quiet' : Reversible(p)'
  <2>1. OfFiles'
    <3>1. \A k \in S : log[k].path # "command" /\ k \in DOMAIN log
      BY <1>2, <1>10 DEF Rewind!Blockers
    <3>2. \A k \in S : log[k].path \in Path
      BY <1>0, <3>1 DEF LogTypes
    <3> QED BY <1>1, <1>9, <3>1, <3>2 DEF OfFiles
  <2>2. ASSUME NEW p \in Quiet' PROVE Reversible(p)'
    <3>1. p \in Path /\ IsLast(onDisk[p], Writes(p)) /\ Chained(Writes(p))
      BY <1>1, <1>6, <2>2 DEF Quiet, HistoryInv, DiskInv, Accounted
    <3>2. \A k \in S : log[k].path = p => \A j \in Writes(p) : j > k => j \in S
      BY <1>0, <1>2, <1>10, <3>1, UnblockedIsReversible
    <3> QED BY <1>1, <1>2, <1>6, <1>9, <3>2 DEF Reversible
  <2> QED BY <2>1, <2>2
<1>b. ~rw'.blocked => ~Rewind!Blockers(S)
  BY <1>4
<1>11. ListInv'
  BY <1>4, <1>9, <1>10, <1>b DEF ListInv
<1> QED BY <1>5, <1>7, <1>8, <1>11 DEF HistoryInv, DiskInv

\* The answer to the question that /rewind asks.
LEMMA ConfirmKeeps ==
  ASSUME HistoryInv, DOMAIN rw = RewindFields, Rewind!Confirm
  PROVE  HistoryInv'
<1>1. /\ rw.phase = "confirm" /\ UNCHANGED <<onDisk, log, astray>>
      /\ rw' = IF rw.blocked THEN Rewind!NoRewind ELSE [rw EXCEPT !.phase = "restore"]
  BY DEF Rewind!Confirm
<1>2. CASE rw' = Rewind!NoRewind
  BY <1>1, <1>2, RewindEnds DEF RewindPhases
<1>3. CASE ~(rw' = Rewind!NoRewind)
  <2>1. rw' = [rw EXCEPT !.phase = "restore"] /\ ~rw.blocked
    BY <1>1, <1>3
  <2>2. /\ rw'.phase = "restore" /\ rw'.list = rw.list /\ rw'.todo = rw.todo
        /\ rw'.originals = rw.originals /\ rw'.raced = rw.raced /\ rw'.found = rw.found
    BY <2>1 DEF RewindFields
  <2>3. /\ Descends(rw.list) /\ rw.todo = rw.list /\ OfFiles /\ rw.originals = {}
        /\ \A p \in Quiet : Reversible(p)
    BY <1>1, <2>1 DEF HistoryInv, ListInv
  <2>4. /\ Elements(rw.list)' = Elements(rw.list) /\ Elements(rw.todo)' = Elements(rw.list)
        /\ Rewind!Touched = {} /\ Rewind!Touched' = {} /\ Quiet' = Quiet
        /\ \A p : Writes(p)' = Writes(p)
    BY <1>1, <2>2, <2>3 DEF Elements, Rewind!Touched, Quiet, Writes
  <2>5. Restored' = {} /\ Undone' = {} /\ Undone = {}
    BY <2>4 DEF Restored, Undone
  <2>6. LogTypes'
    BY <1>1 DEF HistoryInv, LogTypes
  <2>7. \A p \in Path \ astray' : Accounted(p)'
    <3> SUFFICES ASSUME NEW p \in Path \ astray' PROVE Accounted(p)'
      OBVIOUS
    <3>1. Accounted(p) /\ Left(p)' = Left(p)
      BY <1>1, <2>4, <2>5 DEF HistoryInv, DiskInv, Left
    <3> QED BY <1>1, <3>1, StandsOn
  <2>8. FoundInv'
    BY <1>1, <2>2, <2>3, <2>4 DEF HistoryInv, FoundInv
  <2>9. OfFiles' /\ Descends(rw.todo)'
    BY <1>1, <2>2, <2>3, <2>4 DEF OfFiles, Descends
  <2>10. ASSUME NEW p \in Quiet' PROVE Reversible(p)' /\ Chained(Writes(p))'
    <3>1. Reversible(p) /\ Accounted(p) /\ Left(p) = Writes(p)
      BY <2>3, <2>4, <2>5, <2>10 DEF Quiet, HistoryInv, DiskInv, Left
    <3>2. Reversible(p)'
      BY <1>1, <2>4, <3>1 DEF Reversible
    <3>3. Chained(Writes(p))'
      BY <1>1, <2>4, <3>1 DEF Accounted, Chained, IsLast
    <3> QED BY <3>2, <3>3
  <2>11. ListInv'
    BY <2>2, <2>3, <2>4, <2>5, <2>9, <2>10 DEF ListInv
  <2> QED BY <2>6, <2>7, <2>8, <2>11 DEF HistoryInv, DiskInv
<1> QED BY <1>2, <1>3

\* The list without its head, the greatest of it.
LEMMA RestOfList ==
  ASSUME NEW l, Descends(l), l # <<>>
  PROVE  /\ Descends(Tail(l)) /\ Elements(Tail(l)) = Elements(l) \ {Head(l)}
         /\ Head(l) \in Elements(l) /\ Head(l) \in Nat
         /\ \A u \in Elements(l) : u \in Nat /\ u <= Head(l)
<1> DEFINE h == Head(l)
           T == Elements(l)
<1>1. l \in Seq(Nat) /\ \A i, j \in DOMAIN l : i < j => l[j] < l[i]
  BY DEF Descends
<1>2. /\ Tail(l) \in Seq(Nat) /\ h = l[1] /\ 1 \in DOMAIN l
      /\ DOMAIN l = 1 .. Len(l) /\ Len(l) \in Nat
      /\ DOMAIN Tail(l) = 1 .. (Len(l) - 1)
      /\ \A i \in 1 .. (Len(l) - 1) : Tail(l)[i] = l[i + 1]
  BY <1>1, HeadTailProperties, LenProperties
<1>3. \A i \in DOMAIN l : l[i] \in Nat
  BY <1>1, <1>2
<1> HIDE DEF h
<1>4. Descends(Tail(l))
  <2> SUFFICES ASSUME NEW i \in DOMAIN Tail(l), NEW j \in DOMAIN Tail(l), i < j
               PROVE  Tail(l)[j] < Tail(l)[i]
    BY <1>2 DEF Descends
  <2>1. i \in 1 .. (Len(l) - 1) /\ j \in 1 .. (Len(l) - 1) /\ Len(l) \in Nat
    BY <1>2
  <2>2. i + 1 \in 1 .. Len(l) /\ j + 1 \in 1 .. Len(l) /\ i + 1 < j + 1
    BY <2>1
  <2>3. l[j + 1] < l[i + 1]
    BY <1>1, <1>2, <2>2
  <2> QED BY <1>2, <2>1, <2>3
<1>5. ASSUME NEW i \in DOMAIN l, i # 1 PROVE l[i] < h
  <2>1. 1 < i
    BY <1>2, <1>5
  <2>2. l[i] < l[1]
    BY <1>1, <1>2, <2>1
  <2> QED BY <1>2, <2>2
<1>6. ASSUME NEW u \in Elements(Tail(l)) PROVE u \in T \ {h}
  <2>1. PICK i \in 1 .. (Len(l) - 1) : u = l[i + 1]
    BY <1>2 DEF Elements
  <2>2. i + 1 \in DOMAIN l /\ i + 1 # 1
    BY <1>2
  <2>3. u < h /\ u \in Nat
    BY <1>3, <1>5, <2>1, <2>2
  <2>4. l[i + 1] \in T
    BY <2>2 DEF Elements
  <2> HIDE DEF T
  <2>5. u # h
    BY <1>2, <1>3, <2>3
  <2> QED BY <2>1, <2>4, <2>5
<1>7. ASSUME NEW u \in T, u # h PROVE u \in Elements(Tail(l))
  <2>1. PICK i \in DOMAIN l : u = l[i]
    BY DEF Elements
  <2>2. i # 1
    BY <1>2, <1>7, <2>1
  <2>3. i - 1 \in 1 .. (Len(l) - 1) /\ (i - 1) + 1 = i
    BY <1>2, <2>2
  <2>4. Tail(l)[i - 1] = u
    BY <1>2, <2>1, <2>3
  <2> QED BY <1>2, <2>3, <2>4 DEF Elements
<1>8. ASSUME NEW u \in T PROVE u \in Nat /\ u <= h
  <2>1. PICK i \in DOMAIN l : u = l[i]
    BY DEF Elements
  <2> QED BY <1>2, <1>3, <1>5, <2>1
<1>9. h \in T /\ h \in Nat
  BY <1>2, <1>3 DEF Elements
<1> QED BY <1>4, <1>6, <1>7, <1>8, <1>9 DEF h

\* The head of the list is the last write of its file that is left.
LEMMA RestoreKeeps ==
  ASSUME HistoryInv, DOMAIN rw = RewindFields, Rewind!RestoreFile
  PROVE  HistoryInv'
<1> DEFINE h == Head(rw.todo)
           p == log[h].path
           L == Elements(rw.list)
           T == Elements(rw.todo)
<1>0. LogTypes /\ ListInv /\ FoundInv /\ DiskInv
  BY DEF HistoryInv
<1>1. /\ rw.phase = "restore" /\ rw.todo # <<>> /\ UNCHANGED log
      /\ onDisk' = [onDisk EXCEPT ![p] = log[h].before]
      /\ rw' = [rw EXCEPT !.todo = Tail(rw.todo), !.originals = Rewind!Remember(p)]
      /\ astray' = astray \cup ({p} \cap rw.raced)
  BY DEF Rewind!RestoreFile
<1>2. /\ Descends(rw.todo) /\ T \subseteq L /\ OfFiles
      /\ \A d \in Restored, u \in T : u < d
      /\ \A d \in Restored : log[d].path \in Rewind!Touched
      /\ \A q \in Quiet : Reversible(q) /\ Chained(Writes(q))
      /\ \A q \in Quiet : \A o \in rw.originals : o.path = q => IsLast(o.content, Writes(q))
  BY <1>0, <1>1 DEF ListInv
<1>3. /\ Descends(Tail(rw.todo)) /\ Elements(Tail(rw.todo)) = T \ {h} /\ h \in T /\ h \in Nat
      /\ \A u \in T : u \in Nat /\ u <= h
  BY <1>1, <1>2, RestOfList
<1>4. /\ rw'.phase = "restore" /\ rw'.list = rw.list /\ rw'.todo = Tail(rw.todo)
      /\ rw'.originals = Rewind!Remember(p) /\ rw'.raced = rw.raced /\ rw'.found = rw.found
  <2> HIDE DEF p
  <2> QED BY <1>1 DEF RewindFields
<1> HIDE DEF h
<1>5. h \in DOMAIN log /\ p \in Path
  BY <1>2, <1>3 DEF OfFiles
<1>6. LogTypes'
  BY <1>0, <1>1 DEF LogTypes
<1>7. Elements(rw.list)' = L /\ Elements(rw.todo)' = T \ {h} /\ \A q : Writes(q)' = Writes(q)
  BY <1>1, <1>3, <1>4 DEF Elements, Writes
\* What is remembered of the files.
<1>8. /\ p \in Rewind!Touched => rw'.originals = rw.originals
      /\ p \notin Rewind!Touched =>
           rw'.originals = rw.originals \cup {[path |-> p, content |-> onDisk[p]]}
      /\ Rewind!Touched' = Rewind!Touched \cup {p}
  <2>1. p \in Rewind!Touched => rw'.originals = rw.originals
    BY <1>4 DEF Rewind!Remember
  <2>2. p \notin Rewind!Touched =>
          rw'.originals = rw.originals \cup {[path |-> p, content |-> onDisk[p]]}
    BY <1>4 DEF Rewind!Remember
  <2> HIDE DEF p
  <2>3. Rewind!Touched' = {o.path : o \in rw'.originals}
    BY DEF Rewind!Touched
  <2>4. ASSUME p \in Rewind!Touched PROVE Rewind!Touched' = Rewind!Touched \cup {p}
    BY <2>1, <2>3, <2>4 DEF Rewind!Touched
  <2>5. ASSUME p \notin Rewind!Touched PROVE Rewind!Touched' = Rewind!Touched \cup {p}
    <3> DEFINE e == [path |-> p, content |-> onDisk[p]]
    <3>1. e.path = p /\ rw'.originals = rw.originals \cup {e}
      BY <2>2, <2>5
    <3> HIDE DEF e
    <3>2. ASSUME NEW o \in rw'.originals PROVE o.path \in Rewind!Touched \cup {p}
      BY <3>1, <3>2 DEF Rewind!Touched
    <3>3. ASSUME NEW o \in rw.originals PROVE \E x \in rw'.originals : o.path = x.path
      BY <3>1, <3>3
    <3>4. \E x \in rw'.originals : p = x.path
      BY <3>1
    <3>5. \A y : y \in Rewind!Touched' <=> \E o \in rw'.originals : y = o.path
      BY <2>3
    <3>6. \A y : y \in Rewind!Touched <=> \E o \in rw.originals : y = o.path
      BY DEF Rewind!Touched
    <3>7. ASSUME NEW y \in Rewind!Touched' PROVE y \in Rewind!Touched \cup {p}
      BY <3>2, <3>5, <3>7
    <3>8. ASSUME NEW y, y \in Rewind!Touched \/ y = p PROVE y \in Rewind!Touched'
      BY <3>3, <3>4, <3>5, <3>6, <3>8
    <3> HIDE DEF p
    <3> QED BY <3>7, <3>8
  <2>6. Rewind!Touched' = Rewind!Touched \cup {p}
    BY <2>4, <2>5
  <2> QED BY <2>1, <2>2, <2>6, Zenon
<1> HIDE DEF p, L, T
<1>p. p = log[h].path
  BY DEF p
<1>9. /\ Restored' = Restored \cup {h} /\ h \notin Restored
      /\ Undone' = Undone \cup {h} /\ Undone = Restored
  <2>1. Restored = L \ T /\ h \in L
    BY <1>2, <1>3 DEF Restored, L, T
  <2>2. Restored' = Restored \cup {h} /\ h \notin Restored
    BY <1>3, <1>7, <2>1 DEF Restored
  <2>3. Undone = Restored
    BY <1>2 DEF Undone
  <2>4. Undone' = Restored \cup {h}
    BY <1>1, <1>2, <1>8, <1>p, <2>2 DEF Undone
  <2> QED BY <2>2, <2>3, <2>4
<1>n. \A q : \A k \in Writes(q) : k \in Nat
  BY <1>0, WritesArePositions
\* A file that nobody wrote to meanwhile.
<1>10. ASSUME p \in Quiet
       PROVE  h \in Left(p) /\ \A j \in Left(p) : j \in Nat /\ j <= h
  <2>1. h \in L /\ ~log[h].reversed /\ \A j \in Writes(p) : j > h => j \in L
    BY <1>2, <1>3, <1>10, <1>p DEF Reversible, L
  <2>2. h \in Left(p)
    BY <1>5, <1>9, <1>p, <2>1 DEF Left, Writes
  <2>3. ASSUME NEW j \in Left(p) PROVE j <= h
    <3>1. j \in Writes(p) /\ j \notin Restored /\ j \in Nat
      BY <1>9, <1>n, <2>3 DEF Left
    <3>2. j > h => j \in T
      BY <2>1, <3>1 DEF Restored, L, T
    <3> QED BY <1>3, <3>1, <3>2
  <2> QED BY <1>n, <2>2, <2>3 DEF Left
<1>11. \A q \in Path : q # p => Left(q)' = Left(q) /\ onDisk'[q] = onDisk[q]
  <2>1. ASSUME NEW q \in Path, q # p PROVE h \notin Writes(q)
    BY <1>p, <2>1 DEF Writes
  <2>2. \A q \in Path : q # p => onDisk'[q] = onDisk[q]
    BY <1>0, <1>1 DEF LogTypes
  <2> QED BY <1>7, <1>9, <2>1, <2>2 DEF Left
<1>12. ASSUME NEW q \in Path \ astray' PROVE Accounted(q)'
  <2>0. Accounted(q) /\ q \in Path
    BY <1>0, <1>1, <1>12 DEF DiskInv
  <2>1. CASE q = p
    <3> DEFINE W == {j \in Left(q) : j < h}
    <3>1. p \in Quiet
      BY <1>1, <1>5, <1>12, <2>1 DEF Quiet
    <3>2. h \in Left(q) /\ \A j \in Left(q) : j \in Nat /\ j <= h
      BY <1>10, <2>1, <3>1
    <3>3. Left(q)' = W
      <4>1. Left(q)' = Left(q) \ {h}
        BY <1>7, <1>9 DEF Left
      <4>2. \A j \in Left(q) : (j # h) <=> (j < h)
        BY <1>3, <3>2
      <4> QED BY <4>1, <4>2
    <3>4. onDisk'[q] = log[h].before
      BY <1>0, <1>1, <1>5, <2>1 DEF LogTypes
    <3>5. Chained(Left(q))
      BY <2>0 DEF Accounted
    <3>6. IsLast(log[h].before, W)
      BY <3>2, <3>5 DEF Chained
    <3>7. ASSUME NEW k \in W PROVE IsLast(log'[k].before, {j \in W : j < k})
      <4>1. k \in Left(q) /\ k < h
        OBVIOUS
      <4>2. {j \in W : j < k} = {j \in Left(q) : j < k}
        <5>1. \A j \in Left(q) : j < k => j < h
          BY <1>3, <3>2, <4>1
        <5> QED BY <5>1
      <4>3. IsLast(log[k].before, {j \in Left(q) : j < k})
        BY <3>5, <4>1, Zenon DEF Chained
      <4>4. log'[k].before = log[k].before
        BY <1>1
      <4> HIDE DEF W
      <4> QED BY <4>2, <4>3, <4>4, Zenon
    <3>8. IsLast(onDisk'[q], W)
      BY <3>4, <3>6
    <3> HIDE DEF W
    <3> QED BY <3>3, <3>7, <3>8, StandsAnew, Zenon
  <2>2. CASE q # p
    BY <1>1, <1>11, <2>0, <2>2, StandsOn
  <2> QED BY <2>1, <2>2
<1>13. FoundInv'
  <2>1. ASSUME NEW o \in rw'.originals, NEW q \in rw'.originals, o.path = q.path PROVE o = q
    <3>1. CASE p \in Rewind!Touched
      BY <1>0, <1>8, <2>1, <3>1 DEF FoundInv
    <3>2. CASE p \notin Rewind!Touched
      <4> DEFINE e == [path |-> p, content |-> onDisk[p]]
      <4>1. rw'.originals = rw.originals \cup {e} /\ e.path = p
        BY <1>8, <3>2
      <4>2. \A x \in rw.originals : x.path # p
        BY <3>2 DEF Rewind!Touched
      <4> HIDE DEF e
      <4> QED BY <1>0, <2>1, <4>1, <4>2 DEF FoundInv
    <3> QED BY <3>1, <3>2
  <2>2. ASSUME NEW o \in rw'.originals PROVE o.path \in Path
    BY <1>0, <1>5, <1>8 DEF FoundInv
  <2>3. ASSUME NEW q \in Path \ rw'.raced
        PROVE  /\ \A o \in rw'.originals : o.path = q => o.content = rw'.found[q]
               /\ q \notin Rewind!Touched' => onDisk'[q] = rw'.found[q]
    <3>0. /\ q \in Path \ rw.raced /\ rw'.found[q] = rw.found[q]
          /\ \A o \in rw.originals : o.path = q => o.content = rw.found[q]
          /\ q \notin Rewind!Touched => onDisk[q] = rw.found[q]
      BY <1>0, <1>1, <1>4, <2>3 DEF FoundInv
    <3>1. ASSUME NEW o \in rw'.originals, o.path = q PROVE o.content = rw'.found[q]
      <4>1. CASE o \in rw.originals
        BY <3>0, <3>1, <4>1
      <4>2. CASE o \notin rw.originals
        <5>1. o = [path |-> p, content |-> onDisk[p]] /\ p \notin Rewind!Touched
          BY <1>8, <4>2
        <5> QED BY <3>0, <3>1, <5>1
      <4> QED BY <4>1, <4>2
    <3>2. q \notin Rewind!Touched' => onDisk'[q] = rw'.found[q]
      BY <1>8, <1>11, <3>0
    <3> QED BY <3>1, <3>2
  <2> QED BY <2>1, <2>2, <2>3 DEF FoundInv
<1>14. ListInv'
  <2>1. Quiet' \subseteq Quiet
    BY <1>1, <1>4 DEF Quiet
  <2>2. OfFiles'
    BY <1>1, <1>2, <1>7 DEF OfFiles, L
  <2>3. ASSUME NEW q \in Quiet' PROVE Reversible(q)' /\ Chained(Writes(q))'
    <3>1. Reversible(q) /\ Chained(Writes(q))
      BY <1>2, <2>1
    <3>2. Reversible(q)'
      BY <1>1, <1>7, <3>1 DEF Reversible, L
    <3>3. Chained(Writes(q))'
      BY <1>1, <1>7, <3>1 DEF Chained, IsLast
    <3> QED BY <3>2, <3>3
  <2>4. ASSUME NEW q \in Quiet', NEW o \in rw'.originals, o.path = q
        PROVE  IsLast(o.content, Writes(q))
    <3>1. CASE o \in rw.originals
      BY <1>2, <2>1, <2>4, <3>1
    <3>2. CASE o \notin rw.originals
      <4>1. o = [path |-> p, content |-> onDisk[p]] /\ p \notin Rewind!Touched
        BY <1>8, <3>2
      <4>2. q = p /\ o.content = onDisk[p]
        BY <2>4, <4>1
      <4>3. Left(p) = Writes(p)
        BY <4>1, UntouchedIsLeft
      <4>4. Accounted(p)
        BY <1>0, <2>1, <4>2 DEF Quiet, DiskInv
      <4> QED BY <4>2, <4>3, <4>4 DEF Accounted
    <3> QED BY <3>1, <3>2
  <2>5. \A d \in Restored', u \in T \ {h} : u < d
    <3> SUFFICES ASSUME NEW d \in Restored \cup {h}, NEW u \in T, u # h PROVE u < d
      BY <1>9
    <3>1. u <= h /\ u \in Nat
      BY <1>3
    <3>2. CASE d = h
      BY <1>3, <3>1, <3>2
    <3>3. CASE d \in Restored
      BY <1>2, <3>3 DEF T
    <3> QED BY <3>2, <3>3
  <2>6. \A d \in Restored' : log'[d].path \in Rewind!Touched'
    BY <1>1, <1>2, <1>8, <1>9, <1>p
  <2>7. Descends(rw.todo)'
    BY <1>3, <1>4 DEF Descends
  <2>8. (\A q \in Quiet : \A o \in rw.originals : o.path = q => IsLast(o.content, Writes(q)))'
    BY <1>7, <2>4 DEF IsLast
  <2> QED BY <1>2, <1>4, <1>7, <2>2, <2>3, <2>5, <2>6, <2>7, <2>8 DEF ListInv, L, T
<1> QED BY <1>6, <1>12, <1>13, <1>14 DEF HistoryInv, DiskInv

\* The transaction that marks the actions: the marks follow the files.
LEMMA MarkKeeps ==
  ASSUME HistoryInv, DOMAIN rw = RewindFields, Rewind!MarkReversed
  PROVE  HistoryInv'
<1> DEFINE S == Elements(rw.list)
<1>0. LogTypes /\ ListInv /\ FoundInv /\ DiskInv
  BY DEF HistoryInv
<1>1. /\ rw.phase = "restore" /\ rw.todo = <<>> /\ UNCHANGED <<onDisk, astray>>
      /\ log' = [k \in DOMAIN log |-> [log[k] EXCEPT !.reversed = @ \/ k \in S]]
      /\ rw' = [rw EXCEPT !.phase = "marked"]
  BY DEF Rewind!MarkReversed, Rewind!Range, RewindFields, Elements
<1>r. /\ rw'.phase = "marked" /\ rw'.list = rw.list /\ rw'.todo = rw.todo
      /\ rw'.originals = rw.originals /\ rw'.raced = rw.raced /\ rw'.found = rw.found
  BY <1>1 DEF RewindFields
<1> HIDE DEF S
<1>2. /\ DOMAIN log' = DOMAIN log
      /\ \A k \in DOMAIN log :
           /\ DOMAIN log'[k] = LogFields /\ log'[k].run = log[k].run
           /\ log'[k].path = log[k].path /\ log'[k].before = log[k].before
           /\ log'[k].after = log[k].after
           /\ log'[k].reversed = (log[k].reversed \/ k \in S)
  BY <1>0, <1>1 DEF LogTypes, LogFields
<1>3. IsSequence(log')
  <2>1. DOMAIN log = 1 .. Len(log) /\ Len(log) \in Nat
    BY <1>0, WritesArePositions
  <2>2. log' \in [1 .. Len(log) -> {log'[k] : k \in DOMAIN log'}]
    BY <1>1, <2>1
  <2> QED BY <2>1, <2>2, SeqDef DEF IsSequence
<1>4. LogTypes'
  <2>1. ASSUME NEW k \in DOMAIN log'
        PROVE  /\ DOMAIN log'[k] = LogFields /\ log'[k].run \in Nat
               /\ log'[k].path \in Path \cup {"command"}
               /\ log'[k].path \in Path => log'[k].after = k
    BY <1>0, <1>2, <2>1 DEF LogTypes
  <2>2. ASSUME NEW k \in DOMAIN log' PROVE log'[k].reversed \in BOOLEAN
    <3>1. (log[k].reversed \/ k \in S) \in BOOLEAN
      OBVIOUS
    <3>2. log'[k].reversed = (log[k].reversed \/ k \in S)
      BY <1>2, <2>2
    <3> QED BY <3>1, <3>2
  <2>3. DOMAIN onDisk' = Path
    BY <1>0, <1>1 DEF LogTypes
  <2> QED BY <1>3, <2>1, <2>2, <2>3 DEF LogTypes
<1>5. \A q : Writes(q)' = Writes(q) \ S
  BY <1>2 DEF Writes
<1>6. OfFiles /\ \A d \in Restored : log[d].path \in Rewind!Touched
  BY <1>0, <1>1 DEF ListInv
<1>7. Elements(rw.list)' = S /\ Restored = S /\ Undone = S /\ Restored' = S
  <2>1. Elements(rw.todo) = {} /\ Elements(rw.todo)' = {}
    BY <1>1, <1>r DEF Elements
  <2>2. Elements(rw.list)' = S
    BY <1>r DEF Elements, S
  <2> QED BY <1>6, <2>1, <2>2 DEF Restored, Undone, S
<1>8. Rewind!Touched' = Rewind!Touched
  BY <1>r DEF Rewind!Touched
<1>9. \A q : Left(q)' = Left(q)
  <2>1. Undone' \subseteq S
    BY <1>7 DEF Undone
  <2> QED BY <1>5, <1>7, <2>1 DEF Left
<1>10. ASSUME NEW q \in Path \ astray' PROVE Accounted(q)'
  <2>1. Accounted(q)
    BY <1>0, <1>1, <1>10 DEF DiskInv
  <2>2. \A k \in Left(q) : log'[k].before = log[k].before
    BY <1>2 DEF Left, Writes
  <2> QED BY <1>1, <1>9, <2>1, <2>2, StandsOn
<1>11. FoundInv'
  BY <1>0, <1>1, <1>8, <1>r DEF FoundInv
<1>12. ListInv'
  <2>1. OfFiles'
    BY <1>2, <1>6, <1>7 DEF OfFiles, S
  <2>2. \A d \in Elements(rw.list)' : log'[d].reversed
    BY <1>2, <1>6, <1>7 DEF OfFiles, S
  <2> QED BY <1>r, <2>1, <2>2 DEF ListInv
<1> QED BY <1>4, <1>10, <1>11, <1>12 DEF HistoryInv, DiskInv

\* The handler is entered: nothing has changed yet.
LEMMA FailureKeeps ==
  ASSUME HistoryInv, DOMAIN rw = RewindFields, Rewind!RestoreFails
  PROVE  HistoryInv'
<1>1. /\ UNCHANGED <<onDisk, log, astray>>
      /\ \/ rw.phase = "restore" /\ rw' = [rw EXCEPT !.phase = "undoing"]
         \/ rw.phase = "marked" /\ rw' = [rw EXCEPT !.phase = "late"]
  BY DEF Rewind!RestoreFails
<1>2. /\ \/ rw.phase = "restore" /\ rw'.phase = "undoing"
         \/ rw.phase = "marked" /\ rw'.phase = "late"
      /\ rw'.list = rw.list /\ rw'.todo = rw.todo
      /\ rw'.originals = rw.originals /\ rw'.raced = rw.raced /\ rw'.found = rw.found
  BY <1>1 DEF RewindFields
<1>3. LogTypes'
  BY <1>1 DEF HistoryInv, LogTypes
<1>4. /\ Elements(rw.list)' = Elements(rw.list) /\ Elements(rw.todo)' = Elements(rw.todo)
      /\ Rewind!Touched' = Rewind!Touched /\ Quiet' = Quiet
      /\ \A p : Writes(p)' = Writes(p)
  BY <1>1, <1>2 DEF Elements, Rewind!Touched, Quiet, Writes
<1>5. Undone' = Undone
  BY <1>1, <1>4 DEF Restored, Undone
<1>6. ASSUME NEW p \in Path \ astray' PROVE Accounted(p)'
  BY <1>1, <1>4, <1>5, <1>6, StandsOn DEF HistoryInv, DiskInv, Left
<1>7. FoundInv'
  BY <1>1, <1>2, <1>4 DEF HistoryInv, FoundInv
<1>8. OfFiles'
  BY <1>1, <1>2, <1>4 DEF HistoryInv, ListInv, OfFiles
<1>9. \A p : Chained(Writes(p)) => Chained(Writes(p))'
  BY <1>1, <1>4 DEF Chained, IsLast
<1>10. ListInv'
  BY <1>1, <1>2, <1>4, <1>8, <1>9 DEF HistoryInv, ListInv, IsLast
<1> QED BY <1>3, <1>6, <1>7, <1>10 DEF HistoryInv, DiskInv

\* A file is put back as it was before its first action was taken back.
LEMMA PutBackKeeps ==
  ASSUME HistoryInv, DOMAIN rw = RewindFields, NEW o \in rw.originals, Rewind!PutBack(o)
  PROVE  HistoryInv'
<1> DEFINE p == o.path
<1>0. LogTypes /\ ListInv /\ FoundInv /\ DiskInv
  BY DEF HistoryInv
<1>1. /\ rw.phase \in {"undoing", "late"} /\ UNCHANGED log
      /\ onDisk' = [onDisk EXCEPT ![p] = o.content]
      /\ rw' = [rw EXCEPT !.originals = @ \ {o}]
      /\ astray' = IF rw.phase = "late" \/ p \in rw.raced THEN astray \cup {p} ELSE astray
  BY DEF Rewind!PutBack, Rewind!Compensating
<1>2. /\ rw'.phase = rw.phase /\ rw'.list = rw.list /\ rw'.todo = rw.todo
      /\ rw'.originals = rw.originals \ {o} /\ rw'.raced = rw.raced /\ rw'.found = rw.found
  BY <1>1 DEF RewindFields
<1>3. p \in Path /\ \A q \in rw.originals : q.path = p => q = o
  BY <1>0 DEF FoundInv
<1>4. LogTypes'
  BY <1>0, <1>1 DEF LogTypes
<1>5. Rewind!Touched' = Rewind!Touched \ {p}
  <2>1. Rewind!Touched' = {q.path : q \in rw.originals \ {o}}
    BY <1>2 DEF Rewind!Touched
  <2> QED BY <1>3, <2>1 DEF Rewind!Touched
<1>6. /\ Elements(rw.list)' = Elements(rw.list) /\ Restored' = Restored
      /\ Quiet' \subseteq Quiet /\ \A q : Writes(q)' = Writes(q)
  BY <1>1, <1>2 DEF Elements, Restored, Quiet, Writes
<1>7. \A q \in Path : q # p => Left(q)' = Left(q) /\ onDisk'[q] = onDisk[q]
  <2>1. ASSUME NEW q \in Path, q # p PROVE Left(q)' = Left(q)
    <3>1. \A d \in Writes(q) : d \in Undone' <=> d \in Undone
      BY <1>1, <1>5, <1>6, <2>1 DEF Undone, Writes
    <3> QED BY <1>6, <3>1 DEF Left
  <2>2. \A q \in Path : q # p => onDisk'[q] = onDisk[q]
    BY <1>0, <1>1 DEF LogTypes
  <2> QED BY <2>1, <2>2
<1>8. Left(p)' = Writes(p)
  <2>1. \A d \in Writes(p) : d \notin Undone'
    BY <1>1, <1>5 DEF Undone, Writes
  <2> QED BY <1>6, <2>1 DEF Left
<1>9. ASSUME NEW q \in Path \ astray' PROVE Accounted(q)'
  <2>1. CASE q = p
    <3>1. rw.phase = "undoing" /\ p \in Quiet
      BY <1>1, <1>9, <2>1 DEF Quiet
    <3>2. Chained(Writes(p)) /\ IsLast(o.content, Writes(p))
      BY <1>0, <3>1 DEF ListInv
    <3>3. onDisk'[p] = o.content
      BY <1>0, <1>1, <1>3 DEF LogTypes
    <3>4. \A k \in Writes(p) : IsLast(log'[k].before, {j \in Writes(p) : j < k})
      BY <1>1, <3>2 DEF Chained
    <3> QED BY <1>8, <2>1, <3>2, <3>3, <3>4, StandsAnew
  <2>2. CASE q # p
    <3>1. Accounted(q)
      BY <1>0, <1>1, <1>9 DEF DiskInv
    <3> QED BY <1>1, <1>7, <1>9, <2>2, <3>1, StandsOn
  <2> QED BY <2>1, <2>2
<1>10. FoundInv'
  <2>1. ASSUME NEW q \in Path \ rw'.raced
        PROVE  /\ \A x \in rw'.originals : x.path = q => x.content = rw'.found[q]
               /\ q \notin Rewind!Touched' => onDisk'[q] = rw'.found[q]
    <3>1. /\ \A x \in rw.originals : x.path = q => x.content = rw.found[q]
          /\ q \notin Rewind!Touched => onDisk[q] = rw.found[q]
      BY <1>0, <1>1, <1>2, <2>1 DEF FoundInv
    <3>2. q \notin Rewind!Touched' => onDisk'[q] = rw'.found[q]
      <4>1. CASE q = p
        <5>1. onDisk'[p] = o.content
          BY <1>0, <1>1, <1>3 DEF LogTypes
        <5> QED BY <1>2, <3>1, <4>1, <5>1
      <4>2. CASE q # p
        BY <1>2, <1>5, <1>7, <3>1, <4>2
      <4> QED BY <4>1, <4>2
    <3> QED BY <1>2, <3>1, <3>2
  <2>2. /\ \A x, q \in rw'.originals : x.path = q.path => x = q
        /\ \A x \in rw'.originals : x.path \in Path
    BY <1>0, <1>2 DEF FoundInv
  <2> QED BY <2>1, <2>2 DEF FoundInv
<1>11. ListInv'
  <2>1. OfFiles'
    BY <1>0, <1>1, <1>6 DEF ListInv, OfFiles
  <2>2. ASSUME rw.phase = "undoing", NEW q \in Quiet'
        PROVE  /\ Chained(Writes(q))'
               /\ \A x \in rw'.originals : x.path = q => IsLast(x.content, Writes(q)')
    <3>1. /\ Chained(Writes(q))
          /\ \A x \in rw.originals : x.path = q => IsLast(x.content, Writes(q))
      BY <1>0, <1>6, <2>2 DEF ListInv
    <3>2. Chained(Writes(q))'
      BY <1>1, <1>6, <3>1 DEF Chained, IsLast
    <3> QED BY <1>2, <1>6, <3>1, <3>2
  <2>3. rw.phase = "late" => \A d \in Elements(rw.list)' : log'[d].reversed
    BY <1>0, <1>1, <1>6 DEF ListInv
  <2>4. (rw.phase \in {"restore", "undoing"} => \A q \in Quiet :
          /\ Chained(Writes(q))
          /\ \A x \in rw.originals : x.path = q => IsLast(x.content, Writes(q)))'
    BY <1>1, <1>2, <2>2 DEF IsLast
  <2> QED BY <1>1, <1>2, <2>1, <2>3, <2>4 DEF ListInv
<1> QED BY <1>4, <1>9, <1>10, <1>11 DEF HistoryInv, DiskInv

\* SessionRepository.derive: what is copied is within what it is cut at.
LEMMA DerivedFits ==
  ASSUME summary \in Nat, NEW upto \in Nat
  PROVE  LET c == Rewind!Derive(upto)
         IN  /\ DOMAIN c = {"upto", "summary"}
             /\ c.upto \in Nat /\ c.summary \in Nat /\ c.summary <= c.upto
BY DEF Rewind!Derive

\* The session that is derived, while runs go on.
LEMMA DerivableStays ==
  ASSUME Derivable, Rewind!Next
  PROVE  Derivable'
<1> DEFINE RunOk(r, s) == /\ DOMAIN s = {"kind", "status"}
                          /\ s.kind = "agent" => \E m \in DOMAIN history : history[m] = r
           ChildOk(c) == /\ DOMAIN c = {"upto", "summary"}
                         /\ c.upto \in Nat /\ c.summary \in Nat /\ c.summary <= c.upto
           RwOk(w) == /\ DOMAIN w = RewindFields
                      /\ w.phase \in RewindPhases
<1>0. /\ IsSequence(turnRuns) /\ IsSequence(history) /\ summary \in Nat
      /\ DOMAIN turnRuns = 1 .. Len(turnRuns) /\ Len(turnRuns) \in Nat
      /\ DOMAIN history = 1 .. Len(history) /\ Len(history) \in Nat
      /\ ChildOk(child) /\ RwOk(rw)
  BY Appended DEF Derivable
<1>c. rw.phase = "confirm" =>
        rw.target \in DOMAIN turnRuns /\ turnRuns[rw.target].kind = "agent"
  BY DEF Derivable
<1>m. \A r \in DOMAIN turnRuns :
        /\ DOMAIN turnRuns[r] = {"kind", "status"}
        /\ turnRuns[r].kind = "agent" => \E m \in DOMAIN history : history[m] = r
  BY DEF Derivable
\* Runs and messages are only added, and a run keeps its kind.
<1>1. ASSUME NEW kind, Rewind!Start(kind) PROVE Derivable'
  <2> DEFINE n == Len(turnRuns) + 1
  <2>1. /\ turnRuns' = Append(turnRuns, [kind |-> kind, status |-> "running"])
        /\ history' = IF kind = "agent" THEN Append(history, Len(turnRuns')) ELSE history
        /\ UNCHANGED <<summary, child, rw>>
    BY <1>1 DEF Rewind!Start, Rewind!NewRun, Rewind!LeavesMessage
  <2>2. /\ IsSequence(turnRuns') /\ DOMAIN turnRuns' = 1 .. n
        /\ turnRuns'[n] = [kind |-> kind, status |-> "running"]
        /\ \A r \in DOMAIN turnRuns : turnRuns'[r] = turnRuns[r]
    BY <1>0, <2>1, Appended
  <2>3. Len(turnRuns') = n
    <3>1. DOMAIN turnRuns' = 1 .. Len(turnRuns') /\ Len(turnRuns') \in Nat
      BY <2>2, Appended
    <3> QED BY <1>0, <2>2, <3>1
  <2>4. DOMAIN turnRuns' = DOMAIN turnRuns \cup {n}
    BY <1>0, <2>2
  <2> HIDE DEF n
  <2>5. /\ IsSequence(history')
        /\ \A m \in DOMAIN history : m \in DOMAIN history' /\ history'[m] = history[m]
        /\ kind = "agent" => \E m \in DOMAIN history' : history'[m] = n
    <3>1. CASE kind = "agent"
      <4>1. /\ IsSequence(history') /\ DOMAIN history' = 1 .. (Len(history) + 1)
            /\ history'[Len(history) + 1] = n
            /\ \A m \in DOMAIN history : history'[m] = history[m]
        BY <1>0, <2>1, <2>3, <3>1, Appended
      <4>2. DOMAIN history' = DOMAIN history \cup {Len(history) + 1}
        BY <1>0, <4>1
      <4> QED BY <4>1, <4>2
    <3>2. CASE kind # "agent"
      BY <1>0, <2>1, <3>2
    <3> QED BY <3>1, <3>2
  <2>6. \A r \in DOMAIN turnRuns' :
          /\ DOMAIN turnRuns'[r] = {"kind", "status"}
          /\ turnRuns'[r].kind = "agent" => \E m \in DOMAIN history' : history'[m] = r
    <3>1. ASSUME NEW r \in DOMAIN turnRuns
          PROVE  /\ DOMAIN turnRuns'[r] = {"kind", "status"}
                 /\ turnRuns'[r].kind = "agent" => \E m \in DOMAIN history' : history'[m] = r
      <4>1. turnRuns'[r] = turnRuns[r] /\ DOMAIN turnRuns[r] = {"kind", "status"}
        BY <1>m, <2>2
      <4>2. ASSUME turnRuns[r].kind = "agent"
            PROVE  \E m \in DOMAIN history' : history'[m] = r
        <5>1. PICK m \in DOMAIN history : history[m] = r
          BY <1>m, <4>2
        <5> QED BY <2>5, <5>1
      <4> QED BY <4>1, <4>2
    <3>2. DOMAIN turnRuns'[n] = {"kind", "status"} /\ turnRuns'[n].kind = kind
      BY <2>2
    <3> QED BY <2>4, <2>5, <3>1, <3>2
  <2> QED BY <1>0, <1>c, <2>1, <2>2, <2>4, <2>5, <2>6 DEF Derivable
<1>2. ASSUME NEW r \in DOMAIN turnRuns, NEW s, Rewind!SetStatus(r, s),
             \/ history' = history \/ history' = Append(history, r),
             UNCHANGED <<summary, child, rw>>
      PROVE  Derivable'
  <2>1. turnRuns' = [turnRuns EXCEPT ![r] = [turnRuns[r] EXCEPT !.status = s]]
    BY <1>2 DEF Rewind!SetStatus
  <2>2. /\ IsSequence(turnRuns') /\ DOMAIN turnRuns' = DOMAIN turnRuns
        /\ turnRuns'[r] = [turnRuns[r] EXCEPT !.status = s]
        /\ \A q \in DOMAIN turnRuns : q # r => turnRuns'[q] = turnRuns[q]
    BY <1>0, <2>1, Replaced
  <2>3. /\ DOMAIN turnRuns'[r] = {"kind", "status"} /\ turnRuns'[r].kind = turnRuns[r].kind
    BY <1>m, <2>2
  <2>4. /\ IsSequence(history')
        /\ \A m \in DOMAIN history : m \in DOMAIN history' /\ history'[m] = history[m]
    <3>1. CASE history' = Append(history, r)
      <4>1. /\ IsSequence(history') /\ DOMAIN history' = 1 .. (Len(history) + 1)
            /\ \A m \in DOMAIN history : history'[m] = history[m]
        BY <1>0, <3>1, Appended
      <4> QED BY <1>0, <4>1
    <3> QED BY <1>0, <1>2, <3>1
  <2>5. \A q \in DOMAIN turnRuns' :
          /\ DOMAIN turnRuns'[q] = {"kind", "status"}
          /\ turnRuns'[q].kind = "agent" => \E m \in DOMAIN history' : history'[m] = q
    BY <1>m, <2>2, <2>3, <2>4
  <2>6. rw.phase = "confirm" =>
          rw.target \in DOMAIN turnRuns' /\ turnRuns'[rw.target].kind = "agent"
    BY <1>c, <2>2, <2>3
  <2> QED BY <1>0, <1>2, <2>2, <2>4, <2>5, <2>6 DEF Derivable
<1>3. ASSUME UNCHANGED <<turnRuns, history>>, summary' \in Nat, ChildOk(child'), RwOk(rw'),
             rw'.phase = "confirm" =>
               rw'.target \in DOMAIN turnRuns /\ turnRuns[rw'.target].kind = "agent"
      PROVE  Derivable'
  BY <1>0, <1>m, <1>3 DEF Derivable
<1>4. ASSUME NEW upto \in Nat, child' = Rewind!Derive(upto) PROVE ChildOk(child')
  BY <1>0, <1>4, DerivedFits
<1>5. RwOk(Rewind!NoRewind) /\ Rewind!NoRewind.phase = "idle" /\ ChildOk(Rewind!NoChild)
  BY DEF Rewind!NoRewind, Rewind!NoChild, RewindFields, RewindPhases
<1>6. ASSUME Rewind!StartRun \/ Rewind!SideQuestion PROVE Derivable'
  BY <1>1, <1>6 DEF Rewind!StartRun, Rewind!SideQuestion
<1>7. ASSUME NEW r \in DOMAIN turnRuns, Rewind!Pause(r) \/ Rewind!Resume(r) PROVE Derivable'
  BY <1>2, <1>7 DEF Rewind!Pause, Rewind!Resume
<1>8. ASSUME NEW r \in DOMAIN turnRuns, NEW s, Rewind!Finish(r, s) PROVE Derivable'
  BY <1>2, <1>8 DEF Rewind!Finish
<1> HIDE DEF ChildOk, RwOk
<1>9. ASSUME NEW r, NEW p, Rewind!Write(r, p) PROVE Derivable'
  <2>1. /\ UNCHANGED <<turnRuns, history, summary, child>>
        /\ rw' = IF rw.phase = "idle" THEN rw ELSE [rw EXCEPT !.raced = @ \cup {p}]
    BY <1>9 DEF Rewind!Write, Rewind!Idle
  <2>2. RwOk(rw') /\ rw'.phase = rw.phase /\ rw'.target = rw.target
    BY <1>0, <2>1 DEF RwOk, RewindFields
  <2> QED BY <1>0, <1>3, <1>c, <2>1, <2>2
<1>10. ASSUME NEW r, Rewind!Command(r) PROVE Derivable'
  BY <1>0, <1>3, <1>c, <1>10 DEF Rewind!Command
<1>11. ASSUME Rewind!Compact PROVE Derivable'
  <2>1. UNCHANGED <<turnRuns, history, child, rw>> /\ summary' \in Nat
    BY <1>0, <1>11 DEF Rewind!Compact
  <2> QED BY <1>0, <1>3, <1>c, <2>1
<1>12. ASSUME Rewind!Undo PROVE Derivable'
  <2>1. UNCHANGED <<turnRuns, history, summary, child, rw>>
    BY <1>12 DEF Rewind!Undo
  <2> QED BY <1>0, <1>3, <1>c, <2>1
<1>13. ASSUME Rewind!Branch PROVE Derivable'
  BY <1>0, <1>3, <1>4, <1>c, <1>13 DEF Rewind!Branch
<1>14. ASSUME NEW t \in DOMAIN turnRuns, Rewind!Rewind(t) PROVE Derivable'
  <2> DEFINE l == Rewind!Descending(Rewind!Later(t))
             b == Rewind!Blockers(Rewind!Later(t))
  <2>1. rw' = [Rewind!NoRewind EXCEPT !.phase = "confirm", !.target = t,
                 !.list = l, !.todo = l, !.blocked = b, !.found = onDisk]
    BY <1>14 DEF Rewind!Rewind
  <2> HIDE DEF l, b
  <2>2. rw'.phase = "confirm" /\ rw'.target = t /\ RwOk(rw')
    BY <2>1 DEF RwOk, RewindFields, RewindPhases, Rewind!NoRewind
  <2>3. turnRuns[t].kind = "agent" /\ UNCHANGED <<turnRuns, history, summary, child>>
    BY <1>14 DEF Rewind!Rewind, Rewind!CanTarget
  <2> QED BY <1>0, <1>3, <2>2, <2>3
<1>15. ASSUME \/ Rewind!Decline \/ Rewind!FinishAudit \/ Rewind!Compensated
              \/ Rewind!CompensationFails
       PROVE  Derivable'
  BY <1>0, <1>3, <1>5, <1>15 DEF Rewind!Decline, Rewind!FinishAudit, Rewind!Compensated,
     Rewind!CompensationFails, Rewind!Abandon
<1>16. ASSUME Rewind!Confirm PROVE Derivable'
  <2> DEFINE M == {m \in DOMAIN history : history[m] = rw.target}
  <2>1. /\ rw.phase = "confirm" /\ UNCHANGED <<turnRuns, history, summary>>
        /\ child' = Rewind!Derive(Rewind!LastMessage(rw.target))
        /\ rw' = IF rw.blocked THEN Rewind!NoRewind ELSE [rw EXCEPT !.phase = "restore"]
    BY <1>16 DEF Rewind!Confirm
  <2>2. M # {} /\ M \in SUBSET (1 .. Len(history))
    BY <1>0, <1>c, <1>m, <2>1
  <2>3. Rewind!LastMessage(rw.target) \in Nat
    <3>1. Rewind!LastMessage(rw.target) \in M
      BY <1>0, <2>2, LastAndFirst DEF Rewind!LastMessage
    <3>2. \A m \in 1 .. Len(history) : m \in Nat
      OBVIOUS
    <3> HIDE DEF M
    <3> QED BY <2>2, <3>1, <3>2
  <2>4. ChildOk(child')
    BY <1>4, <2>1, <2>3
  <2>5. RwOk(rw') /\ rw'.phase # "confirm"
    <3>1. CASE rw.blocked
      BY <1>5, <2>1, <3>1
    <3>2. CASE ~rw.blocked
      BY <1>0, <2>1, <3>2 DEF RwOk, RewindFields, RewindPhases
    <3> QED BY <3>1, <3>2
  <2> QED BY <1>0, <1>3, <2>1, <2>4, <2>5
<1>17. ASSUME \/ Rewind!RestoreFile \/ Rewind!MarkReversed \/ Rewind!RestoreFails
              \/ \E o \in rw.originals : Rewind!PutBack(o)
       PROVE Derivable'
  <2>1. UNCHANGED <<turnRuns, history, summary, child>>
    BY <1>17 DEF Rewind!RestoreFile, Rewind!MarkReversed, Rewind!RestoreFails, Rewind!PutBack
  <2>2. RwOk(rw') /\ rw'.phase # "confirm"
    <3>1. CASE Rewind!RestoreFile
      <4> DEFINE x == Tail(rw.todo)
                 y == Rewind!Remember(log[Head(rw.todo)].path)
      <4>1. rw' = [rw EXCEPT !.todo = x, !.originals = y] /\ rw.phase = "restore"
        BY <3>1 DEF Rewind!RestoreFile
      <4> HIDE DEF x, y
      <4> QED BY <1>0, <4>1 DEF RwOk, RewindFields
    <3>2. CASE Rewind!MarkReversed \/ Rewind!RestoreFails
      <4>1. PICK x \in {"marked", "undoing", "late"} : rw' = [rw EXCEPT !.phase = x]
        BY <3>2 DEF Rewind!MarkReversed, Rewind!RestoreFails
      <4> QED BY <1>0, <4>1 DEF RwOk, RewindFields, RewindPhases
    <3>3. CASE \E o \in rw.originals : Rewind!PutBack(o)
      <4>1. rw.phase \in {"undoing", "late"} /\ \E x : rw' = [rw EXCEPT !.originals = x]
        BY <3>3 DEF Rewind!PutBack, Rewind!Compensating
      <4>2. PICK x : rw' = [rw EXCEPT !.originals = x]
        BY <4>1
      <4> QED BY <1>0, <4>1, <4>2 DEF RwOk, RewindFields
    <3> QED BY <1>17, <3>1, <3>2, <3>3
  <2> QED BY <1>0, <1>3, <2>1, <2>2
\* A crash ends the runs that were under way.
<1>18. ASSUME Rewind!Crash PROVE Derivable'
  <2>1. /\ UNCHANGED <<history, summary, child>> /\ rw' = Rewind!NoRewind
        /\ turnRuns' = [r \in DOMAIN turnRuns |->
             IF turnRuns[r].status = "running" THEN [turnRuns[r] EXCEPT !.status = "failed"]
             ELSE turnRuns[r]]
    BY <1>18 DEF Rewind!Crash, Rewind!Abandon
  <2>2. /\ DOMAIN turnRuns' = DOMAIN turnRuns
        /\ \A r \in DOMAIN turnRuns : /\ DOMAIN turnRuns'[r] = {"kind", "status"}
                                      /\ turnRuns'[r].kind = turnRuns[r].kind
    BY <1>m, <2>1
  <2>3. IsSequence(turnRuns')
    <3>1. turnRuns' \in [1 .. Len(turnRuns) -> {turnRuns'[r] : r \in DOMAIN turnRuns'}]
      BY <1>0, <2>1
    <3> QED BY <1>0, <3>1, SeqDef DEF IsSequence
  <2>4. /\ ChildOk(child') /\ DOMAIN rw' = RewindFields /\ rw'.phase = "idle"
    BY <1>0, <1>5, <2>1 DEF RwOk
  <2>5. \A r \in DOMAIN turnRuns' :
          /\ DOMAIN turnRuns'[r] = {"kind", "status"}
          /\ turnRuns'[r].kind = "agent" => \E m \in DOMAIN history' : history'[m] = r
    BY <1>m, <2>1, <2>2
  <2> QED BY <1>0, <2>1, <2>3, <2>4, <2>5 DEF Derivable, ChildOk, RewindPhases
<1> QED BY <1>6, <1>7, <1>8, <1>9, <1>10, <1>11, <1>12, <1>13, <1>14, <1>15, <1>16, <1>17,
           <1>18 DEF Rewind!Next

RewindInv == HistoryInv /\ Derivable

\* Every step of the session's history keeps what is known of disk and log.
LEMMA HistoryKeeps ==
  ASSUME HistoryInv, Derivable, "command" \notin Path, Rewind!Next
  PROVE  HistoryInv'
<1>0. /\ Path \cap {"command"} = {}
      /\ DOMAIN rw = RewindFields /\ rw.phase \in RewindPhases
  BY DEF Derivable
\* Runs, pauses, the end of a run, compaction and branches.
<1>1. ASSUME Rewind!StartRun \/ Rewind!SideQuestion PROVE HistoryInv'
  <2>1. UNCHANGED <<log, onDisk, astray, rw>>
    BY <1>1 DEF Rewind!StartRun, Rewind!SideQuestion, Rewind!Start
  <2> QED BY <2>1, DiskFrame
<1>2. ASSUME NEW r \in DOMAIN turnRuns, Rewind!Pause(r) \/ Rewind!Resume(r)
      PROVE  HistoryInv'
  <2>1. UNCHANGED <<log, onDisk, astray, rw>>
    BY <1>2 DEF Rewind!Pause, Rewind!Resume
  <2> QED BY <2>1, DiskFrame
<1>3. ASSUME NEW r \in DOMAIN turnRuns, NEW s, Rewind!Finish(r, s)
      PROVE  HistoryInv'
  <2>1. UNCHANGED <<log, onDisk, astray, rw>>
    BY <1>3 DEF Rewind!Finish
  <2> QED BY <2>1, DiskFrame
<1>4. ASSUME Rewind!Compact \/ Rewind!Branch PROVE HistoryInv'
  <2>1. UNCHANGED <<log, onDisk, astray, rw>>
    BY <1>4 DEF Rewind!Compact, Rewind!Branch
  <2> QED BY <2>1, DiskFrame
\* Writes, commands and /undo.
<1>5. ASSUME NEW r \in DOMAIN turnRuns \cup {0}, NEW p \in Path, Rewind!Write(r, p)
      PROVE  HistoryInv'
  BY <1>0, <1>5, WriteKeeps
<1>6. ASSUME NEW r \in DOMAIN turnRuns, Rewind!Command(r) PROVE HistoryInv'
  BY <1>0, <1>6, CommandKeeps
<1>7. ASSUME Rewind!Undo PROVE HistoryInv'
  BY <1>0, <1>7, UndoKeeps
\* /rewind: its check, its answer, the restore of each file, its failure and the
\* failure of that.
<1>8. ASSUME NEW t \in DOMAIN turnRuns, Rewind!Rewind(t) PROVE HistoryInv'
  BY <1>8, RewindBegins
<1>9. ASSUME Rewind!Decline \/ Rewind!FinishAudit PROVE HistoryInv'
  <2>1. /\ UNCHANGED <<onDisk, log, astray>> /\ rw.phase \in {"confirm", "marked"}
        /\ rw' = Rewind!NoRewind
    BY <1>9 DEF Rewind!Decline, Rewind!FinishAudit
  <2> QED BY <1>0, <2>1, RewindEnds
<1>10. ASSUME Rewind!Confirm PROVE HistoryInv'
  BY <1>0, <1>10, ConfirmKeeps
<1>11. ASSUME Rewind!RestoreFile PROVE HistoryInv'
  BY <1>0, <1>11, RestoreKeeps
<1>12. ASSUME Rewind!MarkReversed PROVE HistoryInv'
  BY <1>0, <1>12, MarkKeeps
<1>13. ASSUME Rewind!RestoreFails PROVE HistoryInv'
  BY <1>0, <1>13, FailureKeeps
<1>14. ASSUME NEW o \in rw.originals, Rewind!PutBack(o) PROVE HistoryInv'
  BY <1>0, <1>14, PutBackKeeps
<1>15. ASSUME Rewind!Compensated PROVE HistoryInv'
  <2>1. /\ UNCHANGED <<onDisk, log, astray>> /\ rw' = Rewind!NoRewind
        /\ Rewind!Touched = {}
    BY <1>15 DEF Rewind!Compensated, Rewind!Touched
  <2> QED BY <1>0, <2>1, RewindEnds
<1>16. ASSUME Rewind!CompensationFails \/ Rewind!Crash PROVE HistoryInv'
  <2>1. /\ UNCHANGED <<onDisk, log>> /\ rw' = Rewind!NoRewind
        /\ astray' = IF rw.phase \in {"restore", "undoing"} THEN astray \cup Rewind!Touched
                     ELSE astray
    BY <1>16 DEF Rewind!CompensationFails, Rewind!Crash, Rewind!Abandon
  <2>2. astray \subseteq astray'
    BY <2>1
  <2>3. rw.phase \in {"restore", "undoing"} => Rewind!Touched \subseteq astray'
    BY <2>1
  <2> QED BY <1>0, <2>1, <2>2, <2>3, RewindEnds
<1> QED BY <1>1, <1>2, <1>3, <1>4, <1>5, <1>6, <1>7, <1>8, <1>9, <1>10, <1>11, <1>12,
           <1>13, <1>14, <1>15, <1>16 DEF Rewind!Next

\* Rewind: the files are what the records say, whatever was taken back.
LEMMA RewindSafe ==
  ASSUME "command" \notin Path
  PROVE  Rewind!Spec => []Rewind!RewindIsExact
<1>1. Rewind!Init => RewindInv
  <2> SUFFICES ASSUME Rewind!Init PROVE RewindInv
    OBVIOUS
  <2>1. /\ onDisk = [p \in Path |-> 0] /\ log = <<>> /\ turnRuns = <<>> /\ history = <<>>
        /\ summary = 0 /\ astray = {}
        /\ child = Rewind!NoChild /\ rw = Rewind!NoRewind
    BY DEF Rewind!Init, Rewind!NoFiles
  <2>2. IsSequence(<<>>) /\ DOMAIN <<>> = {}
    BY DEF IsSequence
  <2>3. /\ DOMAIN rw = RewindFields /\ rw.phase = "idle" /\ rw.originals = {}
        /\ DOMAIN child = {"upto", "summary"} /\ child.upto = 0 /\ child.summary = 0
    BY <2>1 DEF Rewind!NoChild, Rewind!NoRewind, RewindFields
  <2>4. LogTypes /\ Derivable
    BY <2>1, <2>2, <2>3 DEF LogTypes, Derivable, RewindPhases
  <2>5. ListInv /\ FoundInv
    BY <2>3 DEF ListInv, FoundInv
  <2>6. ASSUME NEW p \in Path PROVE Accounted(p)
    <3>1. onDisk[p] = 0 /\ Left(p) = {}
      BY <2>1, <2>2 DEF Left, Writes
    <3> QED BY <3>1 DEF Accounted, Chained, IsLast
  <2> QED BY <2>4, <2>5, <2>6 DEF RewindInv, HistoryInv, DiskInv
<1>2. RewindInv /\ [Rewind!Next]_(Rewind!vars) => RewindInv'
  <2> SUFFICES ASSUME RewindInv, [Rewind!Next]_(Rewind!vars) PROVE RewindInv'
    OBVIOUS
  <2>1. CASE Rewind!Next
    BY <2>1, HistoryKeeps, DerivableStays DEF RewindInv
  <2>2. CASE UNCHANGED Rewind!vars
    <3>1. UNCHANGED <<onDisk, log, turnRuns, history, summary, child, rw, astray>>
      BY <2>2 DEF Rewind!vars
    <3>2. Derivable'
      BY <3>1 DEF RewindInv, Derivable
    <3> QED BY <3>1, <3>2, DiskFrame DEF RewindInv
  <2> QED BY <2>1, <2>2
<1>3. RewindInv => Rewind!RewindIsExact
  <2> SUFFICES ASSUME RewindInv PROVE Rewind!RewindIsExact
    OBVIOUS
  <2>1. ASSUME rw.phase \notin {"restore", "undoing"}, NEW p \in Path \ astray
        PROVE  onDisk[p] = Rewind!LastKept(p)
    <3>1. rw.phase \in {"idle", "confirm", "marked", "late"}
      BY <2>1 DEF RewindInv, Derivable, RewindPhases
    <3>2. Left(p) = Writes(p)
      BY <3>1, AllIsLeft DEF RewindInv, HistoryInv
    <3>3. IsLast(onDisk[p], Writes(p)) /\ LogTypes
      BY <2>1, <3>2 DEF RewindInv, HistoryInv, DiskInv, Accounted
    <3> QED BY <3>3, RecordsTell
  <2>2. ASSUME Rewind!Compensating, rw.originals = {}, NEW p \in Path \ rw.raced
        PROVE  onDisk[p] = rw.found[p]
    <3>1. rw.phase # "idle" /\ p \notin Rewind!Touched
      BY <2>2 DEF Rewind!Compensating, Rewind!Touched
    <3> QED BY <2>2, <3>1 DEF RewindInv, HistoryInv, FoundInv
  <2>3. child.summary <= child.upto
    BY DEF RewindInv, Derivable
  <2> QED BY <2>1, <2>2, <2>3 DEF Rewind!RewindIsExact
<1> QED BY <1>1, <1>2, <1>3, PTL DEF Rewind!Spec

\* rewind.py, reverse_last_file_action and SessionRepository.derive: in Session,
\* outside a restore and its compensation a file holds what its last write left
\* that no /undo and no /rewind took back, for any number of runs, files, writes,
\* undos and rewinds, those that fail included, except the files that were left
\* astray; a /rewind that fails at any point, the one after its marks are committed
\* included, puts back what it found; and a derived session's summary covers only
\* messages it has.
THEOREM RewindsAreExact == Spec => []RewindIsExact
<1>0. Rewind!Spec => []Rewind!RewindIsExact
  BY RewindSafe, SessionAssumption DEF SessionAssumption
<1>1. Init => Rewind!Init \/ focus # "rewind"
  BY DEF Init
<1>2. [Next]_vars => [Rewind!Next]_(Rewind!vars)
  BY DEF Next, vars, RewindVars, Rewind!vars
<1>3. focus # "rewind" /\ [Next]_vars => (focus # "rewind")'
  BY DEF Next, vars
<1>4. Rewind!RewindIsExact \/ focus # "rewind" => RewindIsExact
  BY DEF RewindIsExact
<1> QED BY <1>0, <1>1, <1>2, <1>3, <1>4, PTL DEF Spec, Rewind!Spec

-----------------------------------------------------------------------------
(***************************************************************************)
(* The budget of a work item.  What the governor counts when it looks is   *)
(* no less than what it called and what the children it pays for have      *)
(* settled; what these hold, settled, reserved or shared out, stays within *)
(* what is left (Ledger).  The sums over the children come with the lemmas *)
(* that the argument needs of them.                                        *)
(***************************************************************************)

KidFields == {"state", "run", "share", "used", "usage"}
Unclaimed == {"none", "shared", "planned"}
KidStates ==
  Unclaimed \cup Budget!Live \cup {"interrupted", "completed", "failed"}
GovFields == {"rounds", "limit", "calls", "child", "history", "extensions", "stopped"}

\* A child: what it has used stays within its share, and the row has it once the
\* child has completed.  The budget of the run covers, of the live ones, only its own.
KidOk(k) ==
  /\ DOMAIN kids[k] = KidFields /\ kids[k].state \in KidStates
  /\ kids[k].run \in Nat /\ kids[k].run <= itemRun
  /\ kids[k].share \in Nat /\ kids[k].used \in Nat /\ kids[k].used <= kids[k].share
  /\ kids[k].usage = IF kids[k].state = "completed" THEN kids[k].used ELSE 0
  /\ kids[k].state \in Unclaimed => k \notin loose
  /\ kids[k].state \in Budget!Live \cup {"shared"} /\ k \notin loose => kids[k].run = itemRun
  /\ k \in late => kids[k].state = "completed" /\ kids[k].run = itemRun

KidTypes == itemRun \in Nat /\ DOMAIN kids = Kid /\ \A k \in Kid : KidOk(k)

\* The governor: its row is what it has in memory, and its history is the calls
\* that were made.
GovTypes ==
  /\ DOMAIN gov = GovFields /\ saved = gov /\ gov.calls \in Int /\ gov.child \in Int
  /\ IsSequence(made) /\ IsSequence(gov.history) /\ DOMAIN made = DOMAIN gov.history
  /\ \A i \in DOMAIN gov.history :
       DOMAIN gov.history[i] = {"call", "ok"} /\ gov.history[i].call = made[i]

SumOver(f, S) == Budget!SumFunctionOnSet(f, S)

\* What the governor is told its children have settled in this run, and what of
\* it the row does not have yet.
Owed == [k \in Kid |-> IF k \in Budget!Mine(itemRun) THEN kids[k].usage ELSE 0]
Unsaved == [k \in Kid |-> IF k \in late THEN kids[k].usage ELSE 0]
\* What the children the budget covers have settled, and what of it the row has.
Taken == [k \in Kid |-> IF k \in loose THEN 0 ELSE kids[k].usage]
Booked == [k \in Kid |-> IF k \in loose \cup late THEN 0 ELSE kids[k].usage]
\* What they may have used, or may still use.
Held == [k \in Kid |-> IF k \in loose THEN 0
                       ELSE IF kids[k].state \in Budget!Live \cup {"shared"}
                            THEN kids[k].share ELSE kids[k].usage]

Ledger ==
  /\ gov.child + SumOver(Unsaved, Kid) = SumOver(Owed, Kid)
  /\ Len(made) + SumOver(Booked, Kid) <= gov.calls
  /\ Len(made) + SumOver(Held, Kid) <= CallLimit

BudgetInv == KidTypes /\ GovTypes /\ Ledger /\ Budget!NoEndlessLoop

\* What holds of the empty set, and of a set whenever it holds of the set with
\* any one element less, holds of every finite set.
Inherited(G, S) == \A T \in SUBSET S : T # {} /\ (\A x \in T : T \ {x} \in G) => T \in G

LEMMA Shrinking ==
  ASSUME NEW S, IsFiniteSet(S), NEW G, {} \in G, Inherited(G, S)
  PROVE  \A T \in SUBSET S : T \in G
<1> DEFINE bad == {T \in SUBSET S : T \notin G}
           sizes == {Cardinality(T) : T \in bad}
           R == OpToRel(<, Nat)
<1>0. \A T \in SUBSET S : IsFiniteSet(T) /\ Cardinality(T) \in Nat
  BY FS_Subset, FS_CardinalityType
<1> SUFFICES ASSUME bad # {} PROVE FALSE
  OBVIOUS
<1>1. sizes \subseteq Nat /\ sizes # {}
  BY <1>0
<1>2. PICK n \in sizes : \A m \in sizes : ~(<<m, n>> \in R)
  BY <1>1, WFMin, NatLessThanWellFounded
<1>3. PICK T \in bad : n = Cardinality(T)
  OBVIOUS
<1>4. ASSUME NEW x \in T PROVE T \ {x} \in G
  <2>1. Cardinality(T \ {x}) = n - 1 /\ Cardinality(T \ {x}) \in Nat /\ n \in Nat
    BY <1>0, <1>3, FS_RemoveElement
  <2>2. <<n - 1, n>> \in R
    BY <2>1 DEF OpToRel
  <2>3. n - 1 \notin sizes
    BY <1>2, <2>2
  <2>4. T \ {x} \notin bad
    BY <2>1, <2>3
  <2> QED BY <1>3, <2>4
<1> QED BY <1>3, <1>4 DEF Inherited

\* The sum of a function over a finite set, as the library defines it: over any
\* one element and then over the others.
AnyOf(s) == CHOOSE x \in s : TRUE
SumStep(f, h, s) == IF s = {} THEN 0 ELSE f[AnyOf(s)] + h[s \ {AnyOf(s)}]
Sums(f, S) == CHOOSE h : h = [s \in SUBSET S |-> SumStep(f, h, s)]

\* What the definition of the library says.
LEMMA SumIs == \A f, S : SumOver(f, S) = Sums(f, S)[S]
BY DEF SumOver, Budget!SumFunctionOnSet, Budget!FoldFunctionOnSet, Budget!MapThenFoldSet,
       AnyOf, Sums, SumStep

\* There is such a function: one for the subsets up to each size.
LEMMA SumsExist ==
  ASSUME NEW S, IsFiniteSet(S), NEW f
  PROVE  Sums(f, S) = [s \in SUBSET S |-> SumStep(f, Sums(f, S), s)]
<1> DEFINE Small(n) == {s \in SUBSET S : Cardinality(s) <= n}
           Defined(n) == \E h : h = [s \in Small(n) |-> SumStep(f, h, s)]
           bad == {n \in Nat : ~Defined(n)}
           R == OpToRel(<, Nat)
<1>0. \A s \in SUBSET S : IsFiniteSet(s) /\ Cardinality(s) \in Nat
  BY FS_Subset, FS_CardinalityType
<1>1. Defined(0)
  <2> DEFINE h == [s \in Small(0) |-> 0]
  <2>1. \A s \in Small(0) : s = {}
    BY <1>0, FS_EmptySet
  <2>2. h = [s \in Small(0) |-> SumStep(f, h, s)]
    BY <2>1 DEF SumStep
  <2> QED BY <2>2
<1>2. ASSUME NEW n \in Nat, Defined(n) PROVE Defined(n + 1)
  <2> PICK h : h = [s \in Small(n) |-> SumStep(f, h, s)]
    BY <1>2
  <2> DEFINE g == [s \in Small(n + 1) |-> SumStep(f, h, s)]
  <2>1. Small(n) \subseteq Small(n + 1)
    BY <1>0
  <2>2. \A s \in Small(n) : g[s] = h[s]
    BY <2>1
  <2>3. ASSUME NEW s \in Small(n + 1) PROVE SumStep(f, g, s) = SumStep(f, h, s)
    <3>1. CASE s = {}
      BY <3>1 DEF SumStep
    <3>2. CASE s # {}
      <4>1. AnyOf(s) \in s
        BY <3>2 DEF AnyOf
      <4>2. /\ Cardinality(s \ {AnyOf(s)}) = Cardinality(s) - 1
            /\ Cardinality(s) \in Nat /\ Cardinality(s) <= n + 1
        BY <1>0, <4>1, FS_RemoveElement
      <4>3. s \ {AnyOf(s)} \in Small(n)
        BY <4>2
      <4> HIDE DEF g, Small
      <4> QED BY <2>2, <4>3 DEF SumStep
    <3> QED BY <3>1, <3>2
  <2>4. g = [s \in Small(n + 1) |-> SumStep(f, g, s)]
    BY <2>3
  <2> QED BY <2>4
<1> HIDE DEF Defined
<1>3. bad = {}
  <2> SUFFICES ASSUME bad # {} PROVE FALSE
    OBVIOUS
  <2>1. bad \subseteq Nat
    OBVIOUS
  <2>2. PICK n \in bad : \A m \in bad : ~(<<m, n>> \in R)
    BY <2>1, WFMin, NatLessThanWellFounded
  <2>3. n \in Nat /\ n # 0 /\ ~Defined(n)
    BY <1>1
  <2>4. n - 1 \in Nat /\ <<n - 1, n>> \in R
    BY <2>3 DEF OpToRel
  <2>5. Defined(n - 1)
    BY <2>2, <2>4
  <2>6. Defined((n - 1) + 1)
    BY <1>2, <2>4, <2>5
  <2>7. (n - 1) + 1 = n
    BY <2>3
  <2> QED BY <2>3, <2>6, <2>7
<1>4. Cardinality(S) \in Nat /\ Defined(Cardinality(S))
  BY <1>0, <1>3
<1>5. Small(Cardinality(S)) = SUBSET S
  BY <1>0, FS_Subset
<1>6. \E h : h = [s \in SUBSET S |-> SumStep(f, h, s)]
  BY <1>4, <1>5 DEF Defined
<1> QED BY <1>6 DEF Sums

\* The empty sum, and the sum over one element less.
LEMMA SumUnfolds ==
  ASSUME NEW S, IsFiniteSet(S), NEW f
  PROVE  /\ SumOver(f, {}) = 0
         /\ S # {} => SumOver(f, S) = f[AnyOf(S)] + SumOver(f, S \ {AnyOf(S)})
<1>1. ASSUME NEW T \in SUBSET S PROVE Sums(f, T)[T] = Sums(f, S)[T]
  <2> DEFINE h == Sums(f, T)
             k == Sums(f, S)
             G == {s \in SUBSET T : h[s] = k[s]}
  <2>1. IsFiniteSet(T)
    BY FS_Subset
  <2>2. h = [s \in SUBSET T |-> SumStep(f, h, s)] /\ k = [s \in SUBSET S |-> SumStep(f, k, s)]
    BY <2>1, SumsExist
  <2> HIDE DEF h, k
  <2>3. \A s \in SUBSET T : h[s] = SumStep(f, h, s) /\ k[s] = SumStep(f, k, s)
    BY <2>2
  <2>4. {} \in G
    BY <2>3 DEF SumStep
  <2>5. ASSUME NEW s \in SUBSET T, s # {}, \A x \in s : s \ {x} \in G PROVE s \in G
    <3>1. AnyOf(s) \in s
      BY <2>5 DEF AnyOf
    <3>2. h[s \ {AnyOf(s)}] = k[s \ {AnyOf(s)}]
      BY <2>5, <3>1
    <3> QED BY <2>3, <2>5, <3>2 DEF SumStep
  <2>6. T \in G
    <3>1. Inherited(G, T)
      BY <2>5 DEF Inherited
    <3> HIDE DEF G
    <3> QED BY <2>1, <2>4, <3>1, Shrinking
  <2> QED BY <2>6 DEF h, k
<1>2. Sums(f, S) = [s \in SUBSET S |-> SumStep(f, Sums(f, S), s)]
  BY SumsExist
<1>3. SumOver(f, {}) = 0
  <2>1. Sums(f, S)[{}] = SumStep(f, Sums(f, S), {})
    BY <1>2
  <2> QED BY <1>1, <2>1, SumIs DEF SumStep
<1>4. ASSUME S # {} PROVE SumOver(f, S) = f[AnyOf(S)] + SumOver(f, S \ {AnyOf(S)})
  <2>1. Sums(f, S)[S] = SumStep(f, Sums(f, S), S)
    BY <1>2
  <2>2. Sums(f, S \ {AnyOf(S)})[S \ {AnyOf(S)}] = Sums(f, S)[S \ {AnyOf(S)}]
    BY <1>1
  <2> QED BY <1>4, <2>1, <2>2, SumIs DEF SumStep
<1> QED BY <1>3, <1>4

\* Any element may be the one that is taken out.
LEMMA SumTakesOut ==
  ASSUME NEW S, IsFiniteSet(S), NEW f, \A x \in S : f[x] \in Int
  PROVE  /\ SumOver(f, {}) = 0
         /\ \A T \in SUBSET S :
              /\ SumOver(f, T) \in Int
              /\ \A x \in T : SumOver(f, T) = f[x] + SumOver(f, T \ {x})
<1> DEFINE Sum(T) == SumOver(f, T)
           Good(T) == /\ Sum(T) \in Int
                      /\ \A x \in T : Sum(T \ {x}) \in Int /\ Sum(T) = f[x] + Sum(T \ {x})
           G == {T \in SUBSET S : Good(T)}
<1>0. \A T \in SUBSET S : IsFiniteSet(T)
  BY FS_Subset
<1>1. /\ Sum({}) = 0
      /\ \A T \in SUBSET S : T # {} => AnyOf(T) \in T /\ Sum(T) = f[AnyOf(T)] + Sum(T \ {AnyOf(T)})
  BY <1>0, SumUnfolds DEF AnyOf
<1> HIDE DEF Sum
<1>2. {} \in G
  BY <1>1
<1>3. ASSUME NEW T \in SUBSET S, T # {}, \A x \in T : T \ {x} \in G PROVE T \in G
  <2> DEFINE c == AnyOf(T)
  <2>1. c \in T /\ Sum(T) = f[c] + Sum(T \ {c}) /\ Good(T \ {c})
    BY <1>1, <1>3
  <2> HIDE DEF c
  <2>2. f[c] \in Int /\ Sum(T) \in Int
    BY <2>1
  <2>3. ASSUME NEW x \in T
        PROVE  Sum(T \ {x}) \in Int /\ Sum(T) = f[x] + Sum(T \ {x})
    <3>1. CASE x = c
      BY <2>1, <3>1
    <3>2. CASE x # c
      <4>1. Sum(T \ {c}) = f[x] + Sum((T \ {c}) \ {x})
        BY <2>1, <3>2
      <4>2. Good(T \ {x}) /\ c \in T \ {x}
        BY <1>3, <2>1, <3>2
      <4>3. Sum(T \ {x}) = f[c] + Sum((T \ {x}) \ {c})
        BY <4>2
      <4>4. (T \ {x}) \ {c} = (T \ {c}) \ {x} /\ f[x] \in Int
        OBVIOUS
      <4>5. Sum((T \ {c}) \ {x}) \in Int
        BY <2>1, <3>2
      <4>6. Sum(T) = f[c] + (f[x] + Sum((T \ {c}) \ {x}))
        BY <2>1, <4>1
      <4>7. Sum(T \ {x}) = f[c] + Sum((T \ {c}) \ {x})
        BY <4>3, <4>4
      <4> QED BY <2>2, <4>4, <4>5, <4>6, <4>7
    <3> QED BY <3>1, <3>2
  <2> QED BY <2>2, <2>3
<1>4. \A T \in SUBSET S : T \in G
  <2>1. Inherited(G, S)
    BY <1>3 DEF Inherited
  <2> HIDE DEF G
  <2> QED BY <1>2, <2>1, Shrinking
<1> QED BY <1>1, <1>4 DEF Sum

\* Sums of functions that are ordered point by point, or that add up.
LEMMA SumOrder ==
  ASSUME NEW S, IsFiniteSet(S), NEW f, NEW g,
         \A x \in S : f[x] \in Int /\ g[x] \in Int /\ f[x] <= g[x]
  PROVE  /\ SumOver(f, S) \in Int /\ SumOver(g, S) \in Int
         /\ SumOver(f, S) <= SumOver(g, S)
<1> DEFINE F(T) == SumOver(f, T)
           H(T) == SumOver(g, T)
           G == {T \in SUBSET S : F(T) \in Int /\ H(T) \in Int /\ F(T) <= H(T)}
<1>f. F({}) = 0 /\ \A T \in SUBSET S : \A x \in T : F(T) = f[x] + F(T \ {x})
  BY SumTakesOut
<1>h. H({}) = 0 /\ \A T \in SUBSET S : \A x \in T : H(T) = g[x] + H(T \ {x})
  BY SumTakesOut
<1> HIDE DEF F, H
<1>2. {} \in G
  BY <1>f, <1>h
<1>3. ASSUME NEW T \in SUBSET S, T # {}, \A x \in T : T \ {x} \in G PROVE T \in G
  <2>1. PICK x \in T : TRUE
    BY <1>3
  <2>2. F(T \ {x}) \in Int /\ H(T \ {x}) \in Int /\ F(T \ {x}) <= H(T \ {x})
    BY <1>3
  <2>3. F(T) = f[x] + F(T \ {x}) /\ H(T) = g[x] + H(T \ {x})
    BY <1>f, <1>h
  <2>4. f[x] \in Int /\ g[x] \in Int /\ f[x] <= g[x]
    OBVIOUS
  <2> QED BY <2>2, <2>3, <2>4
<1>4. S \in G
  <2>1. Inherited(G, S)
    BY <1>3 DEF Inherited
  <2> HIDE DEF G
  <2> QED BY <1>2, <2>1, Shrinking
<1> QED BY <1>4 DEF F, H

\* The sum of a sum of functions.
LEMMA SumAdds ==
  ASSUME NEW S, IsFiniteSet(S), NEW f, NEW g, NEW e,
         \A x \in S : f[x] \in Int /\ g[x] \in Int /\ e[x] = f[x] + g[x]
  PROVE  SumOver(e, S) = SumOver(f, S) + SumOver(g, S)
<1> DEFINE F(T) == SumOver(f, T)
           H(T) == SumOver(g, T)
           E(T) == SumOver(e, T)
           G == {T \in SUBSET S : F(T) \in Int /\ H(T) \in Int /\ E(T) = F(T) + H(T)}
<1>0. \A x \in S : e[x] \in Int
  OBVIOUS
<1>f. F({}) = 0 /\ \A T \in SUBSET S : \A x \in T : F(T) = f[x] + F(T \ {x})
  BY SumTakesOut
<1>h. H({}) = 0 /\ \A T \in SUBSET S : \A x \in T : H(T) = g[x] + H(T \ {x})
  BY SumTakesOut
<1>e. E({}) = 0 /\ \A T \in SUBSET S : \A x \in T : E(T) = e[x] + E(T \ {x})
  BY <1>0, SumTakesOut
<1> HIDE DEF F, H, E
<1>2. {} \in G
  BY <1>f, <1>h, <1>e
<1>3. ASSUME NEW T \in SUBSET S, T # {}, \A x \in T : T \ {x} \in G PROVE T \in G
  <2>1. PICK x \in T : TRUE
    BY <1>3
  <2>2. F(T \ {x}) \in Int /\ H(T \ {x}) \in Int /\ E(T \ {x}) = F(T \ {x}) + H(T \ {x})
    BY <1>3
  <2>3. F(T) = f[x] + F(T \ {x}) /\ H(T) = g[x] + H(T \ {x}) /\ E(T) = e[x] + E(T \ {x})
    BY <1>f, <1>h, <1>e
  <2>4. f[x] \in Int /\ g[x] \in Int /\ e[x] = f[x] + g[x]
    OBVIOUS
  <2> QED BY <2>2, <2>3, <2>4
<1>4. S \in G
  <2>1. Inherited(G, S)
    BY <1>3 DEF Inherited
  <2> HIDE DEF G
  <2> QED BY <1>2, <2>1, Shrinking
<1> QED BY <1>4 DEF F, H, E

\* The sum over a subset is that of the function that is 0 elsewhere.
LEMMA SumOfPart ==
  ASSUME NEW S, IsFiniteSet(S), NEW U \in SUBSET S, NEW f, NEW e,
         \A x \in S : f[x] \in Int /\ e[x] = IF x \in U THEN f[x] ELSE 0
  PROVE  SumOver(f, U) = SumOver(e, S)
<1> DEFINE F(T) == SumOver(f, T)
           E(T) == SumOver(e, T)
           G == {T \in SUBSET S : F(T \cap U) \in Int /\ E(T) = F(T \cap U)}
<1>0. \A x \in S : e[x] \in Int
  OBVIOUS
<1>f. F({}) = 0 /\ \A T \in SUBSET S : \A x \in T : F(T) = f[x] + F(T \ {x})
  BY SumTakesOut
<1>e. E({}) = 0 /\ \A T \in SUBSET S : \A x \in T : E(T) = e[x] + E(T \ {x})
  BY <1>0, SumTakesOut
<1> HIDE DEF F, E
<1>2. {} \in G
  <2>1. {} \cap U = {}
    OBVIOUS
  <2> QED BY <1>f, <1>e, <2>1
<1>3. ASSUME NEW T \in SUBSET S, T # {}, \A x \in T : T \ {x} \in G PROVE T \in G
  <2>1. PICK x \in T : TRUE
    BY <1>3
  <2>2. F((T \ {x}) \cap U) \in Int /\ E(T \ {x}) = F((T \ {x}) \cap U)
    BY <1>3
  <2>3. E(T) = e[x] + E(T \ {x}) /\ f[x] \in Int
    BY <1>f, <1>e
  <2>4. CASE x \in U
    <3>1. F(T \cap U) = f[x] + F((T \cap U) \ {x})
      BY <1>f, <1>e, <2>4
    <3>2. (T \cap U) \ {x} = (T \ {x}) \cap U /\ e[x] = f[x]
      BY <2>4
    <3>3. E(T) = f[x] + E(T \ {x})
      BY <2>3, <3>2
    <3>4. F((T \ {x}) \cap U) = F((T \cap U) \ {x})
      BY <3>2
    <3>5. E(T) = F(T \cap U)
      BY <2>2, <3>1, <3>3, <3>4
    <3>6. F(T \cap U) \in Int
      BY <2>2, <2>3, <3>1, <3>4
    <3> QED BY <3>5, <3>6
  <2>5. CASE x \notin U
    <3>1. T \cap U = (T \ {x}) \cap U /\ e[x] = 0
      BY <2>5
    <3>2. F(T \cap U) = F((T \ {x}) \cap U)
      BY <3>1
    <3>3. E(T) = 0 + E(T \ {x})
      BY <2>3, <3>1
    <3>4. E(T) = F(T \cap U) /\ F(T \cap U) \in Int
      BY <2>2, <3>2, <3>3
    <3> QED BY <3>4
  <2> QED BY <2>4, <2>5
<1>4. S \in G
  <2>1. Inherited(G, S)
    BY <1>3 DEF Inherited
  <2> HIDE DEF G
  <2> QED BY <1>2, <2>1, Shrinking
<1>5. S \cap U = U
  OBVIOUS
<1> QED BY <1>4, <1>5 DEF F, E

\* A sum of equal shares.
LEMMA SumOfShares ==
  ASSUME NEW S, IsFiniteSet(S), NEW c \in Int, NEW f, \A x \in S : f[x] = c
  PROVE  SumOver(f, S) = c * Cardinality(S)
<1> DEFINE F(T) == SumOver(f, T)
           G == {T \in SUBSET S : F(T) = c * Cardinality(T)}
<1>0. \A x \in S : f[x] \in Int
  OBVIOUS
<1>1. F({}) = 0 /\ \A T \in SUBSET S : \A x \in T : F(T) = f[x] + F(T \ {x})
  BY <1>0, SumTakesOut
<1> HIDE DEF F
<1>2. {} \in G
  BY <1>1, FS_EmptySet
<1>3. ASSUME NEW T \in SUBSET S, T # {}, \A x \in T : T \ {x} \in G PROVE T \in G
  <2>1. PICK x \in T : TRUE
    BY <1>3
  <2>2. F(T \ {x}) = c * Cardinality(T \ {x}) /\ F(T) = c + F(T \ {x})
    BY <1>1, <1>3
  <2>3. Cardinality(T \ {x}) = Cardinality(T) - 1 /\ Cardinality(T) \in Nat
    BY FS_Subset, FS_RemoveElement, FS_CardinalityType
  <2>4. \A n \in Nat : c + c * (n - 1) = c * n
    OBVIOUS
  <2> QED BY <2>2, <2>3, <2>4
<1>4. S \in G
  <2>1. Inherited(G, S)
    BY <1>3 DEF Inherited
  <2> HIDE DEF G
  <2> QED BY <1>2, <2>1, Shrinking
<1> QED BY <1>4 DEF F

\* The sums are of natural numbers.
LEMMA SumsAre ==
  ASSUME KidTypes, IsFiniteSet(Kid)
  PROVE  /\ \A k \in Kid : /\ Owed[k] \in Nat /\ Unsaved[k] \in Nat /\ Taken[k] \in Nat
                           /\ Booked[k] \in Nat /\ Held[k] \in Nat
         /\ SumOver(Owed, Kid) \in Int /\ SumOver(Unsaved, Kid) \in Int
         /\ SumOver(Taken, Kid) \in Int /\ SumOver(Booked, Kid) \in Int
         /\ SumOver(Held, Kid) \in Int
<1>1. \A k \in Kid : kids[k].usage \in Nat /\ kids[k].share \in Nat
  BY DEF KidTypes, KidOk
<1>2. \A k \in Kid : /\ Owed[k] \in Nat /\ Unsaved[k] \in Nat /\ Taken[k] \in Nat
                     /\ Booked[k] \in Nat /\ Held[k] \in Nat
  BY <1>1 DEF Owed, Unsaved, Taken, Booked, Held
<1>3. \A n \in Nat : n \in Int /\ n <= n
  OBVIOUS
<1> QED BY <1>2, <1>3, SumOrder

\* Settled is the sum over all children.
LEMMA SettledIs ==
  ASSUME KidTypes, IsFiniteSet(Kid)
  PROVE  Budget!Settled(itemRun) = SumOver(Owed, Kid)
<1> DEFINE f == [k \in Kid |-> kids[k].usage]
           U == Budget!Mine(itemRun)
<1>1. Budget!Settled(itemRun) = SumOver(f, U)
  BY DEF Budget!Settled, SumOver
<1>2. U \in SUBSET Kid
  BY DEF Budget!Mine
<1>3. \A k \in Kid : f[k] \in Int /\ Owed[k] = IF k \in U THEN f[k] ELSE 0
  BY DEF Owed, KidTypes, KidOk
<1> HIDE DEF f, U
<1> QED BY <1>1, <1>2, <1>3, SumOfPart

\* What the governor reads before it decides: no less than what it called and
\* its children have settled.
LEMMA CurrentIs ==
  ASSUME BudgetInv, IsFiniteSet(Kid)
  PROVE  LET c == Budget!Current(gov)
         IN  /\ DOMAIN c = GovFields /\ c.calls \in Int /\ c.child \in Int
             /\ c.child = SumOver(Owed, Kid) /\ c.history = gov.history
             /\ c.calls = gov.calls + SumOver(Owed, Kid) - gov.child
             /\ Len(made) + SumOver(Taken, Kid) <= c.calls
<1> DEFINE c == Budget!Current(gov)
           both == [k \in Kid |-> Booked[k] + Unsaved[k]]
<1>1. Budget!Settled(itemRun) = SumOver(Owed, Kid) /\ SumOver(Owed, Kid) \in Int
  BY SettledIs, SumsAre DEF BudgetInv
<1>2. /\ DOMAIN c = GovFields /\ c.calls \in Int /\ c.child \in Int
      /\ c.child = SumOver(Owed, Kid) /\ c.history = gov.history
      /\ c.calls = gov.calls + SumOver(Owed, Kid) - gov.child
  BY <1>1 DEF Budget!Current, BudgetInv, GovTypes, GovFields
<1> HIDE DEF c
<1>3. \A k \in Kid : /\ Taken[k] \in Int /\ Booked[k] \in Int /\ Unsaved[k] \in Int
                     /\ Taken[k] <= Booked[k] + Unsaved[k]
  BY SumsAre DEF BudgetInv, Taken, Booked, Unsaved
<1>4. SumOver(both, Kid) = SumOver(Booked, Kid) + SumOver(Unsaved, Kid)
  <2>1. \A k \in Kid : both[k] = Booked[k] + Unsaved[k]
    OBVIOUS
  <2> HIDE DEF both
  <2> QED BY <1>3, <2>1, SumAdds
<1>5. SumOver(Taken, Kid) <= SumOver(both, Kid)
  <2>1. \A k \in Kid : Taken[k] \in Int /\ both[k] \in Int /\ Taken[k] <= both[k]
    BY <1>3
  <2> HIDE DEF both
  <2> QED BY <2>1, SumOrder
<1>6. Len(made) \in Nat
  BY Appended DEF BudgetInv, GovTypes
<1>7. /\ gov.child + SumOver(Unsaved, Kid) = SumOver(Owed, Kid)
      /\ Len(made) + SumOver(Booked, Kid) <= gov.calls
  BY DEF BudgetInv, Ledger
<1>8. Len(made) + SumOver(Taken, Kid) <= c.calls
  <2> DEFINE o == SumOver(Owed, Kid)
             u == SumOver(Unsaved, Kid)
             w == SumOver(Taken, Kid)
             x == SumOver(Booked, Kid)
             n == Len(made)
  <2>1. /\ o \in Int /\ u \in Int /\ w \in Int /\ x \in Int /\ n \in Int
        /\ gov.calls \in Int /\ gov.child \in Int
    BY <1>6, SumsAre DEF BudgetInv, GovTypes
  <2>2. /\ gov.child + u = o /\ n + x <= gov.calls /\ w <= x + u
        /\ c.calls = gov.calls + o - gov.child
    BY <1>2, <1>4, <1>5, <1>7
  <2> HIDE DEF o, u, w, x, n
  <2>3. c.calls = gov.calls + u
    BY <2>1, <2>2
  <2>4. n + w <= c.calls
    BY <2>1, <2>2, <2>3
  <2> QED BY <2>4 DEF n, w
<1> QED BY <1>2, <1>8 DEF c

\* The shares that a delegation has promised and not claimed yet.
Promised == SumOver([j \in Kid |-> kids[j].share], Budget!Shared)

\* The governor's view covers all that the children it pays for may use.
LEMMA Covered ==
  ASSUME BudgetInv, IsFiniteSet(Kid)
  PROVE  /\ Promised \in Int /\ Budget!Reserved(itemRun) \in Int
         /\ Len(made) + SumOver(Held, Kid)
              <= Budget!Current(gov).calls + Budget!Reserved(itemRun) + Promised
<1> DEFINE share == [j \in Kid |-> kids[j].share]
           rest == [k \in Kid |-> Budget!Remaining(k)]
           R == {k \in Budget!Mine(itemRun) : kids[k].state \in Budget!Live}
           P == Budget!Shared
           res == [k \in Kid |-> IF k \in R THEN rest[k] ELSE 0]
           prom == [k \in Kid |-> IF k \in P THEN share[k] ELSE 0]
           back == [k \in Kid |-> res[k] + prom[k]]
           all == [k \in Kid |-> Taken[k] + back[k]]
<1>1. /\ Promised = SumOver(share, P) /\ P \in SUBSET Kid
      /\ Budget!Reserved(itemRun) = SumOver(rest, R) /\ R \in SUBSET Kid
  BY DEF Promised, Budget!Shared, Budget!Reserved, SumOver, Budget!Mine
<1>2. ASSUME NEW k \in Kid
      PROVE  /\ share[k] \in Nat /\ rest[k] \in Nat /\ Held[k] \in Nat /\ Taken[k] \in Nat
             /\ res[k] = IF k \in R THEN rest[k] ELSE 0
             /\ prom[k] = IF k \in P THEN share[k] ELSE 0
             /\ Held[k] <= Taken[k] + (res[k] + prom[k])
  <2>1. /\ kids[k].share \in Nat /\ kids[k].used \in Nat
        /\ kids[k].usage = IF kids[k].state = "completed" THEN kids[k].used ELSE 0
        /\ kids[k].state \in Budget!Live \cup {"shared"} /\ k \notin loose => kids[k].run = itemRun
    BY DEF BudgetInv, KidTypes, KidOk
  <2>2. share[k] = kids[k].share /\ share[k] \in Nat
    BY <2>1
  <2>3. /\ rest[k] \in Nat
        /\ kids[k].state # "completed" => rest[k] = kids[k].share
    BY <2>1 DEF Budget!Remaining
  <2>4. /\ res[k] = IF k \in R THEN rest[k] ELSE 0
        /\ prom[k] = IF k \in P THEN share[k] ELSE 0
    OBVIOUS
  <2>5. k \in P <=> kids[k].state = "shared"
    BY DEF Budget!Shared
  <2>6. kids[k].state \in Budget!Live /\ k \notin loose => k \in R /\ kids[k].state # "completed"
    BY <2>1 DEF Budget!Mine, Budget!Live
  <2>7. /\ Taken[k] = IF k \in loose THEN 0 ELSE kids[k].usage
        /\ Held[k] = IF k \in loose THEN 0
                     ELSE IF kids[k].state \in Budget!Live \cup {"shared"}
                          THEN kids[k].share ELSE kids[k].usage
    BY DEF Taken, Held
  <2> HIDE DEF share, rest, R, P, res, prom
  <2>8. res[k] \in Nat /\ prom[k] \in Nat /\ kids[k].usage \in Nat
    BY <2>1, <2>2, <2>3, <2>4
  <2>9. CASE k \in loose \/ kids[k].state \notin Budget!Live \cup {"shared"}
    BY <2>1, <2>2, <2>3, <2>4, <2>7, <2>8, <2>9
  <2>10. CASE k \notin loose /\ kids[k].state \in Budget!Live
    BY <2>1, <2>2, <2>3, <2>4, <2>6, <2>7, <2>8, <2>10
  <2>11. CASE k \notin loose /\ kids[k].state = "shared"
    BY <2>1, <2>2, <2>3, <2>4, <2>5, <2>7, <2>8, <2>11
  <2> QED BY <2>9, <2>10, <2>11
<1>3. \A k \in Kid : back[k] = res[k] + prom[k] /\ all[k] = Taken[k] + back[k]
  OBVIOUS
<1> HIDE DEF share, rest, R, P, res, prom, back, all
<1>4. SumOver(rest, R) = SumOver(res, Kid) /\ SumOver(share, P) = SumOver(prom, Kid)
  BY <1>1, <1>2, SumOfPart
<1>5. \A k \in Kid : /\ res[k] \in Int /\ prom[k] \in Int /\ back[k] \in Int
                     /\ Taken[k] \in Int /\ Held[k] \in Int /\ all[k] \in Int
                     /\ Held[k] <= all[k]
  BY <1>2, <1>3
<1>6. SumOver(back, Kid) = SumOver(res, Kid) + SumOver(prom, Kid)
  BY <1>3, <1>5, SumAdds
<1>7. SumOver(all, Kid) = SumOver(Taken, Kid) + SumOver(back, Kid)
  BY <1>3, <1>5, SumAdds
<1>8. SumOver(Held, Kid) <= SumOver(all, Kid) /\ SumOver(Held, Kid) \in Int
  BY <1>5, SumOrder
<1>9. SumOver(res, Kid) \in Int /\ SumOver(prom, Kid) \in Int /\ SumOver(Taken, Kid) \in Int
  <2>1. \A n \in Int : n <= n
    OBVIOUS
  <2> QED BY <1>5, <2>1, SumOrder
<1>10. /\ Budget!Current(gov).calls \in Int /\ Len(made) \in Nat
       /\ Len(made) + SumOver(Taken, Kid) <= Budget!Current(gov).calls
  BY CurrentIs, Appended DEF BudgetInv, GovTypes
<1> DEFINE h == SumOver(Held, Kid)
           w == SumOver(Taken, Kid)
           r == SumOver(res, Kid)
           m == SumOver(prom, Kid)
           c == Budget!Current(gov).calls
           n == Len(made)
<1>11. /\ h \in Int /\ w \in Int /\ r \in Int /\ m \in Int /\ c \in Int /\ n \in Int
       /\ h <= w + (r + m) /\ n + w <= c
  BY <1>6, <1>7, <1>8, <1>9, <1>10
<1>12. Budget!Reserved(itemRun) = r /\ Promised = m
  BY <1>1, <1>4
<1> HIDE DEF h, w, r, m, c, n
<1>13. n + h <= c + r + m
  BY <1>11
<1> QED BY <1>11, <1>12, <1>13 DEF h, c, n

\* While nothing is promised, the calls that are left are those that neither the
\* run nor a child may have used.
LEMMA AvailableIs ==
  ASSUME BudgetInv, IsFiniteSet(Kid), CallLimit \in Nat, Budget!Shared = {}
  PROVE  LET left == Budget!AvailableCalls(Budget!Current(gov))
         IN  /\ left \in Nat /\ Len(made) \in Nat /\ SumOver(Held, Kid) \in Int
             /\ left # 0 => Len(made) + SumOver(Held, Kid) + left <= CallLimit
<1>1. Promised = 0
  BY SumTakesOut DEF Promised, BudgetInv, KidTypes, KidOk
<1> DEFINE c == Budget!Current(gov).calls
           d == Budget!Reserved(itemRun)
           h == SumOver(Held, Kid)
           n == Len(made)
           left == Budget!AvailableCalls(Budget!Current(gov))
<1>2. left = IF CallLimit - c - d > 0 THEN CallLimit - c - d ELSE 0
  BY DEF Budget!AvailableCalls
<1>3. /\ c \in Int /\ d \in Int /\ h \in Int /\ n \in Nat /\ n + h <= c + d + 0
  BY <1>1, Covered, CurrentIs, SumsAre, Appended DEF BudgetInv, GovTypes
<1> HIDE DEF c, d, h, n, left
<1>4. left \in Nat /\ (left # 0 => n + h + left <= CallLimit)
  BY <1>2, <1>3
<1> QED BY <1>3, <1>4 DEF h, n, left

\* The last calls of a sequence.
LEMMA SuffixIs ==
  ASSUME NEW s, NEW n \in Nat, Len(s) = n, NEW w \in 1 .. n, NEW m \in 1 .. w
  PROVE  Budget!Suffix(s, w)[m] = s[n - w + m]
<1> DEFINE a == n - w + 1
           S == {s[j] : j \in a .. n}
<1>1. Budget!Suffix(s, w) = SubSeq(s, a, n)
  BY DEF Budget!Suffix
<1>2. a \in Int /\ n \in Int /\ n - a + 1 = w /\ a + m - 1 = n - w + m
  OBVIOUS
<1>3. \A j \in a .. n : s[j] \in S
  OBVIOUS
<1> HIDE DEF S, a
<1>4. SubSeq(s, a, n)[m] = s[a + m - 1]
  <2>1. \A i \in 1 .. n - a + 1 : SubSeq(s, a, n)[i] = s[a + i - 1]
    BY <1>2, <1>3, SubSeqProperties
  <2> QED BY <1>2, <2>1
<1> QED BY <1>1, <1>2, <1>4

\* A sequence that ends in w times the same call repeats that call.
LEMMA RepeatsOne ==
  ASSUME NEW s, NEW n \in Nat, Len(s) = n, NEW w \in 1 .. n, NEW x,
         \A j \in (n - w + 1) .. n : s[j] = x
  PROVE  Budget!Repeats(s, 1, w)
<1>1. \A m \in 1 .. w : Budget!Suffix(s, w)[m] = x
  <2> SUFFICES ASSUME NEW m \in 1 .. w PROVE Budget!Suffix(s, w)[m] = x
    OBVIOUS
  <2>1. Budget!Suffix(s, w)[m] = s[n - w + m]
    BY SuffixIs
  <2>2. n - w + m \in (n - w + 1) .. n
    OBVIOUS
  <2> QED BY <2>1, <2>2
<1>2. Budget!Suffix(s, 1)[1] = x
  <2>1. 1 \in 1 .. n /\ 1 \in 1 .. 1 /\ n - 1 + 1 = n /\ n \in (n - w + 1) .. n
    OBVIOUS
  <2>2. Budget!Suffix(s, 1)[1] = s[n - 1 + 1]
    BY <2>1, SuffixIs
  <2> QED BY <2>1, <2>2
<1>3. 1 * w = w /\ n >= w /\ \A m \in 1 .. w : ((m - 1) % 1) + 1 = 1
  OBVIOUS
<1> QED BY <1>1, <1>2, <1>3 DEF Budget!Repeats

\* An interval from 1 tells how long it is.
LEMMA SameLength ==
  ASSUME NEW a \in Nat, NEW b \in Nat, 1 .. a = 1 .. b
  PROVE  a = b
<1>1. \A j \in Nat : (1 <= j /\ j <= a) <=> (1 <= j /\ j <= b)
  <2>1. \A j \in Nat : j \in 1 .. a <=> j \in 1 .. b
    OBVIOUS
  <2> QED BY <2>1
<1> QED BY <1>1

\* A call that is let through ends no row of repetitions.
LEMMA NoRepeat ==
  ASSUME GovTypes, NEW c, c \in Polls \/ Budget!LoopPattern(gov.history, c) = "none",
         Budget!NoEndlessLoop, made' = Append(made, c), ConsecutiveRepeats \in Nat \ {0}
  PROVE  Budget!NoEndlessLoop'
<1> DEFINE n == Len(made)
           R == ConsecutiveRepeats
<1>1. /\ n \in Nat /\ DOMAIN made = 1 .. n /\ made'[n + 1] = c
      /\ \A j \in 1 .. n : made'[j] = made[j]
      /\ Len(gov.history) = n /\ DOMAIN gov.history = 1 .. n
  <2>1. /\ IsSequence(made) /\ IsSequence(gov.history) /\ DOMAIN made = DOMAIN gov.history
    BY DEF GovTypes
  <2>2. /\ n \in Nat /\ DOMAIN made = 1 .. n /\ made'[n + 1] = c
        /\ \A j \in DOMAIN made : made'[j] = made[j]
    BY <2>1, Appended
  <2>3. DOMAIN gov.history = 1 .. Len(gov.history) /\ Len(gov.history) \in Nat
    BY <2>1, Appended
  <2>4. Len(gov.history) = n
    <3> HIDE DEF n
    <3>1. 1 .. Len(gov.history) = 1 .. n
      BY <2>1, <2>2, <2>3
    <3> QED BY <2>2, <2>3, <3>1, SameLength
  <2> QED BY <2>1, <2>2, <2>4
<1>2. Len(made') = n + 1
  <2>1. IsSequence(made') /\ DOMAIN made' = 1 .. (n + 1)
    BY Appended DEF GovTypes
  <2>2. DOMAIN made' = 1 .. Len(made') /\ Len(made') \in Nat
    BY <2>1, Appended
  <2> QED BY <1>1, <2>1, <2>2
<1> SUFFICES ASSUME NEW i \in 1 .. ((n + 1) - R + 1),
                    \A j \in i .. (i + R - 1) : made'[j] = made'[i] /\ made'[j] \notin Polls
             PROVE  FALSE
  BY <1>2 DEF Budget!NoEndlessLoop
<1> HIDE DEF n
<1>i. i \in Nat /\ R \in Nat /\ R > 0 /\ i >= 1 /\ i + R - 1 <= n + 1
  BY <1>1
<1>3. CASE i + R - 1 <= n
  <2>1. i \in 1 .. (n - R + 1)
    BY <1>i, <1>1, <1>3
  <2>2. \A j \in i .. (i + R - 1) : j \in 1 .. n
    BY <1>i, <1>1, <1>3
  <2>3. i \in 1 .. n
    BY <1>i, <1>1, <1>3
  <2>4. \A j \in i .. (i + R - 1) : made[j] = made[i] /\ made[j] \notin Polls
    BY <1>1, <2>2, <2>3
  <2> QED BY <2>1, <2>4 DEF Budget!NoEndlessLoop, n
<1>4. CASE i + R - 1 = n + 1
  <2>1. n + 1 \in i .. (i + R - 1) /\ \A j \in i .. n : j \in i .. (i + R - 1) /\ j \in 1 .. n
    BY <1>i, <1>1, <1>4
  <2>2. c \notin Polls /\ c = made'[i] /\ \A j \in i .. n : made[j] = c
    BY <1>1, <2>1
  <2> DEFINE shown == Budget!Shown(gov.history)
             seq == Append(shown, <<c>>)
  <2>3. ~Budget!Repeats(seq, 1, R)
    BY <2>2 DEF Budget!LoopPattern
  <2>4. /\ IsSequence(seq) /\ Len(seq) = n + 1 /\ seq[n + 1] = <<c>>
        /\ \A j \in i .. n : seq[j] = <<c>>
    <3>1. DOMAIN shown = 1 .. n
      BY <1>1 DEF Budget!Shown
    <3>2. \A j \in i .. n : shown[j] = <<c>>
      <4> SUFFICES ASSUME NEW j \in i .. n PROVE shown[j] = <<c>>
        OBVIOUS
      <4>1. j \in DOMAIN gov.history /\ gov.history[j].call = c
        BY <1>1, <2>1, <2>2 DEF GovTypes
      <4> QED BY <2>2, <4>1 DEF Budget!Shown
    <3>3. shown = [j \in 1 .. n |-> shown[j]]
      BY <1>1 DEF Budget!Shown
    <3> HIDE DEF shown
    <3> DEFINE W == {shown[j] : j \in 1 .. n}
    <3>4. shown \in Seq(W)
      <4>1. \A j \in 1 .. n : shown[j] \in W
        OBVIOUS
      <4> HIDE DEF W
      <4>2. shown \in [1 .. n -> W]
        BY <3>3, <4>1
      <4> QED BY <1>1, <4>2, SeqDef
    <3>5. IsSequence(shown)
      BY <3>4 DEF IsSequence
    <3>6. /\ IsSequence(seq) /\ DOMAIN seq = 1 .. (Len(shown) + 1) /\ seq[Len(shown) + 1] = <<c>>
          /\ \A j \in DOMAIN shown : seq[j] = shown[j]
          /\ DOMAIN shown = 1 .. Len(shown) /\ Len(shown) \in Nat
      BY <3>5, Appended
    <3>7. Len(shown) = n
      BY <1>1, <3>1, <3>6
    <3>8. DOMAIN seq = 1 .. Len(seq) /\ Len(seq) \in Nat
      BY <3>6, Appended
    <3> HIDE DEF seq
    <3>9. Len(seq) = n + 1
      BY <1>1, <3>6, <3>7, <3>8
    <3> QED BY <2>1, <3>1, <3>2, <3>6, <3>7, <3>9
  <2> HIDE DEF seq
  <2>5. Budget!Repeats(seq, 1, R)
    <3> DEFINE N == n + 1
    <3>1. N \in Nat /\ R \in 1 .. N /\ Len(seq) = N
      BY <2>4, <1>1, <1>i
    <3>2. \A j \in (N - R + 1) .. N : seq[j] = <<c>>
      BY <2>4, <1>1, <1>i, <1>4
    <3> HIDE DEF N, R
    <3> QED BY <3>1, <3>2, RepeatsOne
  <2> QED BY <2>3, <2>5
<1> QED BY <1>i, <1>1, <1>3, <1>4

\* The children are as they were, and the row is up to date.
LEMMA SameKids ==
  ASSUME KidTypes, UNCHANGED <<kids, itemRun, loose>>, late' = {}
  PROVE  KidTypes' /\ Owed' = Owed /\ Held' = Held /\ Booked' = Taken
<1>1. KidTypes'
  <2>1. \A k \in Kid : KidOk(k)'
    BY DEF KidTypes, KidOk
  <2> QED BY <2>1 DEF KidTypes
<1>2. Budget!Mine(itemRun)' = Budget!Mine(itemRun)
  BY DEF Budget!Mine
<1>3. Owed' = Owed
  BY <1>2 DEF Owed
<1>4. Held' = Held
  BY DEF Held, Budget!Live
<1>5. Booked' = Taken
  BY DEF Booked, Taken
<1> QED BY <1>1, <1>3, <1>4, <1>5

\* The row takes over what the children have settled, and perhaps a call that is
\* made; the children may get shares.
LEMMA Saves ==
  ASSUME BudgetInv, IsFiniteSet(Kid), KidTypes', GovTypes', late' = {},
         gov'.child = Budget!Current(gov).child,
         Len(made') + Budget!Current(gov).calls = gov'.calls + Len(made),
         \A k \in Kid : Owed'[k] = Owed[k] /\ Booked'[k] <= Taken[k],
         Len(made') + SumOver(Held', Kid) <= CallLimit
  PROVE  Ledger'
<1>1. \A k \in Kid : /\ Owed[k] \in Nat /\ Taken[k] \in Nat
                     /\ Owed'[k] \in Nat /\ Booked'[k] \in Nat
  <2>1. \A k \in Kid : Owed[k] \in Nat /\ Taken[k] \in Nat
    BY SumsAre DEF BudgetInv
  <2>2. \A k \in Kid : kids'[k].usage \in Nat
    BY DEF KidTypes, KidOk
  <2> QED BY <2>1, <2>2 DEF Owed, Booked
<1>2. SumOver(Owed', Kid) = SumOver(Owed, Kid) + 0
  <2>1. \A k \in Kid : /\ Owed[k] \in Int /\ Owed'[k] \in Int
                       /\ Owed[k] <= Owed'[k] /\ Owed'[k] <= Owed[k]
    BY <1>1
  <2>2. /\ SumOver(Owed, Kid) \in Int /\ SumOver(Owed', Kid) \in Int
        /\ SumOver(Owed, Kid) <= SumOver(Owed', Kid) /\ SumOver(Owed', Kid) <= SumOver(Owed, Kid)
    BY <2>1, SumOrder
  <2> QED BY <2>2
<1>3. SumOver(Unsaved', Kid) = 0
  <2>1. \A k \in Kid : Unsaved'[k] = 0
    BY DEF Unsaved
  <2>2. SumOver(Unsaved', Kid) = 0 * Cardinality(Kid)
    BY <2>1, SumOfShares
  <2>3. Cardinality(Kid) \in Nat
    BY FS_CardinalityType
  <2> QED BY <2>2, <2>3
<1>4. /\ SumOver(Booked', Kid) \in Int /\ SumOver(Taken, Kid) \in Int
      /\ SumOver(Booked', Kid) <= SumOver(Taken, Kid)
  <2>1. \A k \in Kid : Taken[k] \in Int /\ Booked'[k] \in Int /\ Booked'[k] <= Taken[k]
    BY <1>1
  <2> QED BY <2>1, SumOrder
<1> DEFINE o == SumOver(Owed, Kid)
           w == SumOver(Taken, Kid)
           x == SumOver(Booked', Kid)
           c == Budget!Current(gov).calls
           n == Len(made)
<1>5. /\ o \in Int /\ w \in Int /\ x \in Int /\ c \in Int /\ n \in Int
      /\ n + w <= c /\ x <= w /\ Budget!Current(gov).child = o
  BY <1>4, CurrentIs, SumsAre, Appended DEF BudgetInv, GovTypes
<1>6. gov'.child + SumOver(Unsaved', Kid) = SumOver(Owed', Kid)
  <2>1. SumOver(Owed', Kid) = o + 0
    BY <1>2
  <2> HIDE DEF o
  <2>2. gov'.child = o
    BY <1>5
  <2> QED BY <1>3, <1>5, <2>1, <2>2
<1>7. Len(made') + x <= gov'.calls
  <2> DEFINE m == Len(made')
             r == gov'.calls
  <2>1. m \in Int /\ r \in Int /\ m + c = r + n
    BY Appended DEF GovTypes
  <2> HIDE DEF n, x, c, w, m, r
  <2>2. m + x <= r
    BY <1>5, <2>1
  <2> QED BY <2>2 DEF m, r
<1> QED BY <1>6, <1>7 DEF Ledger

\* The governor settles with its children and makes no call.
LEMMA Looked ==
  ASSUME BudgetInv, UNCHANGED <<itemRun, kids, made, loose>>, late' = {}, IsFiniteSet(Kid),
         gov' = saved', DOMAIN gov' = GovFields,
         gov'.calls = Budget!Current(gov).calls, gov'.child = Budget!Current(gov).child,
         IsSequence(gov'.history), DOMAIN gov'.history = DOMAIN gov.history,
         \A i \in DOMAIN gov.history : /\ DOMAIN gov'.history[i] = {"call", "ok"}
                                       /\ gov'.history[i].call = gov.history[i].call
  PROVE  BudgetInv'
<1>1. KidTypes' /\ Owed' = Owed /\ Held' = Held /\ Booked' = Taken
  BY SameKids DEF BudgetInv
<1>2. GovTypes'
  <2>1. gov'.calls \in Int /\ gov'.child \in Int
    BY CurrentIs
  <2> QED BY <2>1 DEF BudgetInv, GovTypes
<1>3. Ledger'
  <2>1. \A k \in Kid : Owed'[k] = Owed[k] /\ Booked'[k] <= Taken[k]
    <3>1. \A k \in Kid : Taken[k] \in Nat
      BY SumsAre DEF BudgetInv
    <3>2. \A n \in Nat : n <= n
      OBVIOUS
    <3> QED BY <1>1, <3>1, <3>2
  <2>2. Len(made') + SumOver(Held', Kid) <= CallLimit
    BY <1>1 DEF BudgetInv, Ledger
  <2>3. Len(made') + Budget!Current(gov).calls = gov'.calls + Len(made)
    BY CurrentIs, Appended DEF BudgetInv, GovTypes
  <2> QED BY <1>1, <1>2, <2>1, <2>2, <2>3, Saves
<1>4. Budget!NoEndlessLoop'
  BY DEF BudgetInv, Budget!NoEndlessLoop
<1> QED BY <1>1, <1>2, <1>3, <1>4 DEF BudgetInv

\* A governor whose row takes over what it has settled, with other fields set.
LEMMA LookedAt ==
  ASSUME BudgetInv, UNCHANGED <<itemRun, kids, made, loose>>, late' = {}, IsFiniteSet(Kid),
         gov' = saved', DOMAIN gov' = GovFields,
         gov'.calls = Budget!Current(gov).calls, gov'.child = Budget!Current(gov).child,
         gov'.history = gov.history
  PROVE  BudgetInv'
<1>1. /\ IsSequence(gov.history)
      /\ \A i \in DOMAIN gov.history : DOMAIN gov.history[i] = {"call", "ok"}
  BY DEF BudgetInv, GovTypes
<1> QED BY <1>1, Looked

LEMMA StopKeeps ==
  ASSUME BudgetInv, IsFiniteSet(Kid), Budget!Stop(Budget!Current(gov))
  PROVE  BudgetInv'
<1> DEFINE g == Budget!Current(gov)
<1>1. DOMAIN g = GovFields /\ g.history = gov.history
  BY CurrentIs
<1>2. gov' = [g EXCEPT !.stopped = TRUE] /\ saved' = gov' /\ UNCHANGED <<itemRun, kids, made, loose>> /\ late' = {}
  BY DEF Budget!Stop, Budget!Save
<1> HIDE DEF g
<1>3. DOMAIN gov' = GovFields /\ gov'.calls = g.calls /\ gov'.child = g.child /\ gov'.history = g.history
  BY <1>1, <1>2
<1> QED BY <1>1, <1>2, <1>3, LookedAt DEF g

LEMMA BeforeModelKeeps ==
  ASSUME BudgetInv, IsFiniteSet(Kid), NEW e, Budget!BeforeModel(e)
  PROVE  BudgetInv'
<1> DEFINE g == Budget!Current(gov)
<1>1. DOMAIN g = GovFields /\ g.history = gov.history
  BY CurrentIs
<1>2. CASE e
  <2>1. /\ gov' = [g EXCEPT !.limit = @ + RoundLimit, !.extensions = @ + 1] /\ saved' = gov'
        /\ UNCHANGED <<itemRun, kids, made, loose>> /\ late' = {}
    BY <1>2 DEF Budget!BeforeModel, Budget!Save
  <2> HIDE DEF g
  <2>2. DOMAIN gov' = GovFields /\ gov'.calls = g.calls /\ gov'.child = g.child /\ gov'.history = g.history
    BY <1>1, <2>1
  <2> QED BY <1>1, <2>1, <2>2, LookedAt DEF g
<1>3. CASE ~e
  BY <1>3, StopKeeps DEF Budget!BeforeModel
<1> QED BY <1>2, <1>3

LEMMA RoundKeeps ==
  ASSUME BudgetInv, IsFiniteSet(Kid), Budget!Round
  PROVE  BudgetInv'
<1> DEFINE g == Budget!Current(gov)
<1>1. DOMAIN g = GovFields /\ g.history = gov.history
  BY CurrentIs
<1>2. /\ gov' = [g EXCEPT !.rounds = @ + 1] /\ saved' = gov'
      /\ UNCHANGED <<itemRun, kids, made, loose>> /\ late' = {}
  BY DEF Budget!Round, Budget!Save
<1> HIDE DEF g
<1>3. DOMAIN gov' = GovFields /\ gov'.calls = g.calls /\ gov'.child = g.child /\ gov'.history = g.history
  BY <1>1, <1>2
<1> QED BY <1>1, <1>2, <1>3, LookedAt DEF g

LEMMA FinishToolKeeps ==
  ASSUME BudgetInv, IsFiniteSet(Kid), NEW i, NEW ok, Budget!FinishTool(i, ok)
  PROVE  BudgetInv'
<1> DEFINE h == [gov.history EXCEPT ![i].ok = ok]
           g == [gov EXCEPT !.history = h]
           g0 == Budget!Current(gov)
           s == Budget!Settled(itemRun)
<1>1. /\ DOMAIN gov = GovFields /\ IsSequence(gov.history)
      /\ \A j \in DOMAIN gov.history : DOMAIN gov.history[j] = {"call", "ok"}
  BY DEF BudgetInv, GovTypes
<1>2. gov' = Budget!Current([gov EXCEPT !.history[i].ok = ok]) /\ saved' = gov'
      /\ UNCHANGED <<itemRun, kids, made, loose>> /\ late' = {}
  BY DEF Budget!FinishTool, Budget!Save
<1>3. [gov EXCEPT !.history[i].ok = ok] = g
  BY <1>1 DEF GovFields
<1>4. gov' = [g EXCEPT !.calls = @ + s - g.child, !.child = s]
  BY <1>2, <1>3 DEF Budget!Current
<1>5. g0 = [gov EXCEPT !.calls = @ + s - gov.child, !.child = s]
  BY DEF Budget!Current
<1>6. /\ DOMAIN h = DOMAIN gov.history
      /\ \A j \in DOMAIN gov.history : DOMAIN h[j] = {"call", "ok"} /\ h[j].call = gov.history[j].call
  BY <1>1
<1>7. IsSequence(h)
  <2> DEFINE W == {h[j] : j \in DOMAIN gov.history}
             n == Len(gov.history)
  <2>1. DOMAIN gov.history = 1 .. n /\ n \in Nat
    BY <1>1, Appended
  <2>2. h = [j \in 1 .. n |-> h[j]] /\ \A j \in 1 .. n : h[j] \in W
    BY <2>1
  <2> HIDE DEF W, h, n
  <2>3. h \in [1 .. n -> W]
    BY <2>2
  <2>4. h \in Seq(W)
    BY <2>1, <2>3, SeqDef
  <2> QED BY <2>4 DEF IsSequence
<1> HIDE DEF h, s, g0
<1>8. DOMAIN g = GovFields /\ g.history = h /\ g.calls = gov.calls /\ g.child = gov.child
  BY <1>1 DEF GovFields
<1> HIDE DEF g
<1>9. /\ DOMAIN gov' = GovFields /\ gov'.history = h
      /\ gov'.calls = gov.calls + s - gov.child /\ gov'.child = s
  BY <1>4, <1>8 DEF GovFields
<1>10. g0.calls = gov.calls + s - gov.child /\ g0.child = s
  BY <1>1, <1>5 DEF GovFields
<1> QED BY <1>2, <1>6, <1>7, <1>9, <1>10, Looked DEF g0

\* A call is let through, with one to spare.
LEMMA GrantKeeps ==
  ASSUME BudgetInv, IsFiniteSet(Kid), CallLimit \in Nat, ConsecutiveRepeats \in Nat \ {0},
         NEW c, c \in Polls \/ Budget!LoopPattern(gov.history, c) = "none",
         Budget!AvailableCalls(Budget!Current(gov)) # 0,
         gov' = [Budget!Current(gov) EXCEPT !.calls = @ + 1,
                   !.history = Append(@, [call |-> c, ok |-> "none"])],
         saved' = gov', late' = {}, Budget!Shared = {},
         made' = Append(made, c), UNCHANGED <<itemRun, kids, loose>>
  PROVE  BudgetInv'
<1> DEFINE g == Budget!Current(gov)
           z == [call |-> c, ok |-> "none"]
           n == Len(made)
<1>1. KidTypes' /\ Owed' = Owed /\ Held' = Held /\ Booked' = Taken
  BY SameKids DEF BudgetInv
<1>2. /\ DOMAIN g = GovFields /\ g.calls \in Int /\ g.child \in Int
      /\ g.child = SumOver(Owed, Kid) /\ g.history = gov.history
      /\ g.calls = gov.calls + SumOver(Owed, Kid) - gov.child
  BY CurrentIs
<1>3. gov' = [g EXCEPT !.calls = g.calls + 1, !.history = Append(g.history, z)]
  OBVIOUS
<1> HIDE DEF g, z
<1>4. /\ DOMAIN gov' = GovFields /\ gov'.calls = g.calls + 1 /\ gov'.child = g.child
      /\ gov'.history = Append(gov.history, z)
  BY <1>2, <1>3 DEF GovFields
<1>5. /\ IsSequence(made) /\ IsSequence(gov.history) /\ DOMAIN made = DOMAIN gov.history
      /\ \A i \in DOMAIN gov.history :
           DOMAIN gov.history[i] = {"call", "ok"} /\ gov.history[i].call = made[i]
  BY DEF BudgetInv, GovTypes
<1>6. /\ IsSequence(made') /\ DOMAIN made' = 1 .. (n + 1) /\ made'[n + 1] = c
      /\ \A i \in DOMAIN made : made'[i] = made[i]
      /\ n \in Nat /\ DOMAIN made = 1 .. n
  BY <1>5, Appended
<1>7. /\ IsSequence(gov'.history) /\ DOMAIN gov'.history = 1 .. (Len(gov.history) + 1)
      /\ gov'.history[Len(gov.history) + 1] = z
      /\ \A i \in DOMAIN gov.history : gov'.history[i] = gov.history[i]
      /\ Len(gov.history) \in Nat /\ DOMAIN gov.history = 1 .. Len(gov.history)
  <2> DEFINE h == Append(gov.history, z)
  <2>1. /\ IsSequence(h) /\ DOMAIN h = 1 .. (Len(gov.history) + 1)
        /\ h[Len(gov.history) + 1] = z /\ \A i \in DOMAIN gov.history : h[i] = gov.history[i]
        /\ Len(gov.history) \in Nat /\ DOMAIN gov.history = 1 .. Len(gov.history)
    BY <1>5, Appended
  <2>2. gov'.history = h
    BY <1>4
  <2> HIDE DEF h
  <2> QED BY <2>1, <2>2
<1> HIDE DEF n
<1>8. Len(gov.history) = n
  <2>1. 1 .. Len(gov.history) = 1 .. n
    BY <1>5, <1>6, <1>7
  <2> QED BY <1>6, <1>7, <2>1, SameLength
<1>9. Len(made') = n + 1
  <2>1. DOMAIN made' = 1 .. Len(made') /\ Len(made') \in Nat
    BY <1>6, Appended
  <2>2. n + 1 \in Nat /\ 1 .. Len(made') = 1 .. (n + 1)
    BY <1>6, <2>1
  <2> QED BY <2>1, <2>2, SameLength
<1>10. GovTypes'
  <2>1. gov'.calls \in Int /\ gov'.child \in Int
    BY <1>2, <1>4
  <2>2. ASSUME NEW i \in DOMAIN gov'.history
        PROVE  DOMAIN gov'.history[i] = {"call", "ok"} /\ gov'.history[i].call = made'[i]
    <3>1. CASE i \in 1 .. n
      BY <1>5, <1>6, <1>7, <1>8, <3>1
    <3>2. CASE i = n + 1
      BY <1>6, <1>7, <1>8, <3>2 DEF z
    <3> QED BY <1>6, <1>7, <1>8, <3>1, <3>2
  <2> QED BY <1>4, <1>6, <1>7, <1>8, <2>1, <2>2 DEF GovTypes
<1>11. Ledger'
  <2>1. \A k \in Kid : Owed'[k] = Owed[k] /\ Booked'[k] <= Taken[k]
    <3>1. \A k \in Kid : Taken[k] \in Nat
      BY SumsAre DEF BudgetInv
    <3>2. \A m \in Nat : m <= m
      OBVIOUS
    <3> QED BY <1>1, <3>1, <3>2
  <2>2. Len(made') + SumOver(Held', Kid) <= CallLimit
    <3> DEFINE left == Budget!AvailableCalls(g)
               h == SumOver(Held, Kid)
    <3>1. left \in Nat /\ n \in Nat /\ h \in Int /\ left # 0 /\ (left # 0 => n + h + left <= CallLimit)
      BY AvailableIs DEF n, g
    <3>2. Len(made') = n + 1 /\ SumOver(Held', Kid) = h
      BY <1>1, <1>9
    <3> HIDE DEF left, h
    <3>3. (n + 1) + h <= CallLimit
      BY <3>1
    <3> QED BY <3>2, <3>3
  <2>3. gov'.child = Budget!Current(gov).child
    BY <1>4 DEF g
  <2>4. Len(made') + Budget!Current(gov).calls = gov'.calls + Len(made)
    <3> DEFINE c0 == g.calls
    <3>1. n \in Int /\ c0 \in Int /\ Len(made') = n + 1 /\ gov'.calls = c0 + 1
      BY <1>2, <1>4, <1>6, <1>9
    <3> HIDE DEF c0
    <3>2. (n + 1) + c0 = (c0 + 1) + n
      BY <3>1
    <3>3. Len(made') + c0 = gov'.calls + n
      BY <3>1, <3>2
    <3> QED BY <3>3 DEF c0, g, n
  <2> QED BY <1>1, <1>10, <2>1, <2>2, <2>3, <2>4, Saves
<1>12. Budget!NoEndlessLoop'
  BY NoRepeat DEF BudgetInv
<1> QED BY <1>1, <1>10, <1>11, <1>12 DEF BudgetInv

LEMMA BeforeToolKeeps ==
  ASSUME BudgetInv, IsFiniteSet(Kid), CallLimit \in Nat, ConsecutiveRepeats \in Nat \ {0},
         NEW c, NEW stalled \in BOOLEAN, Budget!BeforeTool(c, stalled)
  PROVE  BudgetInv'
<1> DEFINE g == Budget!Current(gov)
<1>1. CASE Budget!Stop(g)
  BY <1>1, StopKeeps
<1>2. CASE ~ (Budget!AvailableCalls(g) = 0 \/ Budget!LoopDetail(g.history, c, stalled) # "none")
  <2>1. /\ gov' = [g EXCEPT !.calls = @ + 1, !.history = Append(@, [call |-> c, ok |-> "none"])]
        /\ saved' = gov' /\ late' = {} /\ Budget!Shared = {}
        /\ made' = Append(made, c) /\ UNCHANGED <<itemRun, kids, loose>>
    BY <1>2 DEF Budget!BeforeTool, Budget!Save
  <2>2. g.history = gov.history
    BY CurrentIs
  <2>3. c \in Polls \/ Budget!LoopPattern(gov.history, c) = "none"
    BY <1>2, <2>2 DEF Budget!LoopDetail
  <2>4. Budget!AvailableCalls(g) # 0
    BY <1>2
  <2> QED BY <2>1, <2>3, <2>4, GrantKeeps, Zenon
<1> QED BY <1>1, <1>2 DEF Budget!BeforeTool

\* The governor and its history are as they were.
LEMMA SameGov ==
  ASSUME BudgetInv, UNCHANGED <<gov, saved, made>>
  PROVE  GovTypes' /\ Budget!NoEndlessLoop'
<1>1. GovTypes'
  BY DEF BudgetInv, GovTypes
<1>2. Budget!NoEndlessLoop'
  BY DEF BudgetInv, Budget!NoEndlessLoop
<1> QED BY <1>1, <1>2

\* Children move: what one settles for the run is not in its row yet.
LEMMA KidsMove ==
  ASSUME BudgetInv, IsFiniteSet(Kid), UNCHANGED <<gov, saved, made>>, KidTypes',
         \A k \in Kid : /\ Owed'[k] + Unsaved[k] = Owed[k] + Unsaved'[k]
                        /\ Booked'[k] <= Booked[k],
         Len(made') + SumOver(Held', Kid) <= CallLimit
  PROVE  BudgetInv'
<1> DEFINE e == [k \in Kid |-> Owed'[k] + Unsaved[k]]
<1>1. \A k \in Kid : /\ Owed[k] \in Int /\ Unsaved[k] \in Int /\ Booked[k] \in Int
                     /\ Owed'[k] \in Int /\ Unsaved'[k] \in Int /\ Booked'[k] \in Int
  <2>1. \A k \in Kid : Owed[k] \in Nat /\ Unsaved[k] \in Nat /\ Booked[k] \in Nat
    BY SumsAre DEF BudgetInv
  <2>2. \A k \in Kid : kids'[k].usage \in Nat
    BY DEF KidTypes, KidOk
  <2>3. \A k \in Kid : Owed'[k] \in Nat /\ Unsaved'[k] \in Nat /\ Booked'[k] \in Nat
    BY <2>2 DEF Owed, Unsaved, Booked
  <2> QED BY <2>1, <2>3
<1>2. \A k \in Kid : e[k] = Owed'[k] + Unsaved[k] /\ e[k] = Owed[k] + Unsaved'[k]
  OBVIOUS
<1> HIDE DEF e
<1>3. /\ SumOver(e, Kid) = SumOver(Owed', Kid) + SumOver(Unsaved, Kid)
      /\ SumOver(e, Kid) = SumOver(Owed, Kid) + SumOver(Unsaved', Kid)
  BY <1>1, <1>2, SumAdds
<1>4. /\ SumOver(Owed, Kid) \in Int /\ SumOver(Unsaved, Kid) \in Int
      /\ SumOver(Owed', Kid) \in Int /\ SumOver(Unsaved', Kid) \in Int
  <2>1. \A n \in Int : n <= n
    OBVIOUS
  <2> QED BY <1>1, <2>1, SumOrder
<1>5. /\ SumOver(Booked, Kid) \in Int /\ SumOver(Booked', Kid) \in Int
      /\ SumOver(Booked', Kid) <= SumOver(Booked, Kid)
  BY <1>1, SumOrder
<1> DEFINE o == SumOver(Owed, Kid)
           p == SumOver(Owed', Kid)
           u == SumOver(Unsaved, Kid)
           v == SumOver(Unsaved', Kid)
           x == SumOver(Booked, Kid)
           y == SumOver(Booked', Kid)
           n == Len(made)
<1>6. /\ o \in Int /\ p \in Int /\ u \in Int /\ v \in Int /\ x \in Int /\ y \in Int /\ n \in Int
      /\ gov.calls \in Int /\ gov.child \in Int
      /\ gov.child + u = o /\ n + x <= gov.calls /\ y <= x /\ p + u = o + v
  BY <1>3, <1>4, <1>5, Appended DEF BudgetInv, GovTypes, Ledger
<1>7. Len(made') = n /\ gov' = gov
  OBVIOUS
<1>8. gov'.child + v = p /\ Len(made') + y <= gov'.calls
  <2> HIDE DEF o, p, u, v, x, y, n
  <2>1. gov.child + v = p /\ n + y <= gov.calls
    BY <1>6
  <2>2. gov'.child = gov.child /\ gov'.calls = gov.calls /\ Len(made') = n
    BY <1>7
  <2> QED BY <2>1, <2>2
<1>9. Ledger'
  BY <1>8 DEF Ledger
<1> QED BY <1>9, SameGov DEF BudgetInv

\* The children hold no more than before.
LEMMA HeldShrinks ==
  ASSUME BudgetInv, IsFiniteSet(Kid), CallLimit \in Nat, KidTypes', made' = made,
         \A k \in Kid : Held'[k] <= Held[k]
  PROVE  Len(made') + SumOver(Held', Kid) <= CallLimit
<1>1. \A k \in Kid : Held[k] \in Int /\ Held'[k] \in Int
  <2>1. \A k \in Kid : kids'[k].usage \in Nat /\ kids'[k].share \in Nat
    BY DEF KidTypes, KidOk
  <2>2. \A k \in Kid : Held[k] \in Nat
    BY SumsAre DEF BudgetInv
  <2>3. \A k \in Kid : Held'[k] \in Nat
    BY <2>1 DEF Held
  <2> QED BY <2>2, <2>3
<1>2. /\ SumOver(Held, Kid) \in Int /\ SumOver(Held', Kid) \in Int
      /\ SumOver(Held', Kid) <= SumOver(Held, Kid)
  BY <1>1, SumOrder
<1> DEFINE a == SumOver(Held, Kid)
           b == SumOver(Held', Kid)
           n == Len(made)
<1>3. a \in Int /\ b \in Int /\ b <= a /\ n \in Int /\ n + a <= CallLimit /\ Len(made') = n
  BY <1>2, Appended DEF BudgetInv, GovTypes, Ledger
<1> HIDE DEF a, b, n
<1>4. n + b <= CallLimit
  BY <1>3
<1> QED BY <1>3, <1>4 DEF b

\* One child moves; the others are as they were.
LEMMA OneMoves ==
  ASSUME BudgetInv, IsFiniteSet(Kid), NEW k \in Kid, itemRun' = itemRun, DOMAIN kids' = Kid,
         \A j \in Kid \ {k} : /\ kids'[j] = kids[j] /\ (j \in loose' <=> j \in loose)
                              /\ (j \in late' <=> j \in late),
         KidOk(k)'
  PROVE  /\ KidTypes'
         /\ \A j \in Kid \ {k} :
              /\ Owed'[j] + Unsaved[j] = Owed[j] + Unsaved'[j]
              /\ Booked'[j] <= Booked[j] /\ Held'[j] = Held[j] /\ Held'[j] <= Held[j]
<1>1. \A j \in Kid \ {k} : KidOk(j)'
  <2> SUFFICES ASSUME NEW j \in Kid \ {k} PROVE KidOk(j)'
    OBVIOUS
  <2>1. KidOk(j) /\ kids'[j] = kids[j] /\ itemRun' = itemRun
        /\ (j \in loose' <=> j \in loose) /\ (j \in late' <=> j \in late)
    BY DEF BudgetInv, KidTypes
  <2> QED BY <2>1 DEF KidOk, Budget!Live
<1>2. \A j \in Kid : KidOk(j)'
  BY <1>1
<1>3. KidTypes'
  BY <1>2 DEF BudgetInv, KidTypes
<1>4. ASSUME NEW j \in Kid \ {k}
      PROVE  /\ Owed'[j] + Unsaved[j] = Owed[j] + Unsaved'[j]
             /\ Booked'[j] <= Booked[j] /\ Held'[j] = Held[j] /\ Held'[j] <= Held[j]
  <2>1. j \in Budget!Mine(itemRun)' <=> j \in Budget!Mine(itemRun)
    BY DEF Budget!Mine
  <2>2. Owed'[j] = Owed[j]
    BY <2>1 DEF Owed
  <2>3. Unsaved'[j] = Unsaved[j] /\ Booked'[j] = Booked[j]
    BY DEF Unsaved, Booked
  <2>4. Held'[j] = Held[j]
    BY DEF Held, Budget!Live
  <2>5. Booked[j] \in Nat /\ Held[j] \in Nat /\ \A n \in Nat : n <= n
    BY SumsAre DEF BudgetInv
  <2> QED BY <2>2, <2>3, <2>4, <2>5
<1> QED BY <1>3, <1>4

\* One child moves and holds no more than before.
LEMMA OneMovesWithin ==
  ASSUME BudgetInv, IsFiniteSet(Kid), CallLimit \in Nat, UNCHANGED <<gov, saved, made>>,
         NEW k \in Kid, itemRun' = itemRun, DOMAIN kids' = Kid,
         \A j \in Kid \ {k} : /\ kids'[j] = kids[j] /\ (j \in loose' <=> j \in loose)
                              /\ (j \in late' <=> j \in late),
         KidOk(k)',
         Owed'[k] + Unsaved[k] = Owed[k] + Unsaved'[k], Booked'[k] <= Booked[k],
         Held'[k] <= Held[k]
  PROVE  BudgetInv'
<1>1. /\ KidTypes'
      /\ \A j \in Kid \ {k} :
           /\ Owed'[j] + Unsaved[j] = Owed[j] + Unsaved'[j]
           /\ Booked'[j] <= Booked[j] /\ Held'[j] <= Held[j]
  BY OneMoves
<1>2. \A j \in Kid : /\ Owed'[j] + Unsaved[j] = Owed[j] + Unsaved'[j]
                     /\ Booked'[j] <= Booked[j] /\ Held'[j] <= Held[j]
  BY <1>1
<1>3. Len(made') + SumOver(Held', Kid) <= CallLimit
  BY <1>1, <1>2, HeldShrinks
<1> QED BY <1>1, <1>2, <1>3, KidsMove

\* A child that settles nothing: neither before nor after has it completed.
LEMMA NothingSettled ==
  ASSUME BudgetInv, IsFiniteSet(Kid), NEW k \in Kid, KidOk(k)', late' = late,
         kids[k].state # "completed", kids'[k].state # "completed"
  PROVE  Owed'[k] + Unsaved[k] = Owed[k] + Unsaved'[k] /\ Booked'[k] <= Booked[k]
<1>1. kids[k].usage = 0
  BY DEF BudgetInv, KidTypes, KidOk
<1>2. kids'[k].usage = 0
  BY DEF KidOk
<1>3. /\ Owed[k] = 0 /\ Unsaved[k] = 0 /\ Booked[k] = 0
      /\ Owed'[k] = 0 /\ Unsaved'[k] = 0 /\ Booked'[k] = 0
  BY <1>1, <1>2 DEF Owed, Unsaved, Booked
<1> QED BY <1>3

\* A child that changes its state or what it used, and settles nothing.
LEMMA KidSteps ==
  ASSUME BudgetInv, IsFiniteSet(Kid), CallLimit \in Nat, NEW k \in Kid, NEW e,
         UNCHANGED <<gov, saved, made, itemRun, late>>,
         kids' = [kids EXCEPT ![k] = e], loose' \in {loose, loose \cup {k}},
         DOMAIN e = KidFields, e.run = kids[k].run, e.share = kids[k].share,
         e.used \in Nat, e.used <= e.share, e.usage = 0,
         kids[k].state # "completed", e.state \in KidStates \ {"completed"},
         e.state \notin Unclaimed,
         e.state \in Budget!Live /\ k \notin loose' =>
           kids[k].state \in Budget!Live \cup {"shared"}
  PROVE  BudgetInv'
<1>1. KidOk(k) /\ DOMAIN kids = Kid /\ itemRun \in Nat
  BY DEF BudgetInv, KidTypes
<1>2. /\ DOMAIN kids' = Kid /\ kids'[k] = e
      /\ \A j \in Kid \ {k} : /\ kids'[j] = kids[j] /\ (j \in loose' <=> j \in loose)
                              /\ (j \in late' <=> j \in late)
      /\ k \in loose => k \in loose'
  BY <1>1
<1>3. KidOk(k)'
  <2>1. k \notin late
    BY <1>1 DEF KidOk
  <2>2. e.state # "shared"
    BY DEF Unclaimed
  <2>3. e.state \in Budget!Live /\ k \notin loose' => kids[k].run = itemRun
    BY <1>1, <1>2 DEF KidOk
  <2>4. kids[k].run \in Nat /\ kids[k].run <= itemRun /\ kids[k].share \in Nat
    BY <1>1 DEF KidOk
  <2> QED BY <1>2, <2>1, <2>2, <2>3, <2>4 DEF KidOk, Budget!Live
<1>4. Owed'[k] + Unsaved[k] = Owed[k] + Unsaved'[k] /\ Booked'[k] <= Booked[k]
  BY <1>2, <1>3, NothingSettled
<1>5. Held'[k] <= Held[k]
  <2>1. /\ kids[k].usage = 0 /\ kids[k].share \in Nat /\ e.share = kids[k].share /\ e.state # "shared"
    BY <1>1 DEF KidOk, Unclaimed
  <2>2. /\ Held[k] = IF k \in loose THEN 0
                     ELSE IF kids[k].state \in Budget!Live \cup {"shared"}
                          THEN kids[k].share ELSE kids[k].usage
        /\ Held'[k] = IF k \in loose' THEN 0
                      ELSE IF e.state \in Budget!Live \cup {"shared"}
                           THEN e.share ELSE e.usage
    BY <1>2 DEF Held, Budget!Live
  <2> QED BY <1>2, <2>1, <2>2
<1> QED BY <1>2, <1>3, <1>4, <1>5, OneMovesWithin

LEMMA StartAttemptKeeps ==
  ASSUME BudgetInv, IsFiniteSet(Kid), CallLimit \in Nat, NEW k \in Kid, Budget!StartAttempt(k)
  PROVE  BudgetInv'
<1> DEFINE e == [kids[k] EXCEPT !.state = "running"]
<1>1. KidOk(k) /\ DOMAIN kids = Kid /\ kids[k].state \in {"created", "suspended"}
  BY DEF BudgetInv, KidTypes, Budget!StartAttempt
<1>2. kids' = [kids EXCEPT ![k] = e] /\ UNCHANGED <<gov, saved, made, itemRun, loose, late>>
  BY DEF Budget!StartAttempt
<1>3. /\ DOMAIN e = KidFields /\ e.state = "running" /\ e.run = kids[k].run
      /\ e.share = kids[k].share /\ e.used = kids[k].used /\ e.usage = kids[k].usage
  BY <1>1 DEF KidFields, KidOk
<1> HIDE DEF e
<1>4. /\ kids[k].state \in Budget!Live /\ kids[k].usage = 0 /\ kids[k].state # "completed"
      /\ kids[k].used \in Nat /\ kids[k].used <= kids[k].share
  BY <1>1 DEF Budget!Live, KidOk
<1>5. e.state \in KidStates \ {"completed"} /\ e.state \notin Unclaimed
  BY <1>3 DEF KidStates, Unclaimed, Budget!Live
<1> QED BY <1>2, <1>3, <1>4, <1>5, KidSteps

LEMMA ClaimSharedKeeps ==
  ASSUME BudgetInv, IsFiniteSet(Kid), CallLimit \in Nat, NEW k \in Kid, Budget!ClaimShared(k)
  PROVE  BudgetInv'
<1> DEFINE e == [kids[k] EXCEPT !.state = "created"]
<1>1. KidOk(k) /\ DOMAIN kids = Kid /\ kids[k].state = "shared"
  BY DEF BudgetInv, KidTypes, Budget!ClaimShared
<1>2. kids' = [kids EXCEPT ![k] = e] /\ UNCHANGED <<gov, saved, made, itemRun, loose, late>>
  BY DEF Budget!ClaimShared
<1>3. /\ DOMAIN e = KidFields /\ e.state = "created" /\ e.run = kids[k].run
      /\ e.share = kids[k].share /\ e.used = kids[k].used /\ e.usage = kids[k].usage
  BY <1>1 DEF KidFields, KidOk
<1> HIDE DEF e
<1>4. /\ kids[k].usage = 0 /\ kids[k].state # "completed"
      /\ kids[k].used \in Nat /\ kids[k].used <= kids[k].share
  BY <1>1 DEF KidOk
<1>5. e.state \in KidStates \ {"completed"} /\ e.state \notin Unclaimed
  BY <1>3 DEF KidStates, Unclaimed, Budget!Live
<1> QED BY <1>1, <1>2, <1>3, <1>4, <1>5, KidSteps

LEMMA ReopenKeeps ==
  ASSUME BudgetInv, IsFiniteSet(Kid), CallLimit \in Nat, NEW k \in Kid, Budget!Reopen(k)
  PROVE  BudgetInv'
<1> DEFINE e == [kids[k] EXCEPT !.state = "created"]
<1>1. KidOk(k) /\ DOMAIN kids = Kid /\ kids[k].state = "interrupted"
  BY DEF BudgetInv, KidTypes, Budget!Reopen
<1>2. /\ kids' = [kids EXCEPT ![k] = e] /\ loose' = loose \cup {k}
      /\ UNCHANGED <<gov, saved, made, itemRun, late>>
  BY DEF Budget!Reopen
<1>3. /\ DOMAIN e = KidFields /\ e.state = "created" /\ e.run = kids[k].run
      /\ e.share = kids[k].share /\ e.used = kids[k].used /\ e.usage = kids[k].usage
  BY <1>1 DEF KidFields, KidOk
<1> HIDE DEF e
<1>4. /\ kids[k].usage = 0 /\ kids[k].state # "completed"
      /\ kids[k].used \in Nat /\ kids[k].used <= kids[k].share
  BY <1>1 DEF KidOk
<1>5. e.state \in KidStates \ {"completed"} /\ e.state \notin Unclaimed
  BY <1>3 DEF KidStates, Unclaimed, Budget!Live
<1>6. k \in loose' /\ loose' \in {loose, loose \cup {k}}
  BY <1>2
<1> QED BY <1>2, <1>3, <1>4, <1>5, <1>6, KidSteps

LEMMA KidCallsKeeps ==
  ASSUME BudgetInv, IsFiniteSet(Kid), CallLimit \in Nat, NEW k \in Kid, Budget!KidCalls(k)
  PROVE  BudgetInv'
<1> DEFINE e == [kids[k] EXCEPT !.used = @ + 1]
<1>1. KidOk(k) /\ DOMAIN kids = Kid /\ kids[k].state = "running" /\ kids[k].used < kids[k].share
  BY DEF BudgetInv, KidTypes, Budget!KidCalls
<1>2. kids' = [kids EXCEPT ![k] = e] /\ UNCHANGED <<gov, saved, made, itemRun, loose, late>>
  BY DEF Budget!KidCalls
<1>3. /\ DOMAIN e = KidFields /\ e.state = kids[k].state /\ e.run = kids[k].run
      /\ e.share = kids[k].share /\ e.used = kids[k].used + 1 /\ e.usage = kids[k].usage
  BY <1>1 DEF KidFields, KidOk
<1> HIDE DEF e
<1>4. /\ kids[k].state \in Budget!Live /\ kids[k].usage = 0 /\ kids[k].state # "completed"
      /\ kids[k].used \in Nat /\ kids[k].share \in Nat
  BY <1>1 DEF Budget!Live, KidOk
<1>5. e.used \in Nat /\ e.used <= e.share
  BY <1>1, <1>3, <1>4
<1>6. e.state \in KidStates \ {"completed"} /\ e.state \notin Unclaimed
  BY <1>1, <1>3 DEF KidStates, Unclaimed, Budget!Live
<1> QED BY <1>2, <1>3, <1>4, <1>5, <1>6, KidSteps

\* A child that completes settles what it used, with the run that has started it.
LEMMA FinishAttemptKeeps ==
  ASSUME BudgetInv, IsFiniteSet(Kid), CallLimit \in Nat, NEW k \in Kid,
         NEW s \in {"completed", "failed", "suspended"}, Budget!FinishAttempt(k, s)
  PROVE  BudgetInv'
<1> DEFINE e == [kids[k] EXCEPT !.state = s,
                                !.usage = IF s = "completed" THEN kids[k].used ELSE 0]
<1>1. /\ KidOk(k) /\ DOMAIN kids = Kid /\ kids[k].state \in Budget!Live /\ itemRun \in Nat
  BY DEF BudgetInv, KidTypes, Budget!FinishAttempt, Budget!Live
<1>2. /\ kids' = [kids EXCEPT ![k] = e] /\ UNCHANGED <<gov, saved, made, itemRun, loose>>
      /\ late' = IF s = "completed" /\ kids[k].run = itemRun THEN late \cup {k} ELSE late
  BY <1>1 DEF Budget!FinishAttempt
<1>3. /\ DOMAIN e = KidFields /\ e.state = s /\ e.run = kids[k].run
      /\ e.share = kids[k].share /\ e.used = kids[k].used
      /\ e.usage = IF s = "completed" THEN kids[k].used ELSE 0
  BY <1>1 DEF KidFields, KidOk
<1> HIDE DEF e
<1>4. /\ kids[k].usage = 0 /\ kids[k].state # "completed" /\ k \notin late
      /\ kids[k].used \in Nat /\ kids[k].share \in Nat /\ kids[k].used <= kids[k].share
      /\ kids[k].run \in Nat /\ kids[k].run <= itemRun
      /\ k \notin loose => kids[k].run = itemRun
  BY <1>1 DEF Budget!Live, KidOk
<1>5. CASE s # "completed"
  <2>1. e.usage = 0 /\ late' = late /\ e.state \in KidStates \ {"completed"} /\ e.state \notin Unclaimed
    BY <1>2, <1>3, <1>5 DEF KidStates, Unclaimed, Budget!Live
  <2> QED BY <1>1, <1>2, <1>3, <1>4, <2>1, KidSteps
<1>6. CASE s = "completed"
  <2>1. /\ DOMAIN kids' = Kid /\ kids'[k] = e
        /\ \A j \in Kid \ {k} : /\ kids'[j] = kids[j] /\ (j \in loose' <=> j \in loose)
                                /\ (j \in late' <=> j \in late)
        /\ k \in late' <=> kids[k].run = itemRun
    BY <1>1, <1>2, <1>4, <1>6
  <2>2. KidOk(k)'
    BY <1>2, <1>3, <1>4, <1>6, <2>1 DEF KidOk, KidStates, Unclaimed, Budget!Live
  <2>3. /\ Owed[k] = 0 /\ Unsaved[k] = 0 /\ Booked[k] = 0
    BY <1>4 DEF Owed, Unsaved, Booked
  <2>4. Unsaved'[k] = IF kids[k].run = itemRun THEN kids[k].used ELSE 0
    BY <1>3, <1>6, <2>1 DEF Unsaved
  <2>5. Owed'[k] = IF kids[k].run = itemRun THEN kids[k].used ELSE 0
    <3>1. k \in Budget!Mine(itemRun)' <=> kids[k].run = itemRun
      BY <1>2, <1>3, <1>6, <2>1 DEF Budget!Mine
    <3> QED BY <1>3, <1>6, <2>1, <3>1 DEF Owed
  <2>6. Booked'[k] = 0
    BY <1>2, <1>4, <2>1 DEF Booked
  <2>7. Held'[k] <= Held[k]
    <3>1. /\ Held[k] = IF k \in loose THEN 0 ELSE kids[k].share
          /\ Held'[k] = IF k \in loose THEN 0 ELSE kids[k].used
      BY <1>1, <1>2, <1>3, <1>6, <2>1 DEF Held, Budget!Live
    <3> QED BY <1>4, <3>1
  <2>8. Owed'[k] + Unsaved[k] = Owed[k] + Unsaved'[k] /\ Booked'[k] <= Booked[k]
    BY <1>4, <2>3, <2>4, <2>5, <2>6
  <2> QED BY <1>2, <2>1, <2>2, <2>7, <2>8, OneMovesWithin
<1> QED BY <1>5, <1>6

\* A task is claimed whose share is still there, or the budget does not cover it.
LEMMA ClaimTaskKeeps ==
  ASSUME BudgetInv, IsFiniteSet(Kid), CallLimit \in Nat, NEW k \in Kid, Budget!ClaimTask(k)
  PROVE  BudgetInv'
<1> DEFINE e == [kids[k] EXCEPT !.state = "created"]
<1>1. KidOk(k) /\ DOMAIN kids = Kid /\ kids[k].state = "planned" /\ itemRun \in Nat
  BY DEF BudgetInv, KidTypes, Budget!ClaimTask
<1>2. /\ kids' = [kids EXCEPT ![k] = e] /\ UNCHANGED <<gov, saved, made, itemRun, late>>
      /\ loose' = IF Budget!Fits(k) THEN loose ELSE loose \cup {k}
  BY DEF Budget!ClaimTask
<1>3. /\ DOMAIN e = KidFields /\ e.state = "created" /\ e.run = kids[k].run
      /\ e.share = kids[k].share /\ e.used = kids[k].used /\ e.usage = kids[k].usage
  BY <1>1 DEF KidFields, KidOk
<1> HIDE DEF e
<1>4. /\ kids[k].usage = 0 /\ k \notin late /\ k \notin loose
      /\ kids[k].used \in Nat /\ kids[k].share \in Nat /\ kids[k].used <= kids[k].share
      /\ kids[k].run \in Nat /\ kids[k].run <= itemRun
  BY <1>1 DEF KidOk, Unclaimed
<1>5. e.state \in KidStates \ {"completed"} /\ e.state \notin Unclaimed
  BY <1>3 DEF KidStates, Unclaimed, Budget!Live
<1>6. CASE ~Budget!Fits(k)
  <2>1. k \in loose' /\ loose' \in {loose, loose \cup {k}} /\ kids[k].state # "completed"
    BY <1>1, <1>2, <1>6
  <2> QED BY <1>2, <1>3, <1>4, <1>5, <2>1, KidSteps
<1>7. CASE Budget!Fits(k)
  <2>1. /\ DOMAIN kids' = Kid /\ kids'[k] = e /\ loose' = loose
        /\ \A j \in Kid \ {k} : /\ kids'[j] = kids[j] /\ (j \in loose' <=> j \in loose)
                                /\ (j \in late' <=> j \in late)
    BY <1>1, <1>2, <1>7
  <2>2. KidOk(k)'
    <3>1. kids[k].run = itemRun
      BY <1>7 DEF Budget!Fits
    <3> QED BY <1>2, <1>3, <1>4, <2>1, <3>1 DEF KidOk, KidStates, Unclaimed, Budget!Live
  <2>3. /\ KidTypes'
        /\ \A j \in Kid \ {k} :
             /\ Owed'[j] + Unsaved[j] = Owed[j] + Unsaved'[j]
             /\ Booked'[j] <= Booked[j] /\ Held'[j] = Held[j]
    BY <1>2, <2>1, <2>2, OneMoves
  <2>4. Owed'[k] + Unsaved[k] = Owed[k] + Unsaved'[k] /\ Booked'[k] <= Booked[k]
    BY <1>1, <1>2, <1>3, <2>1, <2>2, NothingSettled
  <2>5. \A j \in Kid : /\ Owed'[j] + Unsaved[j] = Owed[j] + Unsaved'[j]
                       /\ Booked'[j] <= Booked[j]
    BY <2>3, <2>4
  <2>6. Held[k] = 0 /\ Held'[k] = kids[k].share
    BY <1>1, <1>3, <1>4, <2>1 DEF Held, Budget!Live
  <2> DEFINE f == [j \in Kid |-> IF j \in {k} THEN kids[k].share ELSE 0]
  <2>7. \A j \in Kid : Held[j] \in Int /\ f[j] \in Int /\ Held'[j] = Held[j] + f[j]
    <3> SUFFICES ASSUME NEW j \in Kid
                 PROVE  Held[j] \in Int /\ f[j] \in Int /\ Held'[j] = Held[j] + f[j]
      OBVIOUS
    <3>1. Held[j] \in Nat
      BY SumsAre DEF BudgetInv
    <3>2. f[j] = IF j = k THEN kids[k].share ELSE 0
      OBVIOUS
    <3> HIDE DEF f
    <3> QED BY <1>4, <2>3, <2>6, <3>1, <3>2
  <2>8. SumOver(f, Kid) = kids[k].share
    <3> DEFINE g == [j \in Kid |-> kids[k].share]
    <3>1. \A j \in Kid : g[j] \in Int /\ f[j] = IF j \in {k} THEN g[j] ELSE 0
      BY <1>4
    <3>2. {k} \in SUBSET Kid /\ IsFiniteSet({k}) /\ Cardinality({k}) = 1 /\ kids[k].share \in Int
      <4>1. IsFiniteSet({k}) /\ Cardinality({k}) = 1
        BY FS_Singleton
      <4> QED BY <1>4, <4>1
    <3>3. \A j \in {k} : g[j] = kids[k].share
      OBVIOUS
    <3> HIDE DEF f, g
    <3>4. SumOver(g, {k}) = SumOver(f, Kid)
      BY <3>1, <3>2, SumOfPart
    <3>5. SumOver(g, {k}) = kids[k].share * 1
      BY <3>2, <3>3, SumOfShares
    <3> QED BY <1>4, <3>4, <3>5
  <2> HIDE DEF f
  <2>9. SumOver(Held', Kid) = SumOver(Held, Kid) + kids[k].share
    <3>1. SumOver(Held', Kid) = SumOver(Held, Kid) + SumOver(f, Kid)
      BY <2>7, SumAdds
    <3> QED BY <2>8, <3>1
  <2>10. Len(made') + SumOver(Held', Kid) <= CallLimit
    <3> DEFINE h == SumOver(Held, Kid)
               c == Budget!Current(gov).calls
               d == Budget!Reserved(itemRun)
               n == Len(made)
               q == kids[k].share
    <3>1. q + Promised <= CallLimit - c - d
      BY <1>7 DEF Budget!Fits, Promised, SumOver
    <3>2. /\ Promised \in Int /\ d \in Int /\ c \in Int /\ n \in Int /\ h \in Int /\ q \in Int
          /\ n + h <= c + d + Promised
      BY <1>4, Covered, CurrentIs, SumsAre, Appended DEF BudgetInv, GovTypes
    <3>3. Len(made') = n /\ SumOver(Held', Kid) = h + q
      BY <1>2, <2>9
    <3> HIDE DEF h, c, d, n, q
    <3>4. n + (h + q) <= CallLimit
      BY <3>1, <3>2
    <3> QED BY <3>3, <3>4
  <2> QED BY <1>2, <2>3, <2>5, <2>10, KidsMove
<1> QED BY <1>6, <1>7

\* What is left to be called is a number, and shares come out of it.
LEMMA SharesAre ==
  ASSUME BudgetInv, IsFiniteSet(Kid), CallLimit \in Nat, Budget!Shared = {}
  PROVE  \A n \in Nat \ {0} : /\ Budget!Share(n) \in Nat
                              /\ n * Budget!Share(n) <= Budget!AvailableCalls(Budget!Current(gov))
<1> DEFINE a == Budget!AvailableCalls(Budget!Current(gov))
<1>1. a \in Nat
  BY AvailableIs
<1>2. \A n : Budget!Share(n) = a \div n
  BY DEF Budget!Share
<1> HIDE DEF a
<1>3. \A n \in Nat \ {0} : a \div n \in Nat /\ n * (a \div n) <= a
  BY <1>1
<1> QED BY <1>2, <1>3 DEF a

\* Children that get a share settle nothing.
LEMMA Sharing ==
  ASSUME BudgetInv, IsFiniteSet(Kid), NEW S \in SUBSET Kid, NEW e,
         \A j \in S : kids[j].state = "none",
         UNCHANGED <<itemRun, loose>>, late' = {}, DOMAIN kids' = Kid,
         \A j \in S : kids'[j] = e, \A j \in Kid \ S : kids'[j] = kids[j],
         DOMAIN e = KidFields, e.state \in {"shared", "planned"}, e.run = itemRun,
         e.share \in Nat, e.used = 0, e.usage = 0
  PROVE  /\ KidTypes'
         /\ \A j \in Kid : /\ Owed'[j] = Owed[j] /\ Booked'[j] <= Taken[j]
                           /\ Held'[j] = Held[j] + IF j \in S /\ e.state = "shared"
                                                   THEN e.share ELSE 0
<1>1. itemRun \in Nat /\ \A j \in Kid : KidOk(j)
  BY DEF BudgetInv, KidTypes
<1>2. ASSUME NEW j \in S
      PROVE  /\ KidOk(j)' /\ Owed'[j] = Owed[j] /\ Booked'[j] <= Taken[j]
             /\ Held'[j] = Held[j] + IF e.state = "shared" THEN e.share ELSE 0
  <2>1. kids[j].usage = 0 /\ kids[j].state = "none" /\ j \notin loose
    BY <1>1 DEF KidOk, Unclaimed
  <2>2. KidOk(j)'
    BY <1>1, <2>1 DEF KidOk, KidStates, Unclaimed, Budget!Live
  <2>3. /\ Owed[j] = 0 /\ Owed'[j] = 0 /\ Booked'[j] = 0 /\ Taken[j] = 0
    BY <2>1 DEF Owed, Booked, Taken
  <2>4. Held[j] = 0 /\ Held'[j] = IF e.state = "shared" THEN e.share ELSE 0
    BY <2>1 DEF Held, Budget!Live
  <2> QED BY <2>2, <2>3, <2>4
<1>3. ASSUME NEW j \in Kid \ S
      PROVE  /\ KidOk(j)' /\ Owed'[j] = Owed[j] /\ Booked'[j] <= Taken[j]
             /\ Held'[j] = Held[j] + 0
  <2>1. KidOk(j)'
    BY <1>1 DEF KidOk, Budget!Live
  <2>2. j \in Budget!Mine(itemRun)' <=> j \in Budget!Mine(itemRun)
    BY DEF Budget!Mine
  <2>3. Owed'[j] = Owed[j]
    BY <2>2 DEF Owed
  <2>4. Booked'[j] = Taken[j]
    BY DEF Booked, Taken
  <2>5. Held'[j] = Held[j]
    BY DEF Held, Budget!Live
  <2>6. Taken[j] \in Nat /\ Held[j] \in Nat /\ \A n \in Nat : n <= n /\ n = n + 0
    BY SumsAre DEF BudgetInv
  <2> QED BY <2>1, <2>3, <2>4, <2>5, <2>6
<1>4. \A j \in Kid : KidOk(j)'
  BY <1>2, <1>3
<1>5. KidTypes'
  BY <1>1, <1>4 DEF KidTypes
<1> QED BY <1>2, <1>3, <1>5

LEMMA PlanTaskKeeps ==
  ASSUME BudgetInv, IsFiniteSet(Kid), CallLimit \in Nat, NEW k \in Kid, Budget!PlanTask(k)
  PROVE  BudgetInv'
<1> DEFINE q == Budget!Share(1)
           e == [Budget!NoKid EXCEPT !.state = "planned", !.run = itemRun, !.share = q]
<1>1. q \in Nat
  <2>1. 1 \in Nat \ {0} /\ Budget!Shared = {}
    BY DEF Budget!PlanTask
  <2> QED BY <2>1, SharesAre
<1>2. /\ kids' = [kids EXCEPT ![k] = e] /\ loose' = loose /\ late' = {} /\ kids[k].state = "none"
      /\ gov' = Budget!Current(gov) /\ saved' = gov' /\ UNCHANGED <<itemRun, made>>
  BY DEF Budget!PlanTask, Budget!Save
<1>3. DOMAIN kids = Kid
  BY DEF BudgetInv, KidTypes
<1> HIDE DEF q
<1>4. /\ DOMAIN e = KidFields /\ e.state = "planned" /\ e.run = itemRun /\ e.share = q
      /\ e.used = 0 /\ e.usage = 0
  BY DEF Budget!NoKid, KidFields
<1> HIDE DEF e
<1> DEFINE S == {k}
<1>5. /\ DOMAIN kids' = Kid /\ \A j \in S : kids'[j] = e
      /\ \A j \in S : kids[j].state = "none"
      /\ \A j \in Kid \ S : kids'[j] = kids[j]
  BY <1>2, <1>3
<1>6. /\ KidTypes'
      /\ \A j \in Kid : /\ Owed'[j] = Owed[j] /\ Booked'[j] <= Taken[j]
                        /\ Held'[j] = Held[j] + 0
  <2>1. e.state \in {"shared", "planned"} /\ S \in SUBSET Kid /\ e.share \in Nat
    BY <1>1, <1>4
  <2> HIDE DEF S
  <2>2. /\ KidTypes'
        /\ \A j \in Kid : /\ Owed'[j] = Owed[j] /\ Booked'[j] <= Taken[j]
                          /\ Held'[j] = Held[j] + IF j \in S /\ e.state = "shared"
                                                  THEN e.share ELSE 0
    BY <1>2, <1>4, <1>5, <2>1, Sharing
  <2> QED BY <1>4, <2>2
<1>7. Len(made') + SumOver(Held', Kid) <= CallLimit
  <2>1. \A j \in Kid : Held[j] \in Nat
    BY SumsAre DEF BudgetInv
  <2>2. \A j \in Kid : Held'[j] <= Held[j]
    BY <1>6, <2>1
  <2> QED BY <1>2, <1>6, <2>2, HeldShrinks
<1>8. /\ DOMAIN gov' = GovFields /\ gov'.calls \in Int /\ gov'.child \in Int
      /\ gov'.history = gov.history
  BY <1>2, CurrentIs
<1>9. GovTypes' /\ Budget!NoEndlessLoop'
  <2>1. GovTypes'
    BY <1>2, <1>8 DEF BudgetInv, GovTypes
  <2>2. Budget!NoEndlessLoop'
    BY <1>2 DEF BudgetInv, Budget!NoEndlessLoop
  <2> QED BY <2>1, <2>2
<1>10. Ledger'
  <2>1. /\ Len(made') + Budget!Current(gov).calls = gov'.calls + Len(made)
        /\ gov'.child = Budget!Current(gov).child
    BY <1>2, CurrentIs, Appended DEF BudgetInv, GovTypes
  <2> QED BY <1>2, <1>9, <1>6, <1>7, <2>1, Saves
<1> QED BY <1>6, <1>9, <1>10 DEF BudgetInv

LEMMA BudgetSize == \A S : Budget!Cardinality(S) = Cardinality(S)
BY DEF Budget!Cardinality, Cardinality

\* The shares of a delegation come out of what is left.
LEMMA DelegateKeeps ==
  ASSUME BudgetInv, IsFiniteSet(Kid), CallLimit \in Nat, NEW S \in SUBSET Kid, Budget!Delegate(S)
  PROVE  BudgetInv'
<1> DEFINE n == Cardinality(S)
           q == Budget!Share(n)
           left == Budget!AvailableCalls(Budget!Current(gov))
           e == [Budget!NoKid EXCEPT !.state = "shared", !.run = itemRun, !.share = q]
<1>1. n \in Nat \ {0} /\ Budget!Shared = {} /\ q > 0
  BY FS_Subset, FS_CardinalityType, FS_EmptySet, BudgetSize DEF Budget!Delegate
<1>2. q \in Nat /\ n * q <= left
  BY <1>1, SharesAre
<1>3. /\ kids' = [k \in Kid |-> IF k \in S THEN e ELSE kids[k]]
      /\ gov' = Budget!Current(gov) /\ saved' = gov' /\ late' = {}
      /\ UNCHANGED <<itemRun, made, loose>>
      /\ \A k \in S : kids[k].state = "none"
  BY BudgetSize DEF Budget!Delegate, Budget!Save
<1> HIDE DEF q, n, left
<1>5. /\ DOMAIN e = KidFields /\ e.state = "shared" /\ e.run = itemRun /\ e.share = q
      /\ e.used = 0 /\ e.usage = 0
  BY DEF Budget!NoKid, KidFields
<1> HIDE DEF e
<1>6. /\ DOMAIN kids' = Kid /\ \A j \in Kid \ S : kids'[j] = kids[j]
      /\ \A j \in S : kids'[j] = e
  BY <1>3
<1>7. /\ KidTypes'
      /\ \A j \in Kid : /\ Owed'[j] = Owed[j] /\ Booked'[j] <= Taken[j]
                        /\ Held'[j] = Held[j] + IF j \in S THEN q ELSE 0
  <2>1. e.state \in {"shared", "planned"} /\ e.share \in Nat
    BY <1>2, <1>5
  <2>2. /\ KidTypes'
        /\ \A j \in Kid : /\ Owed'[j] = Owed[j] /\ Booked'[j] <= Taken[j]
                          /\ Held'[j] = Held[j] + IF j \in S /\ e.state = "shared"
                                                  THEN e.share ELSE 0
    BY <1>3, <1>5, <1>6, <2>1, Sharing
  <2> QED BY <1>5, <2>2
<1>8. /\ DOMAIN gov' = GovFields /\ gov'.calls \in Int /\ gov'.child \in Int
      /\ gov'.history = gov.history
  BY <1>3, CurrentIs
<1>9. GovTypes'
  BY <1>3, <1>8 DEF BudgetInv, GovTypes
<1>10. Budget!NoEndlessLoop'
  BY <1>3 DEF BudgetInv, Budget!NoEndlessLoop
<1> DEFINE g == [j \in Kid |-> q]
           f == [j \in Kid |-> IF j \in S THEN q ELSE 0]
<1>11. SumOver(f, Kid) = q * n
  <2>1. SumOver(g, S) = SumOver(f, Kid)
    <3>1. \A j \in Kid : g[j] \in Int /\ f[j] = IF j \in S THEN g[j] ELSE 0
      BY <1>2
    <3> HIDE DEF f, g
    <3> QED BY <3>1, SumOfPart
  <2>2. SumOver(g, S) = q * n
    <3>1. \A j \in S : g[j] = q
      OBVIOUS
    <3>2. IsFiniteSet(S) /\ q \in Int
      BY <1>2, FS_Subset
    <3> HIDE DEF g
    <3> QED BY <3>1, <3>2, SumOfShares DEF n
  <2> QED BY <2>1, <2>2
<1>12. SumOver(Held', Kid) = SumOver(Held, Kid) + q * n
  <2>1. \A j \in Kid : Held[j] \in Nat
    BY SumsAre DEF BudgetInv
  <2>2. \A j \in Kid : Held[j] \in Int /\ f[j] \in Int /\ Held'[j] = Held[j] + f[j]
    BY <1>2, <1>7, <2>1
  <2> HIDE DEF f
  <2>3. SumOver(Held', Kid) = SumOver(Held, Kid) + SumOver(f, Kid)
    BY <2>2, SumAdds
  <2> QED BY <1>11, <2>3
<1>13. Len(made') + SumOver(Held', Kid) <= CallLimit
  <2> DEFINE h == SumOver(Held, Kid)
             m == Len(made)
             p == n * q
  <2>1. /\ left \in Nat /\ m \in Nat /\ h \in Int /\ (left # 0 => m + h + left <= CallLimit)
    BY <1>1, AvailableIs DEF left
  <2>2. p \in Int /\ q * n = p /\ p > 0 /\ p <= left
    BY <1>1, <1>2
  <2>3. Len(made') = m /\ SumOver(Held', Kid) = h + p
    BY <1>3, <1>12, <2>2
  <2> HIDE DEF h, m, p
  <2>4. m + (h + p) <= CallLimit
    BY <2>1, <2>2
  <2> QED BY <2>3, <2>4
<1>14. Ledger'
  <2>1. /\ Len(made') + Budget!Current(gov).calls = gov'.calls + Len(made)
        /\ gov'.child = Budget!Current(gov).child
    BY <1>3, CurrentIs, Appended DEF BudgetInv, GovTypes
  <2> QED BY <1>3, <1>9, <1>7, <1>13, <2>1, Saves
<1> QED BY <1>7, <1>9, <1>10, <1>14 DEF BudgetInv

\* A child whose share is given up holds nothing.
LEMMA UnsharedIs ==
  ASSUME BudgetInv, NEW k \in Kid
  PROVE  /\ KidOk(k)
         /\ Budget!Unshared[k] = IF kids[k].state = "shared" THEN Budget!NoKid ELSE kids[k]
         /\ DOMAIN Budget!NoKid = KidFields /\ Budget!NoKid.state = "none"
         /\ Budget!NoKid.run = 0 /\ Budget!NoKid.share = 0
         /\ Budget!NoKid.used = 0 /\ Budget!NoKid.usage = 0
<1>1. KidOk(k)
  BY DEF BudgetInv, KidTypes
<1>2. Budget!Unshared[k] = IF kids[k].state = "shared" THEN Budget!NoKid ELSE kids[k]
  BY DEF Budget!Unshared, Budget!Shared
<1> QED BY <1>1, <1>2 DEF Budget!NoKid, KidFields

LEMMA DelegateFailsKeeps ==
  ASSUME BudgetInv, IsFiniteSet(Kid), CallLimit \in Nat, Budget!DelegateFails
  PROVE  BudgetInv'
<1>1. kids' = Budget!Unshared /\ UNCHANGED <<gov, saved, itemRun, made, loose, late>>
  BY DEF Budget!DelegateFails
<1>2. ASSUME NEW k \in Kid
      PROVE  /\ KidOk(k)'
             /\ Owed'[k] + Unsaved[k] = Owed[k] + Unsaved'[k] /\ Booked'[k] <= Booked[k]
             /\ Held'[k] <= Held[k]
  <2> DEFINE e == Budget!NoKid
  <2>0. itemRun \in Nat
    BY DEF BudgetInv, KidTypes
  <2>1. /\ KidOk(k) /\ kids'[k] = IF kids[k].state = "shared" THEN e ELSE kids[k]
        /\ DOMAIN e = KidFields /\ e.state = "none" /\ e.run = 0 /\ e.share = 0
        /\ e.used = 0 /\ e.usage = 0
    BY <1>1, UnsharedIs
  <2> HIDE DEF e
  <2>2. CASE kids[k].state = "shared"
    <3>1. kids[k].usage = 0 /\ k \notin late /\ k \notin loose /\ kids[k].share \in Nat
      BY <2>1, <2>2 DEF KidOk, Unclaimed
    <3>2. KidOk(k)'
      BY <1>1, <2>0, <2>1, <2>2, <3>1 DEF KidOk, KidStates, Unclaimed, Budget!Live
    <3>3. /\ Owed[k] = 0 /\ Unsaved[k] = 0 /\ Booked[k] = 0
          /\ Owed'[k] = 0 /\ Unsaved'[k] = 0 /\ Booked'[k] = 0
      BY <2>1, <2>2, <3>1 DEF Owed, Unsaved, Booked
    <3>4. Held'[k] = 0 /\ Held[k] = kids[k].share
      BY <1>1, <2>1, <2>2, <3>1 DEF Held, Budget!Live
    <3> QED BY <3>1, <3>2, <3>3, <3>4
  <2>3. CASE kids[k].state # "shared"
    <3>1. kids'[k] = kids[k]
      BY <2>1, <2>3
    <3>2. KidOk(k)'
      BY <1>1, <2>1, <3>1 DEF KidOk, Budget!Live
    <3>3. k \in Budget!Mine(itemRun)' <=> k \in Budget!Mine(itemRun)
      BY <1>1, <3>1 DEF Budget!Mine
    <3>4. Owed'[k] = Owed[k]
      BY <3>1, <3>3 DEF Owed
    <3>5. Unsaved'[k] = Unsaved[k] /\ Booked'[k] = Booked[k]
      BY <1>1, <3>1 DEF Unsaved, Booked
    <3>6. Held'[k] = Held[k]
      BY <1>1, <3>1 DEF Held, Budget!Live
    <3>7. Booked[k] \in Nat /\ Held[k] \in Nat /\ \A n \in Nat : n <= n
      BY SumsAre DEF BudgetInv
    <3> QED BY <3>2, <3>4, <3>5, <3>6, <3>7
  <2> QED BY <2>2, <2>3
<1>3. KidTypes'
  <2>1. itemRun' \in Nat /\ DOMAIN kids' = Kid
    BY <1>1 DEF BudgetInv, KidTypes, Budget!Unshared
  <2> QED BY <1>2, <2>1 DEF KidTypes
<1>4. Len(made') + SumOver(Held', Kid) <= CallLimit
  BY <1>1, <1>2, <1>3, HeldShrinks
<1> QED BY <1>1, <1>2, <1>3, <1>4, KidsMove

\* The next run starts from a row that accounts for every child that its budget
\* still covers.
LEMMA ContinueKeeps ==
  ASSUME BudgetInv, IsFiniteSet(Kid), CallLimit \in Nat, NEW crash \in BOOLEAN,
         Budget!Continue(crash)
  PROVE  BudgetInv'
<1>1. /\ itemRun' = itemRun + 1 /\ saved = gov /\ late' = {}
      /\ gov' = [saved EXCEPT !.child = 0, !.stopped = FALSE] /\ saved' = gov'
      /\ kids' = (IF crash THEN Budget!Interrupted ELSE Budget!Unshared) /\ made' = made
      /\ loose' = loose \cup late \cup {k \in Kid : ~crash /\ kids[k].state \in Budget!Live}
  BY DEF Budget!Continue, Budget!Save, BudgetInv, GovTypes
<1>2. /\ DOMAIN gov = GovFields /\ gov.calls \in Int /\ gov.child \in Int /\ itemRun \in Nat
  BY DEF BudgetInv, GovTypes, KidTypes
<1>3. /\ DOMAIN gov' = GovFields /\ gov'.calls = gov.calls /\ gov'.child = 0
      /\ gov'.history = gov.history
  BY <1>1, <1>2 DEF GovFields
<1>4. ASSUME NEW k \in Kid
      PROVE  /\ KidOk(k)' /\ kids'[k].run <= itemRun
             /\ Owed'[k] = 0 /\ Unsaved'[k] = 0 /\ Booked'[k] <= Booked[k]
             /\ Held'[k] <= Held[k]
  <2> DEFINE e == Budget!NoKid
             d == [kids[k] EXCEPT !.state = "interrupted"]
             live == kids[k].state \in Budget!Live
  <2>1. /\ KidOk(k) /\ DOMAIN e = KidFields /\ e.state = "none" /\ e.run = 0 /\ e.share = 0
        /\ e.used = 0 /\ e.usage = 0
        /\ Budget!Unshared[k] = IF kids[k].state = "shared" THEN e ELSE kids[k]
    BY UnsharedIs
  <2>2. /\ DOMAIN d = KidFields /\ d.state = "interrupted" /\ d.run = kids[k].run
        /\ d.share = kids[k].share /\ d.used = kids[k].used /\ d.usage = kids[k].usage
    BY <2>1 DEF KidOk, KidFields
  <2>3. Budget!Interrupted[k] = IF live THEN d ELSE Budget!Unshared[k]
    BY DEF Budget!Interrupted
  <2> HIDE DEF e, d
  <2>4. kids'[k] = IF crash /\ live THEN d ELSE IF kids[k].state = "shared" THEN e ELSE kids[k]
    BY <1>1, <2>1, <2>3
  <2>5. /\ k \in loose' <=> (k \in loose \/ k \in late \/ (~crash /\ live))
        /\ k \notin late'
    BY <1>1
  <2>6. kids[k].run \in Nat /\ kids[k].run <= itemRun /\ kids'[k].run \in Nat
        /\ kids'[k].run <= itemRun /\ kids'[k].run <= itemRun'
    <3>1. kids[k].run \in Nat /\ kids[k].run <= itemRun
      BY <2>1 DEF KidOk
    <3>2. kids'[k].run = kids[k].run \/ kids'[k].run = 0
      BY <2>1, <2>2, <2>4
    <3> QED BY <1>1, <1>2, <3>1, <3>2
  <2>7. /\ kids[k].share \in Nat /\ kids[k].used \in Nat /\ kids[k].used <= kids[k].share
        /\ kids[k].usage = IF kids[k].state = "completed" THEN kids[k].used ELSE 0
        /\ kids[k].state \in Unclaimed => k \notin loose
        /\ k \in late => kids[k].state = "completed"
        /\ kids[k].state \in KidStates /\ DOMAIN kids[k] = KidFields
    BY <2>1 DEF KidOk
  <2>8. CASE live
    <3>1. kids[k].state \notin Unclaimed /\ kids[k].state # "completed" /\ kids[k].usage = 0
          /\ kids[k].state # "shared"
      BY <2>7, <2>8 DEF Budget!Live, Unclaimed
    <3>2. /\ kids'[k].usage = 0 /\ kids'[k].state \notin Unclaimed /\ kids'[k].state # "completed"
          /\ kids'[k].state \in KidStates /\ kids'[k].share = kids[k].share
          /\ kids'[k].used = kids[k].used /\ DOMAIN kids'[k] = KidFields
          /\ kids'[k].state \in Budget!Live \cup {"shared"} => k \in loose'
      BY <2>2, <2>4, <2>5, <2>7, <2>8, <3>1 DEF KidStates, Unclaimed, Budget!Live
    <3>3. KidOk(k)'
      BY <2>5, <2>6, <2>7, <3>2 DEF KidOk, Budget!Live
    <3>4. Owed'[k] = 0 /\ Unsaved'[k] = 0 /\ Booked'[k] = 0 /\ Booked[k] = 0
      BY <3>1, <3>2 DEF Owed, Unsaved, Booked
    <3>5. Held'[k] = 0
      BY <3>2 DEF Held, Budget!Live
    <3>6. Held[k] \in Nat
      BY SumsAre DEF BudgetInv
    <3> QED BY <2>6, <3>3, <3>4, <3>5, <3>6
  <2>9. CASE kids[k].state = "shared"
    <3>1. kids'[k] = e /\ k \notin loose'
      BY <2>4, <2>5, <2>7, <2>9 DEF Budget!Live, Unclaimed
    <3>2. KidOk(k)'
      BY <1>1, <2>1, <2>5, <2>6, <3>1 DEF KidOk, KidStates, Unclaimed, Budget!Live
    <3>3. kids[k].usage = 0
      BY <2>7, <2>9
    <3>4. Owed'[k] = 0 /\ Unsaved'[k] = 0 /\ Booked'[k] = 0 /\ Booked[k] = 0
      BY <2>1, <3>1, <3>3 DEF Owed, Unsaved, Booked
    <3>5. Held'[k] = 0
      BY <2>1, <3>1 DEF Held, Budget!Live
    <3>6. Held[k] \in Nat
      BY SumsAre DEF BudgetInv
    <3> QED BY <2>6, <3>2, <3>4, <3>5, <3>6
  <2>10. CASE ~live /\ kids[k].state # "shared"
    <3>1. kids'[k] = kids[k] /\ (k \in loose' <=> k \in loose \cup late)
      BY <2>4, <2>5, <2>10
    <3>2. KidOk(k)'
      BY <2>1, <2>5, <2>6, <2>7, <2>10, <3>1 DEF KidOk, Unclaimed, Budget!Live
    <3>3. k \notin Budget!Mine(itemRun)'
      BY <1>1, <1>2, <2>6 DEF Budget!Mine
    <3>4. Owed'[k] = 0 /\ Unsaved'[k] = 0
      BY <2>5, <3>3 DEF Owed, Unsaved
    <3>5. Booked'[k] = Booked[k]
      BY <2>5, <3>1 DEF Booked
    <3>6. Held'[k] <= Held[k]
      <4>1. Held[k] = IF k \in loose THEN 0 ELSE kids[k].usage
        BY <2>10 DEF Held
      <4>2. Held'[k] = IF k \in loose \cup late THEN 0 ELSE kids[k].usage
        BY <2>10, <3>1 DEF Held, Budget!Live
      <4>3. kids[k].usage \in Nat
        BY <2>7
      <4> QED BY <4>1, <4>2, <4>3
    <3>7. Booked[k] \in Nat /\ \A n \in Nat : n <= n
      BY SumsAre DEF BudgetInv
    <3> QED BY <2>6, <3>2, <3>4, <3>5, <3>6, <3>7
  <2> QED BY <2>8, <2>9, <2>10
<1>5. KidTypes'
  <2>1. itemRun' \in Nat /\ DOMAIN kids' = Kid
    BY <1>1, <1>2 DEF Budget!Unshared, Budget!Interrupted
  <2> QED BY <1>4, <2>1 DEF KidTypes
<1>6. GovTypes'
  BY <1>1, <1>3 DEF BudgetInv, GovTypes
<1>7. Budget!NoEndlessLoop'
  BY <1>1 DEF BudgetInv, Budget!NoEndlessLoop
<1>8. SumOver(Owed', Kid) = 0 /\ SumOver(Unsaved', Kid) = 0
  <2>1. Cardinality(Kid) \in Nat
    BY FS_CardinalityType
  <2>2. \A f : (\A k \in Kid : f[k] = 0) => SumOver(f, Kid) = 0 * Cardinality(Kid)
    BY SumOfShares
  <2> QED BY <1>4, <2>1, <2>2
<1>9. Len(made') + SumOver(Booked', Kid) <= gov'.calls
  <2>1. \A k \in Kid : Booked[k] \in Int /\ Booked'[k] \in Int /\ Booked'[k] <= Booked[k]
    <3>1. \A k \in Kid : Booked[k] \in Nat
      BY SumsAre DEF BudgetInv
    <3>2. \A k \in Kid : kids'[k].usage \in Nat
      BY <1>5 DEF KidTypes, KidOk
    <3>3. \A k \in Kid : Booked'[k] \in Nat
      BY <3>2 DEF Booked
    <3> QED BY <1>4, <3>1, <3>3
  <2> DEFINE x == SumOver(Booked, Kid)
             y == SumOver(Booked', Kid)
             n == Len(made)
  <2>2. x \in Int /\ y \in Int /\ y <= x
    BY <2>1, SumOrder
  <2>3. n \in Nat /\ n + x <= gov.calls
    BY Appended DEF BudgetInv, GovTypes, Ledger
  <2>4. Len(made') = n
    BY <1>1
  <2> HIDE DEF x, y, n
  <2>5. n + y <= gov.calls
    BY <1>2, <2>2, <2>3
  <2> QED BY <1>3, <2>4, <2>5 DEF y
<1>10. Len(made') + SumOver(Held', Kid) <= CallLimit
  BY <1>1, <1>4, <1>5, HeldShrinks
<1>11. Ledger'
  <2>1. gov'.child + SumOver(Unsaved', Kid) = SumOver(Owed', Kid)
    BY <1>3, <1>8
  <2> QED BY <1>9, <1>10, <2>1 DEF Ledger
<1> QED BY <1>5, <1>6, <1>7, <1>11 DEF BudgetInv

LEMMA BudgetStep ==
  ASSUME BudgetInv, [Budget!Next]_(Budget!vars)
  PROVE  BudgetInv'
<1>0. /\ IsFiniteSet(Kid) /\ CallLimit \in Nat /\ ConsecutiveRepeats \in Nat \ {0}
  BY SessionAssumption DEF SessionAssumption
<1>1. ASSUME NEW e \in BOOLEAN, Budget!BeforeModel(e) PROVE BudgetInv'
  BY <1>0, <1>1, BeforeModelKeeps
<1>2. CASE Budget!Round
  BY <1>0, <1>2, RoundKeeps
<1>3. ASSUME NEW c, NEW s \in BOOLEAN, Budget!BeforeTool(c, s) PROVE BudgetInv'
  BY <1>0, <1>3, BeforeToolKeeps
<1>4. ASSUME NEW i, NEW ok, Budget!FinishTool(i, ok) PROVE BudgetInv'
  BY <1>0, <1>4, FinishToolKeeps
<1>5. ASSUME NEW S \in SUBSET Kid, Budget!Delegate(S) PROVE BudgetInv'
  BY <1>0, <1>5, DelegateKeeps
<1>6. CASE Budget!DelegateFails
  BY <1>0, <1>6, DelegateFailsKeeps
<1>7. ASSUME NEW k \in Kid, Budget!ClaimShared(k) PROVE BudgetInv'
  BY <1>0, <1>7, ClaimSharedKeeps
<1>8. ASSUME NEW k \in Kid, Budget!PlanTask(k) PROVE BudgetInv'
  BY <1>0, <1>8, PlanTaskKeeps
<1>9. ASSUME NEW k \in Kid, Budget!ClaimTask(k) PROVE BudgetInv'
  BY <1>0, <1>9, ClaimTaskKeeps
<1>10. ASSUME NEW k \in Kid, Budget!StartAttempt(k) PROVE BudgetInv'
  BY <1>0, <1>10, StartAttemptKeeps
<1>11. ASSUME NEW k \in Kid, Budget!Reopen(k) PROVE BudgetInv'
  BY <1>0, <1>11, ReopenKeeps
<1>12. ASSUME NEW k \in Kid, Budget!KidCalls(k) PROVE BudgetInv'
  BY <1>0, <1>12, KidCallsKeeps
<1>13. ASSUME NEW k \in Kid, NEW s \in {"completed", "failed", "suspended"},
              Budget!FinishAttempt(k, s)
       PROVE  BudgetInv'
  BY <1>0, <1>13, FinishAttemptKeeps
<1>14. ASSUME NEW crash \in BOOLEAN, Budget!Continue(crash) PROVE BudgetInv'
  BY <1>0, <1>14, ContinueKeeps
<1>15. CASE UNCHANGED Budget!vars
  <2>1. UNCHANGED <<gov, saved, itemRun, kids, made, loose, late>>
    BY <1>15 DEF Budget!vars
  <2>2. GovTypes' /\ Budget!NoEndlessLoop'
    BY <2>1, SameGov
  <2>3. KidTypes'
    <3>1. \A k \in Kid : KidOk(k)'
      BY <2>1 DEF BudgetInv, KidTypes, KidOk, Budget!Live
    <3> QED BY <2>1, <3>1 DEF BudgetInv, KidTypes
  <2>4. Budget!Mine(itemRun)' = Budget!Mine(itemRun)
    BY <2>1 DEF Budget!Mine
  <2>5. Owed' = Owed /\ Unsaved' = Unsaved /\ Booked' = Booked /\ Held' = Held
    BY <2>1, <2>4 DEF Owed, Unsaved, Booked, Held, Budget!Live
  <2>6. Ledger'
    BY <2>1, <2>5 DEF BudgetInv, Ledger
  <2> QED BY <2>2, <2>3, <2>6 DEF BudgetInv
<1> QED BY <1>1, <1>2, <1>3, <1>4, <1>5, <1>6, <1>7, <1>8, <1>9, <1>10, <1>11, <1>12,
           <1>13, <1>14, <1>15
        DEF Budget!Next

\* Nothing is called and nothing is promised.
LEMMA BudgetStart ==
  ASSUME Budget!Init
  PROVE  BudgetInv
<1>0. /\ IsFiniteSet(Kid) /\ CallLimit \in Nat /\ ConsecutiveRepeats \in Nat \ {0}
  BY SessionAssumption DEF SessionAssumption
<1>1. /\ gov = Budget!Fresh /\ saved = gov /\ itemRun = 1 /\ made = <<>>
      /\ kids = [k \in Kid |-> Budget!NoKid] /\ loose = {} /\ late = {}
  BY DEF Budget!Init
<1>2. KidTypes
  <2>1. \A k \in Kid : KidOk(k)
    BY <1>1 DEF KidOk, Budget!NoKid, KidFields, KidStates, Unclaimed, Budget!Live
  <2> QED BY <1>1, <2>1 DEF KidTypes
<1>3. GovTypes
  <2>1. <<>> \in Seq({}) /\ DOMAIN <<>> = {}
    OBVIOUS
  <2>2. IsSequence(<<>>)
    BY <2>1 DEF IsSequence
  <2>3. DOMAIN gov = GovFields /\ gov.calls = 0 /\ gov.child = 0 /\ gov.history = <<>>
    BY <1>1 DEF Budget!Fresh, GovFields
  <2> QED BY <1>1, <2>1, <2>2, <2>3 DEF GovTypes
<1>4. Ledger
  <2>1. \A k \in Kid : Owed[k] = 0 /\ Unsaved[k] = 0 /\ Booked[k] = 0 /\ Held[k] = 0
    BY <1>1 DEF Owed, Unsaved, Booked, Held, Budget!NoKid, Budget!Live
  <2>2. Cardinality(Kid) \in Nat
    BY <1>0, FS_CardinalityType
  <2>3. /\ SumOver(Owed, Kid) = 0 /\ SumOver(Unsaved, Kid) = 0
        /\ SumOver(Booked, Kid) = 0 /\ SumOver(Held, Kid) = 0
    <3>1. \A f : (\A k \in Kid : f[k] = 0) => SumOver(f, Kid) = 0 * Cardinality(Kid)
      BY <1>0, SumOfShares
    <3> QED BY <2>1, <2>2, <3>1
  <2>4. gov.calls = 0 /\ gov.child = 0 /\ Len(made) = 0
    BY <1>1 DEF Budget!Fresh
  <2> QED BY <1>0, <2>3, <2>4 DEF Ledger
<1>5. Budget!NoEndlessLoop
  BY <1>0, <1>1 DEF Budget!NoEndlessLoop
<1> QED BY <1>2, <1>3, <1>4, <1>5 DEF BudgetInv

LEMMA BudgetKept ==
  ASSUME BudgetInv
  PROVE  Budget!WithinLimit /\ Budget!NoEndlessLoop
<1>0. IsFiniteSet(Kid) /\ CallLimit \in Nat
  BY SessionAssumption DEF SessionAssumption
<1> DEFINE u == [k \in Kid |-> IF k \in Budget!Counted THEN kids[k].used ELSE 0]
<1> SUFFICES Len(made) + Budget!SumFunction(u) <= CallLimit
  BY DEF BudgetInv, Budget!WithinLimit
<1>1. Budget!SumFunction(u) = SumOver(u, Kid)
  <2>1. DOMAIN u = Kid
    OBVIOUS
  <2> HIDE DEF u
  <2> QED BY <2>1 DEF Budget!SumFunction, SumOver
<1>2. \A k \in Kid : u[k] \in Int /\ Held[k] \in Int /\ u[k] <= Held[k]
  <2> SUFFICES ASSUME NEW k \in Kid PROVE u[k] \in Int /\ Held[k] \in Int /\ u[k] <= Held[k]
    OBVIOUS
  <2>1. /\ kids[k].share \in Nat /\ kids[k].used \in Nat /\ kids[k].used <= kids[k].share
        /\ kids[k].usage = IF kids[k].state = "completed" THEN kids[k].used ELSE 0
    BY DEF BudgetInv, KidTypes, KidOk
  <2>2. /\ k \in Budget!Counted =>
             k \notin loose /\ (kids[k].state \in Budget!Live \/ kids[k].state = "completed")
        /\ kids[k].state = "completed" => kids[k].state \notin Budget!Live
    BY DEF Budget!Counted, Budget!Live
  <2>3. u[k] = IF k \in Budget!Counted THEN kids[k].used ELSE 0
    OBVIOUS
  <2>4. /\ Held[k] = IF k \in loose THEN 0
                     ELSE IF kids[k].state \in Budget!Live \cup {"shared"}
                          THEN kids[k].share ELSE kids[k].usage
        /\ Held[k] \in Nat
    BY SumsAre, <1>0 DEF Held, BudgetInv
  <2> HIDE DEF u
  <2> QED BY <2>1, <2>2, <2>3, <2>4
<1> HIDE DEF u
<1>3. SumOver(u, Kid) \in Int /\ SumOver(Held, Kid) \in Int /\ SumOver(u, Kid) <= SumOver(Held, Kid)
  BY <1>0, <1>2, SumOrder
<1>4. Len(made) + SumOver(Held, Kid) <= CallLimit /\ Len(made) \in Nat
  BY Appended DEF BudgetInv, Ledger, GovTypes
<1> DEFINE n == Len(made)
           a == SumOver(u, Kid)
           b == SumOver(Held, Kid)
<1>5. n \in Int /\ a \in Int /\ b \in Int /\ a <= b /\ n + b <= CallLimit
  BY <1>3, <1>4
<1> HIDE DEF n, a, b
<1>6. n + a <= CallLimit
  BY <1>0, <1>5
<1> QED BY <1>1, <1>6 DEF n, a

LEMMA BudgetSafe == Budget!Spec => [](Budget!WithinLimit /\ Budget!NoEndlessLoop)
<1>1. Budget!Init => BudgetInv
  BY BudgetStart
<1>2. BudgetInv /\ [Budget!Next]_(Budget!vars) => BudgetInv'
  BY BudgetStep
<1>3. BudgetInv => Budget!WithinLimit /\ Budget!NoEndlessLoop
  BY BudgetKept
<1> QED BY <1>1, <1>2, <1>3, PTL DEF Budget!Spec

\* A work item, and the children that its budget covers and that are alive or
\* have completed, never make more tool calls than its limit, over all its runs,
\* and no call goes on being repeated (_reserve_parent_budget, parent_budget,
\* before_tool, finish_attempt, GovernanceRepository.start).
THEOREM BudgetsHold == Spec => []BudgetHolds
<1>1. Init => Budget!Init \/ focus # "budget"
  BY DEF Init
<1>2. [Next]_vars => [Budget!Next]_(Budget!vars)
  BY DEF Next, vars, BudgetVars, Budget!vars
<1>3. focus # "budget" /\ [Next]_vars => (focus # "budget")'
  BY DEF Next, vars
<1>4. (Budget!WithinLimit /\ Budget!NoEndlessLoop) \/ focus # "budget" => BudgetHolds
  BY DEF BudgetHolds
<1> QED BY <1>1, <1>2, <1>3, BudgetSafe, <1>4, PTL DEF Spec, Budget!Spec

-----------------------------------------------------------------------------
(***************************************************************************)
(* The context of a run.  What a run covers changes only by a unit that is *)
(* added, grows or takes the place of others it covers; a summary made     *)
(* under the current revision of the memory covers the turns up to its     *)
(* last that are not excluded (ActiveIsExact), and a run that builds on it *)
(* under a revision it has read excludes the same turns (RunReads).        *)
(***************************************************************************)

RunFields == {"pc", "excl", "tag", "conv", "rounds", "raced", "lost"}
RecordFields == {"covers", "size", "last", "rev", "profile", "policy", "quality", "raced"}
TextUnit == [covers : SUBSET Int, size : Int, kind : {"turn", "run", "summary"}, big : Int]

\* The turns up to one that a run may know of, and the rounds it has made.
TurnsTo(n, hidden) == (1 .. n) \ hidden
Made(n) == {-i : i \in 1 .. n}

\* The run: a conversation ends with a unit that is no summary.
RunTypes ==
  /\ DOMAIN run = RunFields /\ run.rounds \in Nat /\ run.tag \in Nat
  /\ run.pc \in {"idle", "history", "build"} => run.rounds = 0 /\ ~run.lost
  /\ run.pc \in {"run", "check", "paused"} =>
       /\ run.conv \in Seq(TextUnit) /\ Len(run.conv) >= 1
       /\ run.conv[Len(run.conv)].kind # "summary"

\* The summary that a later run may use again.
ActiveTypes ==
  /\ DOMAIN active = RecordFields /\ active.covers \in SUBSET Int /\ active.size \in Int
  /\ active.last \in Nat /\ active.last <= turns /\ active.rev \in Nat
  /\ active.policy = "normal" /\ ~active.raced => active.rev <= rev

\* A revision of the memory tells which turns are excluded: what a summary
\* covers, as long as the revision is the one it was made under, ...
ActiveIsExact ==
  active.policy = "normal" /\ ~active.raced /\ active.rev = rev =>
    active.covers = TurnsTo(active.last, stale)

\* ... and what a run has read, which may be an older revision.
RunReads ==
  run.pc = "build" /\ ~run.raced =>
    /\ run.tag <= rev /\ (run.tag = rev => run.excl = stale)
    /\ active.policy = "normal" /\ ~active.raced /\ active.rev = run.tag =>
         active.covers = TurnsTo(active.last, run.excl)

\* What a run is told, whether it goes on, waits for its next request or pauses.
RunIsTold ==
  run.pc \in {"run", "check", "paused"} /\ ~run.raced /\ ~run.lost =>
    Context!CoversOf(run.conv) = TurnsTo(turns, run.excl) \cup Made(run.rounds)

ContextInv ==
  /\ turns \in Nat /\ rev \in Nat /\ rev >= 1
  /\ RunTypes /\ ActiveTypes /\ ActiveIsExact /\ RunReads /\ RunIsTold
  /\ Context!FitsBudget

\* What holds of 0 and goes up by one holds up to N.
LEMMA UpTo ==
  ASSUME NEW N \in Nat, NEW G, 0 \in G, \A n \in 1 .. N : n - 1 \in G => n \in G
  PROVE  \A n \in 0 .. N : n \in G
<1> DEFINE bad == {n \in 0 .. N : n \notin G}
           R == OpToRel(<, Nat)
<1> SUFFICES ASSUME bad # {} PROVE FALSE
  OBVIOUS
<1>1. bad \subseteq Nat
  OBVIOUS
<1>2. PICK n \in bad : \A m \in bad : ~(<<m, n>> \in R)
  BY <1>1, WFMin, NatLessThanWellFounded
<1>3. n \in 1 .. N
  OBVIOUS
<1>4. <<n - 1, n>> \in R
  BY <1>3 DEF OpToRel
<1>5. n - 1 \in 0 .. N /\ n - 1 \notin bad
  <2>1. n - 1 \in 0 .. N
    BY <1>3
  <2>2. n - 1 \notin bad
    BY <1>2, <1>4
  <2> QED BY <2>1, <2>2
<1> QED BY <1>3, <1>5

\* The units of a set, in order, up to each position of a conversation.
PickStep(s, T, h, n) ==
  IF n = 0 THEN <<>> ELSE IF s[n] \in T THEN Append(h[n - 1], s[n]) ELSE h[n - 1]
Picked(s, T) == CHOOSE h : h = [n \in 0 .. Len(s) |-> PickStep(s, T, h, n)]

LEMMA PickedExists ==
  ASSUME NEW s, NEW N \in Nat, Len(s) = N, NEW T
  PROVE  /\ Picked(s, T)[0] = <<>>
         /\ \A n \in 1 .. N : Picked(s, T)[n] = IF s[n] \in T THEN Append(Picked(s, T)[n - 1], s[n])
                                                ELSE Picked(s, T)[n - 1]
<1> DEFINE Defined(n) == \E h : h = [m \in 0 .. n |-> PickStep(s, T, h, m)]
           G == {n \in 0 .. N : Defined(n)}
<1>1. 0 \in G
  <2> DEFINE h == [m \in 0 .. 0 |-> <<>>]
  <2>1. \A m \in 0 .. 0 : m = 0
    OBVIOUS
  <2>2. h = [m \in 0 .. 0 |-> PickStep(s, T, h, m)]
    BY <2>1 DEF PickStep
  <2>3. Defined(0)
    BY <2>2
  <2> QED BY <2>3
<1>2. ASSUME NEW n \in 1 .. N, n - 1 \in G PROVE n \in G
  <2>1. PICK h : h = [m \in 0 .. (n - 1) |-> PickStep(s, T, h, m)]
    BY <1>2
  <2> DEFINE k == [m \in 0 .. n |-> IF m = n THEN PickStep(s, T, h, n) ELSE h[m]]
  <2>2. ASSUME NEW m \in 0 .. n PROVE k[m] = PickStep(s, T, k, m)
    <3>1. m = 0 \/ k[m - 1] = h[m - 1]
      OBVIOUS
    <3>2. PickStep(s, T, k, m) = PickStep(s, T, h, m)
      BY <3>1 DEF PickStep
    <3>3. m = n \/ h[m] = PickStep(s, T, h, m)
      <4>1. m = n \/ m \in 0 .. (n - 1)
        OBVIOUS
      <4>2. \A j \in 0 .. (n - 1) : h[j] = PickStep(s, T, h, j)
        BY <2>1
      <4> QED BY <4>1, <4>2
    <3>4. k[m] = IF m = n THEN PickStep(s, T, h, n) ELSE h[m]
      OBVIOUS
    <3> HIDE DEF k
    <3> QED BY <3>2, <3>3, <3>4
  <2>3. k = [m \in 0 .. n |-> k[m]]
    OBVIOUS
  <2> HIDE DEF k
  <2>4. k = [m \in 0 .. n |-> PickStep(s, T, k, m)]
    BY <2>2, <2>3
  <2>5. Defined(n)
    BY <2>4
  <2> QED BY <2>5
<1>3. Defined(N)
  <2> HIDE DEF G
  <2>1. N \in G
    BY <1>1, <1>2, UpTo
  <2> QED BY <2>1 DEF G
<1>4. Picked(s, T) = [n \in 0 .. N |-> PickStep(s, T, Picked(s, T), n)]
  BY <1>3 DEF Picked
<1> DEFINE h == Picked(s, T)
<1> HIDE DEF h
<1>5. h = [n \in 0 .. N |-> PickStep(s, T, h, n)]
  BY <1>4 DEF h
<1>6. \A n \in 0 .. N : h[n] = PickStep(s, T, h, n)
  BY <1>5
<1>7. h[0] = <<>> /\ \A n \in 1 .. N : h[n] = IF s[n] \in T THEN Append(h[n - 1], s[n]) ELSE h[n - 1]
  <2>1. 0 \in 0 .. N /\ \A n \in 1 .. N : n \in 0 .. N /\ n # 0
    OBVIOUS
  <2> QED BY <1>6, <2>1 DEF PickStep
<1> QED BY <1>7 DEF h

\* A sequence in the order of L; a selection of it by T.
Rising(s, L) == \A i, j \in 1 .. Len(s) : i < j => <<s[i], s[j]>> \in L
Selection(p, s, T, L, W) ==
  /\ p \in Seq(W)
  /\ \A a \in DOMAIN p : p[a] \in T /\ \E i \in 1 .. Len(s) : p[a] = s[i]
  /\ \A i \in 1 .. Len(s) : s[i] \in T => \E a \in DOMAIN p : p[a] = s[i]
  /\ \A a, b \in DOMAIN p : a < b => <<p[a], p[b]>> \in L
  /\ Len(s) >= 1 /\ s[Len(s)] \in T => Len(p) >= 1 /\ p[Len(p)] = s[Len(s)]

\* They are those units, in their order; the last one is the last if it is there.
LEMMA PickedAre ==
  ASSUME NEW W, NEW s \in Seq(W), NEW T, NEW L, Rising(s, L)
  PROVE  Selection(Picked(s, T)[Len(s)], s, T, L, W)
<1> DEFINE N == Len(s)
           h == Picked(s, T)
           Good(n) ==
             /\ h[n] \in Seq(W)
             /\ \A a \in DOMAIN h[n] : h[n][a] \in T /\ \E i \in 1 .. n : h[n][a] = s[i]
             /\ \A i \in 1 .. n : s[i] \in T => \E a \in DOMAIN h[n] : h[n][a] = s[i]
             /\ \A a, b \in DOMAIN h[n] : a < b => <<h[n][a], h[n][b]>> \in L
           G == {n \in 0 .. N : Good(n)}
<1>0. N \in Nat /\ \A i \in 1 .. N : s[i] \in W
  BY ElementOfSeq, LenProperties
<1>h. h[0] = <<>> /\ \A n \in 1 .. N : h[n] = IF s[n] \in T THEN Append(h[n - 1], s[n]) ELSE h[n - 1]
  BY <1>0, PickedExists
<1>l. \A i, j \in 1 .. N : i < j => <<s[i], s[j]>> \in L
  BY DEF Rising
<1> HIDE DEF N, h
<1>1. 0 \in G
  <2>1. <<>> \in Seq(W) /\ DOMAIN <<>> = {}
    OBVIOUS
  <2>2. Good(0)
    BY <1>h, <2>1
  <2> QED BY <1>0, <2>2
<1>2. ASSUME NEW n \in 1 .. N, n - 1 \in G PROVE n \in G
  <2>1. Good(n - 1) /\ n \in 0 .. N /\ n \in Nat /\ n - 1 \in Nat
    BY <1>0, <1>2
  <2>2. CASE s[n] \notin T
    <3>1. h[n] = h[n - 1]
      BY <1>h, <2>2
    <3>2. \A i \in 1 .. n : i = n \/ i \in 1 .. (n - 1)
      OBVIOUS
    <3>3. \A i \in 1 .. (n - 1) : i \in 1 .. n
      OBVIOUS
    <3>4. Good(n)
      BY <2>1, <2>2, <3>1, <3>2, <3>3
    <3> QED BY <2>1, <3>4
  <2>3. CASE s[n] \in T
    <3> DEFINE o == h[n - 1]
               p == h[n]
               z == Len(o)
    <3>1. /\ o \in Seq(W) /\ z \in Nat /\ DOMAIN o = 1 .. z
          /\ \A a \in DOMAIN o : o[a] \in T /\ \E i \in 1 .. (n - 1) : o[a] = s[i]
          /\ \A i \in 1 .. (n - 1) : s[i] \in T => \E a \in DOMAIN o : o[a] = s[i]
          /\ \A a, b \in DOMAIN o : a < b => <<o[a], o[b]>> \in L
      BY <2>1, LenProperties
    <3>2. p = Append(o, s[n]) /\ s[n] \in W
      BY <1>0, <1>h, <2>3
    <3> HIDE DEF o, z
    <3>3. /\ p \in Seq(W) /\ DOMAIN p = 1 .. (z + 1) /\ p[z + 1] = s[n]
          /\ \A a \in 1 .. z : p[a] = o[a]
      <4> HIDE DEF p
      <4>1. /\ p \in Seq(W) /\ Len(p) = z + 1 /\ p[z + 1] = s[n]
            /\ \A a \in 1 .. z : p[a] = o[a]
        BY <3>1, <3>2, AppendProperties DEF z
      <4> QED BY <4>1, LenProperties
    <3> HIDE DEF p
    <3>4. \A a \in DOMAIN p : p[a] \in T /\ \E i \in 1 .. n : p[a] = s[i]
      <4> SUFFICES ASSUME NEW a \in DOMAIN p
                   PROVE  p[a] \in T /\ \E i \in 1 .. n : p[a] = s[i]
        OBVIOUS
      <4>1. CASE a = z + 1
        BY <2>3, <3>3, <4>1
      <4>2. CASE a # z + 1
        <5>1. a \in DOMAIN o /\ p[a] = o[a]
          BY <3>1, <3>3, <4>2
        <5>2. \A i \in 1 .. (n - 1) : i \in 1 .. n
          OBVIOUS
        <5> QED BY <3>1, <5>1, <5>2
      <4> QED BY <4>1, <4>2
    <3>5. \A i \in 1 .. n : s[i] \in T => \E a \in DOMAIN p : p[a] = s[i]
      <4> SUFFICES ASSUME NEW i \in 1 .. n, s[i] \in T PROVE \E a \in DOMAIN p : p[a] = s[i]
        OBVIOUS
      <4>1. CASE i = n
        <5>1. z + 1 \in DOMAIN p
          BY <3>1, <3>3
        <5> QED BY <3>3, <4>1, <5>1
      <4>2. CASE i # n
        <5>1. i \in 1 .. (n - 1)
          BY <4>2
        <5>2. PICK a \in DOMAIN o : o[a] = s[i]
          BY <3>1, <5>1
        <5>3. a \in DOMAIN p /\ p[a] = o[a]
          BY <3>1, <3>3
        <5> QED BY <5>2, <5>3
      <4> QED BY <4>1, <4>2
    <3>6. \A a, b \in DOMAIN p : a < b => <<p[a], p[b]>> \in L
      <4> SUFFICES ASSUME NEW a \in DOMAIN p, NEW b \in DOMAIN p, a < b
                   PROVE  <<p[a], p[b]>> \in L
        OBVIOUS
      <4>1. a \in DOMAIN o /\ p[a] = o[a]
        BY <3>1, <3>3
      <4>2. CASE b = z + 1
        <5>1. PICK i \in 1 .. (n - 1) : o[a] = s[i]
          BY <3>1, <4>1
        <5>2. i \in 1 .. N /\ n \in 1 .. N /\ i < n
          BY <1>0
        <5> QED BY <1>l, <3>3, <4>1, <4>2, <5>1, <5>2
      <4>3. CASE b # z + 1
        <5>1. b \in DOMAIN o /\ p[b] = o[b]
          BY <3>1, <3>3, <4>3
        <5> QED BY <3>1, <4>1, <5>1
      <4> QED BY <4>2, <4>3
    <3>7. Good(n)
      BY <3>3, <3>4, <3>5, <3>6 DEF p
    <3> QED BY <2>1, <3>7
  <2> QED BY <2>2, <2>3
<1>u. \A n \in 0 .. N : n \in G
  <2> HIDE DEF G
  <2>1. \A n \in 1 .. N : n - 1 \in G => n \in G
    BY <1>2
  <2> QED BY <1>0, <1>1, <2>1, UpTo
<1>3. Good(N)
  <2> HIDE DEF G
  <2>1. N \in G
    BY <1>0, <1>u
  <2> QED BY <2>1 DEF G
<1>4. N >= 1 /\ s[N] \in T => Len(h[N]) >= 1 /\ h[N][Len(h[N])] = s[N]
  <2> SUFFICES ASSUME N >= 1, s[N] \in T PROVE Len(h[N]) >= 1 /\ h[N][Len(h[N])] = s[N]
    OBVIOUS
  <2>1. N \in 1 .. N /\ N - 1 \in 0 .. N
    BY <1>0
  <2>2. N - 1 \in G
    BY <1>u, <2>1
  <2>3. h[N] = Append(h[N - 1], s[N]) /\ h[N - 1] \in Seq(W) /\ s[N] \in W
    BY <1>0, <1>h, <2>1, <2>2
  <2> DEFINE o == h[N - 1]
  <2>4. o \in Seq(W) /\ h[N] = Append(o, s[N])
    BY <2>3
  <2> HIDE DEF o
  <2>5. Len(o) \in Nat /\ Len(h[N]) = Len(o) + 1 /\ h[N][Len(o) + 1] = s[N]
    BY <2>3, <2>4, AppendProperties, LenProperties
  <2> QED BY <2>5
<1> QED BY <1>3, <1>4 DEF N, h, Selection

\* A conversation made of two, of one and a unit, of one unit.
LEMMA UnitsJoin ==
  ASSUME NEW s \in Seq(TextUnit), NEW t \in Seq(TextUnit)
  PROVE  /\ s \o t \in Seq(TextUnit)
         /\ Context!CoversOf(s \o t) = Context!CoversOf(s) \cup Context!CoversOf(t)
         /\ Len(t) >= 1 => Len(s \o t) >= 1 /\ (s \o t)[Len(s \o t)] = t[Len(t)]
<1> DEFINE m == Len(s)
           n == Len(t)
           c == s \o t
<1>1. /\ m \in Nat /\ n \in Nat /\ DOMAIN s = 1 .. m /\ DOMAIN t = 1 .. n
  BY LenProperties
<1>2. /\ c \in Seq(TextUnit) /\ Len(c) = m + n
      /\ \A i \in 1 .. m + n : c[i] = IF i <= m THEN s[i] ELSE t[i - m]
  BY ConcatProperties
<1> HIDE DEF c
<1>3. DOMAIN c = 1 .. m + n
  BY <1>2, LenProperties
<1> HIDE DEF m, n
<1>4. Context!CoversOf(c) = Context!CoversOf(s) \cup Context!CoversOf(t)
  <2>1. \A x \in Context!CoversOf(c) : x \in Context!CoversOf(s) \cup Context!CoversOf(t)
    <3> SUFFICES ASSUME NEW x \in Context!CoversOf(c)
                 PROVE  x \in Context!CoversOf(s) \cup Context!CoversOf(t)
      OBVIOUS
    <3>1. PICK i \in 1 .. m + n : x \in c[i].covers
      BY <1>3 DEF Context!CoversOf
    <3>2. CASE i <= m
      <4>1. i \in DOMAIN s /\ c[i] = s[i]
        BY <1>1, <1>2, <3>2
      <4> QED BY <3>1, <4>1 DEF Context!CoversOf
    <3>3. CASE ~(i <= m)
      <4>1. i - m \in DOMAIN t /\ c[i] = t[i - m]
        BY <1>1, <1>2, <3>3
      <4> QED BY <3>1, <4>1 DEF Context!CoversOf
    <3> QED BY <3>2, <3>3
  <2>2. \A x \in Context!CoversOf(s) : x \in Context!CoversOf(c)
    <3> SUFFICES ASSUME NEW i \in DOMAIN s, NEW x \in s[i].covers
                 PROVE  x \in Context!CoversOf(c)
      BY DEF Context!CoversOf
    <3>1. i \in DOMAIN c /\ c[i] = s[i]
      BY <1>1, <1>2, <1>3
    <3> QED BY <3>1 DEF Context!CoversOf
  <2>3. \A x \in Context!CoversOf(t) : x \in Context!CoversOf(c)
    <3> SUFFICES ASSUME NEW i \in DOMAIN t, NEW x \in t[i].covers
                 PROVE  x \in Context!CoversOf(c)
      BY DEF Context!CoversOf
    <3>1. i \in 1 .. n /\ i + m \in DOMAIN c /\ ~(i + m <= m) /\ (i + m) - m = i
      BY <1>1, <1>3
    <3>2. c[i + m] = t[i]
      BY <1>2, <1>3, <3>1
    <3> QED BY <3>1, <3>2 DEF Context!CoversOf
  <2> QED BY <2>1, <2>2, <2>3
<1>5. n >= 1 => Len(c) >= 1 /\ c[Len(c)] = t[n]
  <2> SUFFICES ASSUME n >= 1 PROVE Len(c) >= 1 /\ c[Len(c)] = t[n]
    OBVIOUS
  <2>1. m + n \in 1 .. m + n /\ ~(m + n <= m) /\ (m + n) - m = n /\ m + n >= 1
    BY <1>1
  <2> QED BY <1>2, <2>1
<1> QED BY <1>2, <1>4, <1>5 DEF c, n

LEMMA OneUnit ==
  ASSUME NEW u \in TextUnit
  PROVE  /\ <<u>> \in Seq(TextUnit) /\ Len(<<u>>) = 1 /\ <<u>>[1] = u
         /\ Context!CoversOf(<<u>>) = u.covers
<1>1. <<u>> \in Seq(TextUnit) /\ Len(<<u>>) = 1 /\ <<u>>[1] = u /\ DOMAIN <<u>> = {1}
  OBVIOUS
<1> DEFINE s == <<u>>
<1> HIDE DEF s
<1>2. DOMAIN s = {1} /\ s[1] = u
  BY <1>1 DEF s
<1>3. Context!CoversOf(s) = u.covers
  BY <1>2 DEF Context!CoversOf
<1> QED BY <1>1, <1>3 DEF s

LEMMA UnitsAppend ==
  ASSUME NEW s \in Seq(TextUnit), NEW u \in TextUnit
  PROVE  /\ Append(s, u) \in Seq(TextUnit) /\ Len(Append(s, u)) >= 1
         /\ Append(s, u)[Len(Append(s, u))] = u
         /\ Context!CoversOf(Append(s, u)) = Context!CoversOf(s) \cup u.covers
<1>1. Append(s, u) = s \o <<u>>
  BY AppendIsConcat
<1> DEFINE t == <<u>>
<1>2. t \in Seq(TextUnit) /\ Len(t) = 1 /\ t[1] = u /\ Context!CoversOf(t) = u.covers
  BY OneUnit
<1>3. Append(s, u) = s \o t
  BY <1>1
<1> HIDE DEF t
<1>4. Len(t) >= 1
  BY <1>2
<1>5. /\ s \o t \in Seq(TextUnit)
      /\ Context!CoversOf(s \o t) = Context!CoversOf(s) \cup Context!CoversOf(t)
      /\ Len(s \o t) >= 1 /\ (s \o t)[Len(s \o t)] = t[Len(t)]
  BY <1>2, <1>4, UnitsJoin
<1> QED BY <1>2, <1>3, <1>5

\* The older and the newest units of a conversation.
LEMMA UnitsSplit ==
  ASSUME NEW s \in Seq(TextUnit), NEW k \in 1 .. Len(s)
  PROVE  LET older == SubSeq(s, 1, Len(s) - k)
             newest == SubSeq(s, Len(s) - k + 1, Len(s))
         IN  /\ older \in Seq(TextUnit) /\ Len(older) = Len(s) - k
             /\ \A i \in 1 .. Len(s) - k : older[i] = s[i]
             /\ newest \in Seq(TextUnit) /\ Len(newest) = k /\ newest[k] = s[Len(s)]
             /\ \A i \in 1 .. k : newest[i] = s[Len(s) - k + i]
             /\ Context!CoversOf(s) = Context!CoversOf(older) \cup Context!CoversOf(newest)
<1> DEFINE n == Len(s)
           older == SubSeq(s, 1, n - k)
           newest == SubSeq(s, n - k + 1, n)
<1>1. n \in Nat /\ k \in Nat /\ k >= 1 /\ k <= n /\ DOMAIN s = 1 .. n /\ \A i \in 1 .. n : s[i] \in TextUnit
  BY LenProperties, ElementOfSeq
<1> HIDE DEF n
<1>2. /\ older \in Seq(TextUnit) /\ Len(older) = n - k
      /\ \A i \in 1 .. n - k : older[i] = s[i]
  <2>1. n - k \in Int /\ 1 \in Int /\ \A i \in 1 .. n - k : s[i] \in TextUnit
    BY <1>1
  <2>2. /\ older \in Seq(TextUnit) /\ Len(older) = IF 1 <= n - k THEN n - k - 1 + 1 ELSE 0
        /\ \A i \in 1 .. n - k - 1 + 1 : older[i] = s[1 + i - 1]
    <3> DEFINE e == n - k
    <3>1. e \in Int /\ 1 \in Int /\ \A i \in 1 .. e : s[i] \in TextUnit
      BY <2>1
    <3> HIDE DEF e
    <3>2. /\ SubSeq(s, 1, e) \in Seq(TextUnit) /\ Len(SubSeq(s, 1, e)) = IF 1 <= e THEN e - 1 + 1 ELSE 0
          /\ \A i \in 1 .. e - 1 + 1 : SubSeq(s, 1, e)[i] = s[1 + i - 1]
      BY <3>1, SubSeqProperties
    <3> QED BY <3>2 DEF e
  <2> HIDE DEF older
  <2>3. n - k - 1 + 1 = n - k /\ \A i \in 1 .. n - k : 1 + i - 1 = i
    BY <1>1
  <2> QED BY <1>1, <2>2, <2>3
<1>3. /\ newest \in Seq(TextUnit) /\ Len(newest) = k
      /\ \A i \in 1 .. k : newest[i] = s[n - k + i]
  <2> DEFINE b == n - k + 1
  <2>1. b \in Int /\ n \in Int /\ b <= n /\ n - b + 1 = k /\ \A i \in 1 .. k : b + i - 1 = n - k + i
    BY <1>1
  <2>2. \A i \in b .. n : s[i] \in TextUnit
    BY <1>1
  <2> HIDE DEF b
  <2>3. /\ SubSeq(s, b, n) \in Seq(TextUnit) /\ Len(SubSeq(s, b, n)) = IF b <= n THEN n - b + 1 ELSE 0
        /\ \A i \in 1 .. n - b + 1 : SubSeq(s, b, n)[i] = s[b + i - 1]
    BY <2>1, <2>2, SubSeqProperties
  <2>4. /\ SubSeq(s, b, n) \in Seq(TextUnit) /\ Len(SubSeq(s, b, n)) = k
        /\ \A i \in 1 .. k : SubSeq(s, b, n)[i] = s[n - k + i]
    BY <2>1, <2>3
  <2> QED BY <2>4 DEF b
<1> HIDE DEF older, newest
<1>4. DOMAIN older = 1 .. n - k /\ DOMAIN newest = 1 .. k
  BY <1>2, <1>3, LenProperties
<1>5. Context!CoversOf(s) = Context!CoversOf(older) \cup Context!CoversOf(newest)
  <2>1. \A x \in Context!CoversOf(s) : x \in Context!CoversOf(older) \cup Context!CoversOf(newest)
    <3> SUFFICES ASSUME NEW i \in 1 .. n, NEW x \in s[i].covers
                 PROVE  x \in Context!CoversOf(older) \cup Context!CoversOf(newest)
      BY <1>1 DEF Context!CoversOf
    <3>1. CASE i <= n - k
      <4>1. i \in DOMAIN older /\ older[i] = s[i]
        BY <1>1, <1>2, <1>4, <3>1
      <4> QED BY <4>1 DEF Context!CoversOf
    <3>2. CASE ~(i <= n - k)
      <4> DEFINE j == i - (n - k)
      <4>1. j \in 1 .. k /\ n - k + j = i
        BY <1>1, <3>2
      <4> HIDE DEF j
      <4>2. j \in DOMAIN newest /\ newest[j] = s[i]
        BY <1>3, <1>4, <4>1
      <4> QED BY <4>2 DEF Context!CoversOf
    <3> QED BY <3>1, <3>2
  <2>2. \A x \in Context!CoversOf(older) : x \in Context!CoversOf(s)
    <3> SUFFICES ASSUME NEW i \in DOMAIN older, NEW x \in older[i].covers
                 PROVE  x \in Context!CoversOf(s)
      BY DEF Context!CoversOf
    <3>1. i \in DOMAIN s /\ older[i] = s[i]
      BY <1>1, <1>2, <1>4
    <3> QED BY <3>1 DEF Context!CoversOf
  <2>3. \A x \in Context!CoversOf(newest) : x \in Context!CoversOf(s)
    <3> SUFFICES ASSUME NEW i \in DOMAIN newest, NEW x \in newest[i].covers
                 PROVE  x \in Context!CoversOf(s)
      BY DEF Context!CoversOf
    <3>1. i \in 1 .. k /\ n - k + i \in DOMAIN s
      BY <1>1, <1>4
    <3>2. newest[i] = s[n - k + i]
      BY <1>3, <3>1
    <3> QED BY <3>1, <3>2 DEF Context!CoversOf
  <2> QED BY <2>1, <2>2, <2>3
<1>6. newest[k] = s[n]
  BY <1>1, <1>3
<1> QED BY <1>2, <1>3, <1>5, <1>6 DEF older, newest, n

LEMMA CoversAreInts ==
  ASSUME NEW s \in Seq(TextUnit)
  PROVE  Context!CoversOf(s) \in SUBSET Int
<1>1. DOMAIN s = 1 .. Len(s) /\ \A i \in DOMAIN s : s[i] \in TextUnit
  BY LenProperties, ElementOfSeq
<1> QED BY <1>1 DEF Context!CoversOf, TextUnit

\* The size of a conversation is a number.
LEMMA SizeIs ==
  ASSUME NEW s \in Seq(TextUnit)
  PROVE  Context!Estimate(s) \in Int
<1> DEFINE f == [i \in DOMAIN s |-> s[i].size]
<1>1. Context!SizeOf(s) = Context!SumFunction(f)
  BY DEF Context!SizeOf
<1>2. DOMAIN f = DOMAIN s /\ DOMAIN s = 1 .. Len(s) /\ IsFiniteSet(DOMAIN s)
  BY LenProperties, FS_Interval
<1>3. \A i \in DOMAIN s : f[i] \in Int /\ f[i] <= f[i]
  <2>1. \A i \in DOMAIN s : s[i] \in TextUnit
    BY <1>2, ElementOfSeq
  <2>2. \A i \in DOMAIN s : f[i] \in Int
    BY <2>1 DEF TextUnit
  <2> HIDE DEF f
  <2> QED BY <2>2
<1> HIDE DEF f
<1>4. Context!SumFunction(f) = SumOver(f, DOMAIN s)
  <2>1. \A g, S : Context!SumFunctionOnSet(g, S) = Sums(g, S)[S]
    BY DEF Context!SumFunctionOnSet, Context!FoldFunctionOnSet, Context!MapThenFoldSet,
           AnyOf, Sums, SumStep
  <2> QED BY <1>2, <2>1, SumIs DEF Context!SumFunction
<1>5. SumOver(f, DOMAIN s) \in Int
  BY <1>2, <1>3, SumOrder
<1> QED BY <1>1, <1>4, <1>5 DEF Context!Estimate, Context!Fixed

\* At least one unit stays, and at most all.
LEMMA RecentIs ==
  ASSUME NEW s \in Seq(TextUnit), Len(s) >= 1, NEW other, NEW trigger
  PROVE  Context!RecentCount(s, other, trigger) \in 1 .. Len(s)
<1> DEFINE n == Len(s)
           Stays(k) == k = 1 \/ /\ k <= RecentTurns
                                /\ Context!Fixed + other
                                     + Context!SizeOf(SubSeq(s, Len(s) - k + 1, Len(s))) + SummaryMax
                                     <= Context!Target(trigger)
           K == {k \in 1 .. n : Stays(k)}
           P(k) == Stays(k) /\ \A j \in (k + 1) .. n : ~Stays(j)
<1>1. n \in Nat /\ n >= 1
  BY LenProperties
<1>2. Context!RecentCount(s, other, trigger) = CHOOSE k \in 1 .. n : P(k)
  BY DEF Context!RecentCount
<1> HIDE DEF n
<1>3. 1 \in K
  BY <1>1
<1>4. PICK k \in K : \A j \in K : k >= j
  <2> DEFINE L == K
  <2>1. L \in SUBSET (1 .. n) /\ L # {}
    BY <1>3
  <2>2. \E x \in L : \A y \in L : x >= y
    <3> HIDE DEF L
    <3> QED BY <1>1, <2>1, LastPosition
  <2> QED BY <2>2
<1>5. k \in 1 .. n /\ P(k)
  <2>1. ASSUME NEW j \in (k + 1) .. n, Stays(j) PROVE FALSE
    <3>1. j \in K /\ ~(k >= j)
      BY <1>1, <2>1
    <3> QED BY <1>4, <3>1
  <2> QED BY <2>1
<1> HIDE DEF P
<1>6. (CHOOSE j \in 1 .. n : P(j)) \in 1 .. n
  BY <1>5
<1> QED BY <1>2, <1>6 DEF n

\* What a compaction comes out with tells what the older units told.
LEMMA CompactionsAre ==
  ASSUME NEW older \in Seq(TextUnit), NEW rest, NEW trigger, SummaryMax \in Nat,
         NEW c \in Context!Compactions(older, rest, trigger)
  PROVE  LET u == Context!SummaryUnit(c[1])
         IN  /\ c[1].covers = Context!CoversOf(older) /\ c[1].size \in Int
             /\ u \in TextUnit /\ u.covers = Context!CoversOf(older)
<1> DEFINE C == Context!CoversOf(older)
           Fit(s) == s.covers = C /\ s.size \in Int
<1>1. ASSUME NEW limit \in Int, NEW s \in Context!Summaries(older, limit) PROVE Fit(s)
  <2>1. s \in Context!Degraded(older, limit) \/ s \in Context!Answered(C, limit)
    BY <1>1 DEF Context!Summaries, Context!Segmented
  <2>2. CASE s \in Context!Degraded(older, limit)
    BY <1>1, <2>2 DEF Context!Degraded
  <2>3. CASE s \in Context!Answered(C, limit)
    BY <1>1, <2>3 DEF Context!Answered
  <2> QED BY <2>1, <2>2, <2>3
<1>2. SummaryMax \in Int /\ SummaryMax \div 2 \in Int
  OBVIOUS
<1>3. \/ \E s \in Context!Summaries(older, SummaryMax) : c = <<s, "normal">>
      \/ c \in Context!Summaries(older, SummaryMax \div 2) \X {"slim"}
  BY DEF Context!Compactions
<1>4. Fit(c[1])
  <2> HIDE DEF Fit
  <2>1. CASE \E s \in Context!Summaries(older, SummaryMax) : c = <<s, "normal">>
    BY <1>1, <1>2, <2>1
  <2>2. CASE c \in Context!Summaries(older, SummaryMax \div 2) \X {"slim"}
    BY <1>1, <1>2, <2>2
  <2> QED BY <1>3, <2>1, <2>2
<1>5. C \in SUBSET Int
  BY CoversAreInts
<1> QED BY <1>4, <1>5 DEF Context!SummaryUnit, Context!Unit, TextUnit

\* A selection keeps what it is a selection of: one for each of the tests.
LEMMA EntriesKept ==
  ASSUME NEW s, Len(s) \in Nat, NEW T,
         \A n \in 1 .. Len(s) : s[n].covers \cap run.excl = {} <=> s[n] \in T
  PROVE  Context!Kept(s, LAMBDA u : u.covers \cap run.excl = {}) = Picked(s, T)[Len(s)]
<1> DEFINE Body(h) == [n \in 0 .. Len(s) |->
                         IF n = 0 THEN <<>>
                         ELSE IF s[n].covers \cap run.excl = {} THEN Append(h[n - 1], s[n]) ELSE h[n - 1]]
           Steps(h) == [n \in 0 .. Len(s) |-> PickStep(s, T, h, n)]
<1>1. \A h : Body(h) = Steps(h)
  <2>1. \A n \in 0 .. Len(s) : n = 0 \/ n \in 1 .. Len(s)
    OBVIOUS
  <2> QED BY <2>1 DEF PickStep
<1>2. Context!Kept(s, LAMBDA u : u.covers \cap run.excl = {}) = (CHOOSE h : h = Body(h))[Len(s)]
  BY Zenon DEF Context!Kept
<1>3. Picked(s, T) = CHOOSE h : h = Steps(h)
  BY DEF Picked
<1> HIDE DEF Body, Steps
<1>4. (CHOOSE h : h = Body(h)) = (CHOOSE h : h = Steps(h))
  BY <1>1, Zenon
<1> QED BY <1>2, <1>3, <1>4

LEMMA LaterKept ==
  ASSUME NEW s, Len(s) \in Nat, NEW T,
         \A n \in 1 .. Len(s) : (\A i \in s[n].covers : i > active.last) <=> s[n] \in T
  PROVE  Context!Kept(s, LAMBDA u : \A i \in u.covers : i > active.last) = Picked(s, T)[Len(s)]
<1> DEFINE Body(h) == [n \in 0 .. Len(s) |->
                         IF n = 0 THEN <<>>
                         ELSE IF \A i \in s[n].covers : i > active.last
                              THEN Append(h[n - 1], s[n]) ELSE h[n - 1]]
           Steps(h) == [n \in 0 .. Len(s) |-> PickStep(s, T, h, n)]
<1>1. \A h : Body(h) = Steps(h)
  <2>1. \A n \in 0 .. Len(s) : n = 0 \/ n \in 1 .. Len(s)
    OBVIOUS
  <2> QED BY <2>1 DEF PickStep
<1>2. Context!Kept(s, LAMBDA u : \A i \in u.covers : i > active.last)
      = (CHOOSE h : h = Body(h))[Len(s)]
  BY Zenon DEF Context!Kept
<1>3. Picked(s, T) = CHOOSE h : h = Steps(h)
  BY DEF Picked
<1> HIDE DEF Body, Steps
<1>4. (CHOOSE h : h = Body(h)) = (CHOOSE h : h = Steps(h))
  BY <1>1, Zenon
<1> QED BY <1>2, <1>3, <1>4

LEMMA TextKept ==
  ASSUME NEW s, Len(s) \in Nat, NEW T,
         \A n \in 1 .. Len(s) : s[n].kind # "summary" <=> s[n] \in T
  PROVE  Context!Kept(s, LAMBDA u : u.kind # "summary") = Picked(s, T)[Len(s)]
<1> DEFINE Body(h) == [n \in 0 .. Len(s) |->
                         IF n = 0 THEN <<>>
                         ELSE IF s[n].kind # "summary" THEN Append(h[n - 1], s[n]) ELSE h[n - 1]]
           Steps(h) == [n \in 0 .. Len(s) |-> PickStep(s, T, h, n)]
<1>1. \A h : Body(h) = Steps(h)
  <2>1. \A n \in 0 .. Len(s) : n = 0 \/ n \in 1 .. Len(s)
    OBVIOUS
  <2> QED BY <2>1 DEF PickStep
<1>2. Context!Kept(s, LAMBDA u : u.kind # "summary") = (CHOOSE h : h = Body(h))[Len(s)]
  BY Zenon DEF Context!Kept
<1>3. Picked(s, T) = CHOOSE h : h = Steps(h)
  BY DEF Picked
<1> HIDE DEF Body, Steps
<1>4. (CHOOSE h : h = Body(h)) = (CHOOSE h : h = Steps(h))
  BY <1>1, Zenon
<1> QED BY <1>2, <1>3, <1>4

\* The turns of a unit come before those of another.
Before == {p \in TextUnit \X TextUnit : \A x \in p[1].covers, y \in p[2].covers : x < y}

Turn(i) == Context!Unit({i}, Context!TurnSize, "turn")

LEMMA TurnIs ==
  ASSUME NEW i \in Int
  PROVE  Turn(i) \in TextUnit /\ Turn(i).covers = {i} /\ Turn(i).kind = "turn"
BY DEF Turn, Context!Unit, Context!TurnSize, TextUnit

\* The entries are the turns that are not excluded, oldest first.
LEMMA EntriesAre ==
  ASSUME turns \in Nat
  PROVE  LET e == Context!Entries
         IN  /\ e \in Seq(TextUnit)
             /\ Context!CoversOf(e) = TurnsTo(turns, run.excl)
             /\ \A a \in DOMAIN e : \E i \in TurnsTo(turns, run.excl) : e[a].covers = {i}
             /\ \A a, b \in DOMAIN e : a < b => <<e[a], e[b]>> \in Before
<1> DEFINE s == [i \in 1 .. turns |-> Turn(i)]
           T == {u \in TextUnit : u.covers \cap run.excl = {}}
           e == Picked(s, T)[Len(s)]
<1>1. /\ s \in Seq(TextUnit) /\ Len(s) = turns
      /\ \A i \in 1 .. turns : s[i] = Turn(i) /\ s[i] \in TextUnit /\ s[i].covers = {i}
  <2>1. \A i \in 1 .. turns : Turn(i) \in TextUnit /\ Turn(i).covers = {i}
    BY TurnIs
  <2>2. s \in [1 .. turns -> TextUnit]
    BY <2>1
  <2> QED BY <2>1, <2>2, SeqDef, LenProperties
<1>2. Context!Entries = Context!Kept(s, LAMBDA u : u.covers \cap run.excl = {})
  BY DEF Context!Entries, Turn
<1> HIDE DEF s
<1>3. \A n \in 1 .. Len(s) : s[n].covers \cap run.excl = {} <=> s[n] \in T
  BY <1>1
<1>4. Context!Entries = e
  <2> HIDE DEF T, e
  <2>1. Len(s) \in Nat
    BY <1>1
  <2>2. Context!Kept(s, LAMBDA u : u.covers \cap run.excl = {}) = Picked(s, T)[Len(s)]
    BY <1>3, <2>1, EntriesKept
  <2> QED BY <1>2, <2>2 DEF e
<1>5. /\ e \in Seq(TextUnit)
      /\ \A a \in DOMAIN e : e[a] \in T /\ \E i \in 1 .. turns : e[a] = s[i]
      /\ \A i \in 1 .. turns : s[i] \in T => \E a \in DOMAIN e : e[a] = s[i]
      /\ \A a, b \in DOMAIN e : a < b => <<e[a], e[b]>> \in Before
  <2>1. Rising(s, Before)
    BY <1>1 DEF Before, Rising
  <2> HIDE DEF T, e
  <2>2. Selection(e, s, T, Before, TextUnit)
    BY <1>1, <2>1, PickedAre DEF e
  <2> QED BY <1>1, <2>2 DEF Selection
<1> HIDE DEF e
<1>6. \A a \in DOMAIN e : \E i \in TurnsTo(turns, run.excl) : e[a].covers = {i}
  <2> SUFFICES ASSUME NEW a \in DOMAIN e
               PROVE  \E i \in TurnsTo(turns, run.excl) : e[a].covers = {i}
    OBVIOUS
  <2>1. PICK i \in 1 .. turns : e[a] = s[i]
    BY <1>5
  <2>2. e[a].covers = {i} /\ e[a].covers \cap run.excl = {}
    BY <1>1, <1>5, <2>1
  <2> QED BY <2>2 DEF TurnsTo
<1>7. Context!CoversOf(e) = TurnsTo(turns, run.excl)
  <2>1. \A x \in Context!CoversOf(e) : x \in TurnsTo(turns, run.excl)
    BY <1>6 DEF Context!CoversOf
  <2>2. ASSUME NEW i \in TurnsTo(turns, run.excl) PROVE i \in Context!CoversOf(e)
    <3>1. i \in 1 .. turns /\ s[i] \in T
      BY <1>1 DEF TurnsTo
    <3>2. PICK a \in DOMAIN e : e[a] = s[i]
      BY <1>5, <3>1
    <3>3. i \in e[a].covers
      BY <1>1, <3>1, <3>2
    <3> QED BY <3>3 DEF Context!CoversOf
  <2> QED BY <2>1, <2>2
<1> QED BY <1>4, <1>5, <1>6, <1>7

\* The older ones are the turns up to the last of them.
LEMMA OlderAre ==
  ASSUME turns \in Nat, NEW k \in 1 .. Len(Context!Entries),
         SubSeq(Context!Entries, 1, Len(Context!Entries) - k) # <<>>
  PROVE  LET C == Context!CoversOf(SubSeq(Context!Entries, 1, Len(Context!Entries) - k))
             m == CHOOSE i \in C : \A j \in C : j <= i
         IN  m \in 1 .. turns /\ C = TurnsTo(m, run.excl)
<1> DEFINE e == Context!Entries
           n == Len(e)
           older == SubSeq(e, 1, n - k)
           C == Context!CoversOf(older)
           m == CHOOSE i \in C : \A j \in C : j <= i
           all == TurnsTo(turns, run.excl)
<1>1. /\ e \in Seq(TextUnit)
      /\ Context!CoversOf(e) = all
      /\ \A a \in DOMAIN e : \E i \in all : e[a].covers = {i}
      /\ \A a, b \in DOMAIN e : a < b => <<e[a], e[b]>> \in Before
  BY EntriesAre
<1> HIDE DEF e
<1>2. /\ older \in Seq(TextUnit) /\ Len(older) = n - k
      /\ \A i \in 1 .. n - k : older[i] = e[i]
      /\ k \in 1 .. n /\ n \in Nat /\ DOMAIN e = 1 .. n
  <2>1. k \in 1 .. Len(e)
    BY DEF e
  <2> QED BY <1>1, <2>1, UnitsSplit, LenProperties
<1>3. older # <<>>
  BY DEF e
<1> HIDE DEF n, older
<1>4. DOMAIN older = 1 .. n - k /\ n - k >= 1
  <2>1. DOMAIN older = 1 .. n - k
    BY <1>2, LenProperties
  <2>2. Len(older) # 0
    BY <1>2, <1>3, EmptySeq
  <2>3. n - k >= 0
    BY <1>2
  <2> QED BY <1>2, <2>1, <2>2, <2>3
<1>5. C \in SUBSET all /\ C # {} /\ all \in SUBSET (1 .. turns)
  <2>1. \A a \in DOMAIN older : \E i \in all : older[a].covers = {i}
    BY <1>1, <1>2, <1>4
  <2>2. 1 \in DOMAIN older
    BY <1>4
  <2>3. PICK i \in all : older[1].covers = {i}
    BY <2>1, <2>2
  <2>4. i \in C
    BY <2>2, <2>3 DEF Context!CoversOf
  <2>5. \A x \in C : x \in all
    <3> SUFFICES ASSUME NEW a \in DOMAIN older, NEW x \in older[a].covers PROVE x \in all
      BY DEF Context!CoversOf
    <3> QED BY <2>1
  <2>6. \A x \in all : x \in 1 .. turns
    BY DEF TurnsTo
  <2> HIDE DEF C, all
  <2> QED BY <2>4, <2>5, <2>6
<1>6. m \in C /\ \A j \in C : j <= m
  <2> DEFINE S == C
  <2>1. S \in SUBSET (1 .. turns) /\ S # {}
    BY <1>5
  <2> HIDE DEF S
  <2>2. \E x \in S : \A y \in S : y <= x
    BY <2>1, LastPosition
  <2> QED BY <2>2 DEF S
<1> HIDE DEF m
<1>7. ASSUME NEW i \in all, i <= m PROVE i \in C
  <2>1. PICK a \in DOMAIN older : m \in older[a].covers
    BY <1>6 DEF Context!CoversOf
  <2>2. PICK b \in DOMAIN e : i \in e[b].covers
    <3>1. i \in Context!CoversOf(e)
      BY <1>1
    <3> QED BY <3>1 DEF Context!CoversOf
  <2>3. CASE b \in 1 .. n - k
    <3>1. b \in DOMAIN older /\ older[b] = e[b]
      BY <1>2, <1>4, <2>3
    <3> QED BY <2>2, <3>1 DEF Context!CoversOf
  <2>4. CASE b \notin 1 .. n - k
    <3>1. a \in DOMAIN e /\ older[a] = e[a] /\ a < b
      BY <1>2, <1>4, <2>4
    <3>2. <<e[a], e[b]>> \in Before /\ m \in e[a].covers
      BY <1>1, <2>1, <3>1
    <3>3. m < i
      BY <2>2, <3>2 DEF Before
    <3>4. m \in Int /\ i \in Int
      BY <1>5, <1>6
    <3> QED BY <1>7, <3>3, <3>4
  <2> QED BY <2>3, <2>4
<1>8. m \in 1 .. turns /\ C = TurnsTo(m, run.excl)
  <2>1. m \in 1 .. turns
    BY <1>5, <1>6
  <2>2. \A i \in C : i \in all /\ i <= m /\ i \in 1 .. turns
    BY <1>5, <1>6
  <2>3. \A i \in C : i \in TurnsTo(m, run.excl)
    BY <2>1, <2>2 DEF TurnsTo
  <2>4. \A i \in TurnsTo(m, run.excl) : i \in all /\ i <= m
    BY <2>1 DEF TurnsTo
  <2> QED BY <1>7, <2>1, <2>3, <2>4
<1> QED BY <1>8 DEF m, older, n, e

LEMMA QuestionIs ==
  /\ Context!Question \in TextUnit /\ Context!Question.covers = {}
  /\ Context!Question.kind = "run"
BY DEF Context!Question, Context!Unit, TextUnit

\* The stored summary, the later turns and the question.
LEMMA AfterActiveIs ==
  ASSUME turns \in Nat, ActiveTypes
  PROVE  LET c == Context!AfterActive
         IN  /\ c \in Seq(TextUnit) /\ Len(c) >= 1 /\ c[Len(c)].kind = "run"
             /\ Context!CoversOf(c)
                  = active.covers \cup {i \in TurnsTo(turns, run.excl) : i > active.last}
<1> DEFINE e == Context!Entries
           T == {u \in TextUnit : \A i \in u.covers : i > active.last}
           p == Picked(e, T)[Len(e)]
           a == Context!SummaryUnit(active)
           all == TurnsTo(turns, run.excl)
<1>1. /\ e \in Seq(TextUnit) /\ Context!CoversOf(e) = all
      /\ \A j \in DOMAIN e : \E i \in all : e[j].covers = {i}
      /\ DOMAIN e = 1 .. Len(e) /\ Len(e) \in Nat
  BY EntriesAre, LenProperties
<1>2. a \in TextUnit /\ a.covers = active.covers
  BY DEF ActiveTypes, Context!SummaryUnit, Context!Unit, TextUnit
<1>3. Context!AfterActive
        = (<<a>> \o Context!Kept(e, LAMBDA u : \A i \in u.covers : i > active.last))
          \o <<Context!Question>>
  BY DEF Context!AfterActive
<1> HIDE DEF e, a
<1>4. Context!Kept(e, LAMBDA u : \A i \in u.covers : i > active.last) = p
  <2>1. \A n \in 1 .. Len(e) : (\A i \in e[n].covers : i > active.last) <=> e[n] \in T
    BY <1>1, ElementOfSeq
  <2> HIDE DEF T
  <2> QED BY <1>1, <2>1, LaterKept
<1>5. /\ p \in Seq(TextUnit)
      /\ \A j \in DOMAIN p : p[j] \in T /\ \E i \in 1 .. Len(e) : p[j] = e[i]
      /\ \A i \in 1 .. Len(e) : e[i] \in T => \E j \in DOMAIN p : p[j] = e[i]
  <2> DEFINE L == {<<e[i], e[j]>> : i \in 1 .. Len(e), j \in 1 .. Len(e)}
  <2>1. Rising(e, L)
    BY DEF Rising
  <2> HIDE DEF T, L, p
  <2>2. Selection(p, e, T, L, TextUnit)
    BY <1>1, <2>1, PickedAre DEF p
  <2> QED BY <2>2 DEF Selection
<1> HIDE DEF p
<1>6. Context!CoversOf(p) = {i \in all : i > active.last}
  <2>1. ASSUME NEW x \in Context!CoversOf(p) PROVE x \in all /\ x > active.last
    <3>1. PICK j \in DOMAIN p : x \in p[j].covers
      BY DEF Context!CoversOf
    <3>2. PICK i \in 1 .. Len(e) : p[j] = e[i]
      BY <1>5
    <3>3. x \in Context!CoversOf(e)
      BY <1>1, <3>1, <3>2 DEF Context!CoversOf
    <3> QED BY <1>1, <1>5, <3>1, <3>3
  <2>2. ASSUME NEW x \in all, x > active.last PROVE x \in Context!CoversOf(p)
    <3>1. PICK i \in DOMAIN e : x \in e[i].covers
      <4>1. x \in Context!CoversOf(e)
        BY <1>1
      <4> QED BY <4>1 DEF Context!CoversOf
    <3>2. e[i].covers = {x} /\ e[i] \in TextUnit /\ i \in 1 .. Len(e)
      BY <1>1, <3>1, ElementOfSeq
    <3>3. e[i] \in T
      BY <2>2, <3>2
    <3>4. PICK j \in DOMAIN p : p[j] = e[i]
      BY <1>5, <3>2, <3>3
    <3> QED BY <3>1, <3>4 DEF Context!CoversOf
  <2> QED BY <2>1, <2>2
<1> DEFINE h == <<a>>
           q == <<Context!Question>>
<1>7. /\ h \in Seq(TextUnit) /\ Context!CoversOf(h) = active.covers
      /\ q \in Seq(TextUnit) /\ Context!CoversOf(q) = {} /\ Len(q) = 1 /\ q[1] = Context!Question
  BY <1>2, OneUnit, QuestionIs
<1>8. Context!AfterActive = (h \o p) \o q
  BY <1>3, <1>4
<1> HIDE DEF h, q
<1>9. /\ h \o p \in Seq(TextUnit)
      /\ Context!CoversOf(h \o p) = active.covers \cup Context!CoversOf(p)
  BY <1>5, <1>7, UnitsJoin
<1> DEFINE g == h \o p
<1>10. g \in Seq(TextUnit) /\ Context!CoversOf(g) = active.covers \cup {i \in all : i > active.last}
  BY <1>6, <1>9
<1> HIDE DEF g
<1>11. /\ g \o q \in Seq(TextUnit) /\ Context!CoversOf(g \o q) = Context!CoversOf(g) \cup Context!CoversOf(q)
       /\ Len(g \o q) >= 1 /\ (g \o q)[Len(g \o q)] = q[Len(q)]
  <2>1. Len(q) >= 1
    BY <1>7
  <2> QED BY <1>7, <1>10, <2>1, UnitsJoin
<1>12. Context!AfterActive = g \o q
  BY <1>8 DEF g
<1> QED BY <1>7, <1>10, <1>11, <1>12, QuestionIs

\* A resumed run has its last unit still.
LEMMA ResumedIs ==
  ASSUME RunTypes, run.pc = "paused"
  PROVE  LET c == Context!Kept(run.conv, LAMBDA u : u.kind # "summary")
         IN  c \in Seq(TextUnit) /\ Len(c) >= 1 /\ c[Len(c)].kind # "summary"
<1> DEFINE s == run.conv
           T == {u \in TextUnit : u.kind # "summary"}
           p == Picked(s, T)[Len(s)]
           L == {<<s[i], s[j]>> : i \in 1 .. Len(s), j \in 1 .. Len(s)}
<1>1. /\ s \in Seq(TextUnit) /\ Len(s) >= 1 /\ s[Len(s)].kind # "summary"
  BY DEF RunTypes
<1>2. Context!Kept(run.conv, LAMBDA u : u.kind # "summary")
      = Context!Kept(s, LAMBDA u : u.kind # "summary")
  OBVIOUS
<1> HIDE DEF s
<1>3. Len(s) \in Nat /\ \A n \in 1 .. Len(s) : s[n] \in TextUnit
  BY <1>1, LenProperties, ElementOfSeq
<1>4. \A n \in 1 .. Len(s) : s[n].kind # "summary" <=> s[n] \in T
  BY <1>3
<1>5. s[Len(s)] \in T
  <2>1. Len(s) \in 1 .. Len(s)
    BY <1>1, <1>3
  <2> QED BY <1>1, <1>4, <2>1
<1>6. Rising(s, L)
  BY DEF Rising
<1> HIDE DEF T, L
<1>7. Context!Kept(s, LAMBDA u : u.kind # "summary") = p
  BY <1>3, <1>4, TextKept
<1>8. p \in Seq(TextUnit) /\ Len(p) >= 1 /\ p[Len(p)] = s[Len(s)]
  <2>1. Selection(p, s, T, L, TextUnit)
    BY <1>1, <1>6, PickedAre
  <2> QED BY <1>1, <1>5, <2>1 DEF Selection
<1> QED BY <1>1, <1>2, <1>7, <1>8

\* Results that become artifacts change the size of a unit only.
LEMMA MicroIs ==
  ASSUME NEW s \in Seq(TextUnit)
  PROVE  LET c == Context!MicroCompact(s)
         IN  /\ c \in Seq(TextUnit) /\ Len(c) = Len(s) /\ Context!CoversOf(c) = Context!CoversOf(s)
             /\ \A i \in 1 .. Len(s) : c[i].kind = s[i].kind
<1> DEFINE c == Context!MicroCompact(s)
           n == Len(s)
<1>1. n \in Nat /\ DOMAIN s = 1 .. n /\ \A i \in 1 .. n : s[i] \in TextUnit
  BY LenProperties, ElementOfSeq
<1>2. c = [i \in 1 .. n |-> [s[i] EXCEPT !.size = @ - s[i].big * 2, !.big = 0]]
  BY <1>1 DEF Context!MicroCompact, Context!Large, Context!Small
<1> HIDE DEF n, c
<1>3. ASSUME NEW i \in 1 .. n
      PROVE  c[i] \in TextUnit /\ c[i].covers = s[i].covers /\ c[i].kind = s[i].kind
  <2>1. s[i] \in TextUnit /\ c[i] = [s[i] EXCEPT !.size = @ - s[i].big * 2, !.big = 0]
    BY <1>1, <1>2
  <2> DEFINE r == s[i]
             z == s[i].size - s[i].big * 2
  <2>2. r \in TextUnit /\ z \in Int /\ c[i] = [r EXCEPT !.size = z, !.big = 0]
    BY <2>1 DEF TextUnit
  <2> HIDE DEF r, z
  <2>3. [r EXCEPT !.size = z, !.big = 0]
        = [covers |-> r.covers, size |-> z, kind |-> r.kind, big |-> 0]
    BY <2>2 DEF TextUnit
  <2>4. r.covers \in SUBSET Int /\ r.kind \in {"turn", "run", "summary"}
    BY <2>2 DEF TextUnit
  <2> QED BY <2>2, <2>3, <2>4 DEF r, TextUnit
<1>4. c \in Seq(TextUnit) /\ Len(c) = n /\ DOMAIN c = 1 .. n
  <2>1. c = [i \in 1 .. n |-> c[i]]
    BY <1>2
  <2>2. c \in [1 .. n -> TextUnit]
    BY <1>3, <2>1
  <2> QED BY <1>1, <2>2, SeqDef, LenProperties
<1>5. Context!CoversOf(c) = Context!CoversOf(s)
  BY <1>1, <1>3, <1>4 DEF Context!CoversOf
<1> QED BY <1>3, <1>4, <1>5 DEF c, n

ContextConstants == InputBudget \in Nat /\ Triggers \subseteq 0 .. InputBudget /\ SummaryMax \in Nat

\* The run goes on with a conversation; what is stored of the session is as it
\* should be.
LEMMA RunGoesOn ==
  ASSUME ContextInv, UNCHANGED <<turns, rev>>, ActiveTypes', ActiveIsExact',
         DOMAIN run' = RunFields, run'.rounds \in Nat, run'.tag \in Nat,
         run'.pc \in {"run", "check", "paused"},
         run'.conv \in Seq(TextUnit), Len(run'.conv) >= 1,
         run'.conv[Len(run'.conv)].kind # "summary",
         run'.pc = "run" => Context!Estimate(run'.conv) <= InputBudget,
         ~run'.raced /\ ~run'.lost =>
           Context!CoversOf(run'.conv) = TurnsTo(turns, run'.excl) \cup Made(run'.rounds)
  PROVE  ContextInv'
<1>1. turns' \in Nat /\ rev' \in Nat /\ rev' >= 1
  BY DEF ContextInv
<1>2. RunTypes'
  BY DEF RunTypes
<1>3. RunReads'
  BY DEF RunReads
<1>4. RunIsTold'
  BY DEF RunIsTold
<1>5. Context!FitsBudget'
  BY DEF Context!FitsBudget
<1> QED BY <1>1, <1>2, <1>3, <1>4, <1>5 DEF ContextInv

\* Nothing of the session changes.
LEMMA SessionStays ==
  ASSUME ContextInv, UNCHANGED <<turns, stale, rev, active>>
  PROVE  ActiveTypes' /\ ActiveIsExact'
<1>1. ActiveTypes'
  BY DEF ContextInv, ActiveTypes
<1>2. ActiveIsExact'
  BY DEF ContextInv, ActiveIsExact
<1> QED BY <1>1, <1>2

LEMMA NoRunIs ==
  /\ DOMAIN Context!NoRun = RunFields /\ Context!NoRun.pc = "idle" /\ Context!NoRun.tag = 0
  /\ Context!NoRun.rounds = 0 /\ ~Context!NoRun.lost
BY DEF Context!NoRun, RunFields

LEMMA EndRunKeeps ==
  ASSUME ContextInv, Context!EndRun, UNCHANGED active
  PROVE  ContextInv'
<1>1. turns' = turns + 1 /\ run' = Context!NoRun /\ UNCHANGED <<stale, rev>>
  BY DEF Context!EndRun
<1>2. run'.pc = "idle" /\ RunTypes'
  <2>1. /\ DOMAIN run' = RunFields /\ run'.pc = "idle" /\ run'.tag = 0
        /\ run'.rounds = 0 /\ ~run'.lost
    BY <1>1, NoRunIs
  <2> QED BY <2>1 DEF RunTypes
<1>3. RunReads' /\ RunIsTold' /\ Context!FitsBudget'
  BY <1>2 DEF RunReads, RunIsTold, Context!FitsBudget
<1>4. turns \in Nat /\ rev \in Nat /\ rev >= 1
  BY DEF ContextInv
<1>5. ActiveTypes'
  <2>1. /\ DOMAIN active = RecordFields /\ active.covers \in SUBSET Int /\ active.size \in Int
        /\ active.last \in Nat /\ active.last <= turns /\ active.rev \in Nat
        /\ active.policy = "normal" /\ ~active.raced => active.rev <= rev
    BY DEF ContextInv, ActiveTypes
  <2>2. active.last <= turns + 1
    BY <1>4, <2>1
  <2> QED BY <1>1, <2>1, <2>2 DEF ActiveTypes
<1>6. ActiveIsExact'
  BY <1>1 DEF ContextInv, ActiveIsExact
<1> QED BY <1>1, <1>2, <1>3, <1>4, <1>5, <1>6 DEF ContextInv

\* The run has not been given its conversation yet.
LEMMA BeginKeeps ==
  ASSUME ContextInv, Context!Begin
  PROVE  ContextInv'
<1>1. CASE Context!EndRun
  BY <1>1, EndRunKeeps DEF Context!Begin
<1>2. CASE run' = [Context!NoRun EXCEPT !.pc = "history", !.excl = stale]
           /\ UNCHANGED <<turns, stale, rev, active>>
  <2>1. /\ DOMAIN run' = RunFields /\ run'.pc = "history" /\ run'.tag = 0
        /\ run'.rounds = 0 /\ ~run'.lost
    BY <1>2, NoRunIs DEF RunFields
  <2>2. RunTypes'
    BY <2>1 DEF RunTypes
  <2>3. RunReads' /\ RunIsTold' /\ Context!FitsBudget'
    BY <2>1 DEF RunReads, RunIsTold, Context!FitsBudget
  <2> QED BY <1>2, <2>2, <2>3, SessionStays DEF ContextInv
<1> QED BY <1>1, <1>2 DEF Context!Begin, Context!session

LEMMA ReadRevisionKeeps ==
  ASSUME ContextInv, Context!ReadRevision
  PROVE  ContextInv'
<1>1. /\ run' = [run EXCEPT !.pc = "build", !.tag = rev, !.raced = stale # run.excl]
      /\ UNCHANGED <<turns, stale, rev, active>> /\ run.pc = "history"
  BY DEF Context!ReadRevision, Context!session
<1>2. /\ DOMAIN run = RunFields /\ run.rounds = 0 /\ ~run.lost /\ rev \in Nat
  BY <1>1 DEF ContextInv, RunTypes
<1>3. /\ DOMAIN run' = RunFields /\ run'.pc = "build" /\ run'.tag = rev /\ run'.rounds = 0
      /\ ~run'.lost /\ run'.raced = (stale # run.excl) /\ run'.excl = run.excl
  BY <1>1, <1>2 DEF RunFields
<1>4. RunTypes'
  BY <1>2, <1>3 DEF RunTypes
<1>5. RunIsTold' /\ Context!FitsBudget'
  BY <1>3 DEF RunIsTold, Context!FitsBudget
<1>6. RunReads'
  <2> SUFFICES ASSUME ~run'.raced
               PROVE  /\ rev <= rev
                      /\ run'.excl = stale
                      /\ active.policy = "normal" /\ ~active.raced /\ active.rev = rev =>
                           active.covers = TurnsTo(active.last, stale)
    BY <1>1, <1>3 DEF RunReads
  <2>1. run'.excl = stale
    BY <1>3
  <2> QED BY <1>2, <2>1 DEF ContextInv, ActiveIsExact
<1> QED BY <1>1, <1>4, <1>5, <1>6, SessionStays DEF ContextInv

\* Nothing is made yet.
LEMMA MadeNone == Made(0) = {}
BY DEF Made

LEMMA BuildActiveKeeps ==
  ASSUME ContextInv, ContextConstants, NEW t \in Triggers, Context!BuildActive(t)
  PROVE  ContextInv'
<1> DEFINE c == Context!AfterActive
<1>1. /\ run' = [run EXCEPT !.pc = "run", !.conv = c, !.raced = @ \/ active.raced]
      /\ UNCHANGED <<turns, stale, rev, active>> /\ run.pc = "build" /\ Context!UsesActive(t)
  BY DEF Context!BuildActive, Context!session
<1>2. /\ DOMAIN run = RunFields /\ run.rounds = 0 /\ run.tag \in Nat /\ turns \in Nat
      /\ active.last \in Nat /\ active.last <= turns
  BY <1>1 DEF ContextInv, RunTypes, ActiveTypes
<1>3. /\ c \in Seq(TextUnit) /\ Len(c) >= 1 /\ c[Len(c)].kind = "run"
      /\ Context!CoversOf(c) = active.covers \cup {i \in TurnsTo(turns, run.excl) : i > active.last}
  BY AfterActiveIs DEF ContextInv
<1>4. Context!Estimate(c) <= InputBudget
  <2>1. Context!Estimate(c) \in Int
    BY <1>3, SizeIs
  <2>2. t \in Int /\ t <= InputBudget /\ InputBudget \in Int
    BY DEF ContextConstants
  <2>3. Context!Estimate(c) <= t \/ Context!Estimate(c) <= InputBudget
    BY <1>1 DEF Context!UsesActive
  <2> DEFINE e == Context!Estimate(c)
  <2> HIDE DEF e
  <2>4. e <= t \/ e <= InputBudget => e <= InputBudget
    <3>1. e \in Int
      BY <2>1 DEF e
    <3> QED BY <2>2, <3>1
  <2> QED BY <2>3, <2>4 DEF e
<1> HIDE DEF c
<1>5. /\ DOMAIN run' = RunFields /\ run'.pc = "run" /\ run'.conv = c /\ run'.rounds = 0
      /\ run'.tag = run.tag /\ run'.excl = run.excl /\ run'.raced = (run.raced \/ active.raced)
  BY <1>1, <1>2 DEF RunFields
<1>6. ASSUME ~run'.raced
      PROVE  Context!CoversOf(c) = TurnsTo(turns, run.excl) \cup Made(0)
  <2>1. active.covers = TurnsTo(active.last, run.excl)
    BY <1>1, <1>5, <1>6 DEF ContextInv, RunReads, Context!UsesActive, Context!Usable
  <2>2. \A i : i \in TurnsTo(turns, run.excl)
               <=> i \in TurnsTo(active.last, run.excl)
                   \/ (i \in TurnsTo(turns, run.excl) /\ i > active.last)
    BY <1>2 DEF TurnsTo
  <2> QED BY <1>3, <2>1, <2>2, MadeNone
<1>7. ActiveTypes' /\ ActiveIsExact'
  BY <1>1, SessionStays
<1> QED BY <1>1, <1>2, <1>3, <1>4, <1>5, <1>6, <1>7, RunGoesOn

\* A conversation that fits is sent, the session being as it was.
LEMMA SendKeeps ==
  ASSUME ContextInv, UNCHANGED <<turns, stale, rev, active>>,
         NEW c \in Seq(TextUnit), Len(c) >= 1, c[Len(c)].kind # "summary",
         Context!Estimate(c) <= InputBudget, Context!Send(c),
         ~run.raced /\ ~run.lost =>
           Context!CoversOf(c) = TurnsTo(turns, run.excl) \cup Made(run.rounds)
  PROVE  ContextInv'
<1>1. DOMAIN run = RunFields /\ run.rounds \in Nat /\ run.tag \in Nat
  BY DEF ContextInv, RunTypes
<1>2. /\ DOMAIN run' = RunFields /\ run'.pc = "run" /\ run'.conv = c /\ run'.rounds = run.rounds
      /\ run'.tag = run.tag /\ run'.excl = run.excl /\ run'.raced = run.raced
      /\ run'.lost = run.lost
  BY <1>1 DEF Context!Send, RunFields
<1>3. ActiveTypes' /\ ActiveIsExact'
  BY SessionStays
<1> QED BY <1>1, <1>2, <1>3, RunGoesOn

\* What is not above the budget is within.
LEMMA WithinBudget ==
  ASSUME ContextConstants, NEW c \in Seq(TextUnit), ~(Context!Estimate(c) > InputBudget)
  PROVE  Context!Estimate(c) <= InputBudget
<1> DEFINE e == Context!Estimate(c)
<1>1. e \in Int /\ InputBudget \in Int /\ ~(e > InputBudget)
  BY SizeIs DEF ContextConstants
<1> HIDE DEF e
<1>2. e <= InputBudget
  BY <1>1
<1> QED BY <1>2 DEF e

LEMMA BuildFullKeeps ==
  ASSUME ContextInv, ContextConstants, NEW t, Context!BuildFull(t)
  PROVE  ContextInv'
<1> DEFINE e == Context!Entries
           c == Append(e, Context!Question)
<1>1. run.pc = "build" /\ run.rounds = 0 /\ turns \in Nat
  BY DEF Context!BuildFull, ContextInv, RunTypes
<1>2. e \in Seq(TextUnit) /\ Context!CoversOf(e) = TurnsTo(turns, run.excl)
  BY <1>1, EntriesAre
<1>3. /\ c \in Seq(TextUnit) /\ Len(c) >= 1 /\ c[Len(c)].kind # "summary"
      /\ Context!CoversOf(c) = TurnsTo(turns, run.excl) \cup Made(run.rounds)
  <2> HIDE DEF e
  <2>1. /\ Append(e, Context!Question) \in Seq(TextUnit) /\ Len(Append(e, Context!Question)) >= 1
        /\ Append(e, Context!Question)[Len(Append(e, Context!Question))] = Context!Question
        /\ Context!CoversOf(Append(e, Context!Question))
             = Context!CoversOf(e) \cup Context!Question.covers
    BY <1>2, QuestionIs, UnitsAppend
  <2> QED BY <1>1, <1>2, <2>1, QuestionIs, MadeNone
<1>4. CASE Context!Estimate(c) > InputBudget
  <2>1. Context!EndRun /\ UNCHANGED active
    BY <1>4 DEF Context!BuildFull, Context!Raise
  <2> QED BY <2>1, EndRunKeeps
<1>5. CASE ~(Context!Estimate(c) > InputBudget)
  <2>1. Context!Send(c) /\ UNCHANGED <<turns, stale, rev, active>>
    BY <1>5 DEF Context!BuildFull, Context!session
  <2> HIDE DEF c
  <2>2. Context!Estimate(c) <= InputBudget
    BY <1>3, <1>5, WithinBudget
  <2> QED BY <1>3, <2>1, <2>2, SendKeeps
<1> QED BY <1>4, <1>5

\* A unit before others.
LEMMA UnitFirst ==
  ASSUME NEW u \in TextUnit, NEW s \in Seq(TextUnit), Len(s) >= 1
  PROVE  /\ <<u>> \o s \in Seq(TextUnit) /\ Len(<<u>> \o s) >= 1
         /\ (<<u>> \o s)[Len(<<u>> \o s)] = s[Len(s)]
         /\ Context!CoversOf(<<u>> \o s) = u.covers \cup Context!CoversOf(s)
<1> DEFINE h == <<u>>
<1>1. h \in Seq(TextUnit) /\ Context!CoversOf(h) = u.covers
  BY OneUnit
<1> HIDE DEF h
<1>2. /\ h \o s \in Seq(TextUnit) /\ Len(h \o s) >= 1 /\ (h \o s)[Len(h \o s)] = s[Len(s)]
      /\ Context!CoversOf(h \o s) = Context!CoversOf(h) \cup Context!CoversOf(s)
  BY <1>1, UnitsJoin
<1> QED BY <1>1, <1>2 DEF h

\* The summary of the older turns is what the next run may use again.
LEMMA BuildCompactedKeeps ==
  ASSUME ContextInv, ContextConstants, NEW t, Context!BuildCompacted(t)
  PROVE  ContextInv'
<1> DEFINE e == Context!Entries
           keep == Context!RecentCount(e, Context!Question.size, t)
           older == SubSeq(e, 1, Len(e) - keep)
           newest == SubSeq(e, Len(e) - keep + 1, Len(e))
           rest == Append(newest, Context!Question)
           C == Context!CoversOf(older)
           m == CHOOSE i \in C : \A j \in C : j <= i
           before == Context!Estimate(Append(e, Context!Question))
<1>1. /\ run.pc = "build" /\ run.rounds = 0 /\ turns \in Nat /\ DOMAIN run = RunFields
      /\ run.tag \in Nat /\ ~run.lost
  BY DEF Context!BuildCompacted, ContextInv, RunTypes
<1>2. \/ Context!EndRun /\ UNCHANGED active
      \/ /\ e # <<>> /\ older # <<>>
         /\ \E c \in Context!Compactions(older, rest, t) :
              LET conv == <<Context!SummaryUnit(c[1])>> \o rest
              IN  \/ Context!EndRun /\ UNCHANGED active
                  \/ /\ ~(Context!Estimate(conv) > InputBudget)
                     /\ Context!Send(conv) /\ UNCHANGED Context!session
                     /\ active' = [covers |-> c[1].covers, size |-> c[1].size, last |-> m,
                                   rev |-> run.tag, profile |-> profile, policy |-> c[2],
                                   quality |-> Context!Quality(c[1], Context!Estimate(conv), t),
                                   raced |-> run.raced]
  <2>1. \/ Context!Raise(TRUE)
        \/ /\ e # <<>> /\ older # <<>>
           /\ \E c \in Context!Compactions(older, rest, t) :
                Context!Settle(before, <<Context!SummaryUnit(c[1])>> \o rest,
                  active' = [covers |-> c[1].covers, size |-> c[1].size, last |-> m,
                             rev |-> run.tag, profile |-> profile, policy |-> c[2],
                             quality |-> Context!Quality(c[1],
                                Context!Estimate(<<Context!SummaryUnit(c[1])>> \o rest), t),
                             raced |-> run.raced])
    BY DEF Context!BuildCompacted
  <2> HIDE DEF e, keep, older, newest, rest, C, m, before
  <2> QED BY <2>1 DEF Context!Settle, Context!Raise
<1>3. CASE Context!EndRun /\ UNCHANGED active
  BY <1>3, EndRunKeeps
<1>4. ASSUME e # <<>>, older # <<>>, NEW c \in Context!Compactions(older, rest, t),
             ~(Context!Estimate(<<Context!SummaryUnit(c[1])>> \o rest) > InputBudget),
             Context!Send(<<Context!SummaryUnit(c[1])>> \o rest), UNCHANGED Context!session,
             active' = [covers |-> c[1].covers, size |-> c[1].size, last |-> m,
                        rev |-> run.tag, profile |-> profile, policy |-> c[2],
                        quality |-> Context!Quality(c[1],
                           Context!Estimate(<<Context!SummaryUnit(c[1])>> \o rest), t),
                        raced |-> run.raced]
      PROVE  ContextInv'
  <2> DEFINE u == Context!SummaryUnit(c[1])
             conv == <<u>> \o rest
             quality == Context!Quality(c[1], Context!Estimate(conv), t)
  <2>1. e \in Seq(TextUnit) /\ Len(e) >= 1 /\ Context!CoversOf(e) = TurnsTo(turns, run.excl)
    <3>1. e \in Seq(TextUnit) /\ Context!CoversOf(e) = TurnsTo(turns, run.excl)
      BY <1>1, EntriesAre
    <3> HIDE DEF e
    <3>2. Len(e) # 0 /\ Len(e) \in Nat
      BY <1>4, <3>1, EmptySeq, LenProperties
    <3> QED BY <3>1, <3>2
  <2>2. keep \in 1 .. Len(e)
    <3> HIDE DEF e
    <3> QED BY <2>1, RecentIs
  <2>3. m \in 1 .. turns /\ C = TurnsTo(m, run.excl)
    <3> HIDE DEF keep
    <3> QED BY <1>1, <1>4, <2>2, OlderAre
  <2>4. /\ older \in Seq(TextUnit) /\ newest \in Seq(TextUnit)
        /\ Context!CoversOf(e) = C \cup Context!CoversOf(newest)
    <3> HIDE DEF e, keep
    <3> QED BY <2>1, <2>2, UnitsSplit
  <2> HIDE DEF e, keep, older, newest, m
  <2>5. /\ rest \in Seq(TextUnit) /\ Len(rest) >= 1 /\ rest[Len(rest)].kind = "run"
        /\ Context!CoversOf(rest) = Context!CoversOf(newest)
    <3> DEFINE q == Context!Question
    <3>1. q \in TextUnit /\ q.covers = {} /\ q.kind = "run"
      BY QuestionIs
    <3> HIDE DEF q, C
    <3>2. /\ Append(newest, q) \in Seq(TextUnit) /\ Len(Append(newest, q)) >= 1
          /\ Append(newest, q)[Len(Append(newest, q))] = q
          /\ Context!CoversOf(Append(newest, q)) = Context!CoversOf(newest) \cup q.covers
      BY <2>4, <3>1, UnitsAppend
    <3> QED BY <3>1, <3>2 DEF q
  <2> HIDE DEF rest
  <2>6. /\ c[1].covers = C /\ c[1].size \in Int /\ u \in TextUnit /\ u.covers = C
    BY <2>4, CompactionsAre DEF ContextConstants
  <2> HIDE DEF u
  <2>7. /\ conv \in Seq(TextUnit) /\ Len(conv) >= 1 /\ conv[Len(conv)].kind = "run"
        /\ Context!CoversOf(conv) = TurnsTo(turns, run.excl)
    <3>1. /\ conv \in Seq(TextUnit) /\ Len(conv) >= 1 /\ conv[Len(conv)] = rest[Len(rest)]
          /\ Context!CoversOf(conv) = u.covers \cup Context!CoversOf(rest)
      BY <2>5, <2>6, UnitFirst
    <3> QED BY <2>1, <2>4, <2>5, <2>6, <3>1
  <2>8. ~(Context!Estimate(conv) > InputBudget) /\ Context!Send(conv)
    BY <1>4 DEF u
  <2>9. active' = [covers |-> c[1].covers, size |-> c[1].size, last |-> m,
                   rev |-> run.tag, profile |-> profile, policy |-> c[2],
                   quality |-> quality, raced |-> run.raced]
    BY <1>4 DEF u
  <2> HIDE DEF conv, quality
  <2>10. Context!Estimate(conv) <= InputBudget
    BY <2>7, <2>8, WithinBudget
  <2>11. UNCHANGED <<turns, stale, rev>>
    BY <1>4 DEF Context!session
  <2>12. /\ DOMAIN active' = RecordFields /\ active'.covers = C /\ active'.size \in Int
         /\ active'.last = m /\ active'.rev = run.tag /\ active'.raced = run.raced
    BY <2>6, <2>9 DEF RecordFields
  <2>13. ~run.raced => run.tag <= rev /\ (run.tag = rev => run.excl = stale)
    BY <1>1 DEF ContextInv, RunReads
  <2>14. ActiveTypes'
    <3>1. C \in SUBSET Int
      BY <2>4, CoversAreInts
    <3>2. m \in Nat /\ m <= turns
      BY <1>1, <2>3
    <3> HIDE DEF C
    <3> QED BY <1>1, <2>11, <2>12, <2>13, <3>1, <3>2 DEF ActiveTypes
  <2>15. ActiveIsExact'
    <3> HIDE DEF C
    <3> QED BY <2>3, <2>11, <2>12, <2>13 DEF ActiveIsExact
  <2>16. /\ DOMAIN run' = RunFields /\ run'.pc = "run" /\ run'.conv = conv /\ run'.rounds = 0
         /\ run'.tag = run.tag /\ run'.excl = run.excl
    BY <1>1, <2>8 DEF Context!Send, RunFields
  <2>17. Context!CoversOf(conv) = TurnsTo(turns, run.excl) \cup Made(0)
    BY <2>7, MadeNone
  <2> QED BY <1>1, <2>7, <2>10, <2>11, <2>14, <2>15, <2>16, <2>17, RunGoesOn
<1> QED BY <1>2, <1>3, <1>4

\* Two conversations that differ in one unit at most.
SameBut(n, s, c) == \A i \in 1 .. n : i # n => c[i] = s[i]

\* The last unit grows.
LEMMA UnitGrows ==
  ASSUME NEW s \in Seq(TextUnit), Len(s) >= 1, NEW u \in TextUnit, NEW X,
         u.covers = s[Len(s)].covers \cup X,
         NEW c \in [1 .. Len(s) -> TextUnit], c[Len(s)] = u,
         SameBut(Len(s), s, c)
  PROVE  /\ c \in Seq(TextUnit) /\ Len(c) = Len(s) /\ c[Len(c)] = u
         /\ Context!CoversOf(c) = Context!CoversOf(s) \cup X
<1> DEFINE n == Len(s)
<1>1. n \in Nat /\ n >= 1 /\ DOMAIN s = 1 .. n /\ \A i \in 1 .. n : s[i] \in TextUnit
  BY LenProperties, ElementOfSeq
<1>2. u.covers = s[n].covers \cup X
  OBVIOUS
<1>3. DOMAIN c = 1 .. n /\ c[n] = u /\ \A i \in 1 .. n : i # n => c[i] = s[i]
  BY DEF SameBut
<1>4. c \in [1 .. n -> TextUnit]
  OBVIOUS
<1> HIDE DEF n
<1>5. c \in Seq(TextUnit) /\ Len(c) = n
  BY <1>1, <1>3, <1>4, SeqDef, LenProperties
<1>6. Context!CoversOf(c) = Context!CoversOf(s) \cup X
  <2>1. ASSUME NEW x \in Context!CoversOf(c) PROVE x \in Context!CoversOf(s) \cup X
    <3>1. PICK i \in 1 .. n : x \in c[i].covers
      BY <1>3 DEF Context!CoversOf
    <3>2. CASE i = n
      BY <1>1, <1>2, <1>3, <3>1, <3>2 DEF Context!CoversOf
    <3>3. CASE i # n
      BY <1>1, <1>3, <3>1, <3>3 DEF Context!CoversOf
    <3> QED BY <3>2, <3>3
  <2>2. ASSUME NEW x \in Context!CoversOf(s) PROVE x \in Context!CoversOf(c)
    <3>1. PICK i \in 1 .. n : x \in s[i].covers
      BY <1>1 DEF Context!CoversOf
    <3>2. x \in c[i].covers
      BY <1>2, <1>3, <3>1
    <3> QED BY <1>3, <3>2 DEF Context!CoversOf
  <2>3. ASSUME NEW x \in X PROVE x \in Context!CoversOf(c)
    <3>1. n \in DOMAIN c /\ x \in c[n].covers
      BY <1>1, <1>2, <1>3, <2>3
    <3> QED BY <3>1 DEF Context!CoversOf
  <2> QED BY <2>1, <2>2, <2>3
<1> QED BY <1>3, <1>5, <1>6 DEF n

\* A round that a run makes is one more that it is told of.
LEMMA MadeOneMore ==
  ASSUME NEW n \in Nat
  PROVE  Made(n + 1) = Made(n) \cup {-(n + 1)} /\ -(n + 1) \in Int
<1>1. \A i : i \in 1 .. (n + 1) <=> i \in 1 .. n \/ i = n + 1
  OBVIOUS
<1> QED BY <1>1 DEF Made

LEMMA RoundGoesOn ==
  ASSUME ContextInv, NEW size \in {Context!Small, Context!Large}, NEW injected \in BOOLEAN,
         Context!Round(size, injected)
  PROVE  ContextInv'
<1> DEFINE r == run.rounds
           item == -(r + 1)
           big == IF size = Context!Large THEN 1 ELSE 0
           Grown(u) == [u EXCEPT !.covers = @ \cup {item}, !.size = @ + size, !.big = @ + big]
           s == run.conv
           n == Len(s)
           c == IF injected THEN Append(s, Grown(Context!Unit({}, 0, "run")))
                ELSE [s EXCEPT ![n] = Grown(s[n])]
<1>1. /\ run.pc = "run" /\ UNCHANGED <<turns, stale, rev, active>>
      /\ run' = [run EXCEPT !.pc = "check", !.rounds = r + 1, !.conv = c]
  BY DEF Context!Round, Context!session
<1>2. /\ DOMAIN run = RunFields /\ r \in Nat /\ run.tag \in Nat
      /\ s \in Seq(TextUnit) /\ n >= 1 /\ s[n].kind # "summary"
  BY <1>1 DEF ContextInv, RunTypes
<1>3. size \in Int /\ big \in Int /\ item \in Int
  BY <1>2 DEF Context!Small, Context!Large
<1> HIDE DEF big, item
<1>4. ASSUME NEW u \in TextUnit
      PROVE  /\ Grown(u) \in TextUnit /\ Grown(u).covers = u.covers \cup {item}
             /\ Grown(u).kind = u.kind
  <2>1. /\ u.covers \in SUBSET Int /\ u.size \in Int /\ u.big \in Int
        /\ u.kind \in {"turn", "run", "summary"}
    BY DEF TextUnit
  <2> DEFINE x == u.covers \cup {item}
             y == u.size + size
             z == u.big + big
  <2>2. x \in SUBSET Int /\ y \in Int /\ z \in Int
    BY <1>3, <2>1
  <2>3. Grown(u) = [u EXCEPT !.covers = x, !.size = y, !.big = z]
    OBVIOUS
  <2> HIDE DEF x, y, z, Grown
  <2>4. Grown(u) = [covers |-> x, size |-> y, kind |-> u.kind, big |-> z]
    BY <2>3 DEF TextUnit
  <2>5. Grown(u) \in TextUnit /\ Grown(u).covers = x /\ Grown(u).kind = u.kind
    BY <2>1, <2>2, <2>4 DEF TextUnit
  <2> QED BY <2>5 DEF x
<1> HIDE DEF Grown, s
<1>5. /\ c \in Seq(TextUnit) /\ Len(c) >= 1 /\ c[Len(c)].kind # "summary"
      /\ Context!CoversOf(c) = Context!CoversOf(s) \cup {item}
  <2>1. CASE injected
    <3> DEFINE v == Context!Unit({}, 0, "run")
    <3>1. v \in TextUnit /\ v.covers = {} /\ v.kind = "run"
      BY DEF Context!Unit, TextUnit
    <3> DEFINE w == Grown(v)
    <3>2. w \in TextUnit /\ w.covers = {item} /\ w.kind = "run"
      <4> HIDE DEF v
      <4> QED BY <1>4, <3>1
    <3>3. c = Append(s, w)
      BY <2>1
    <3> HIDE DEF c, w
    <3>4. /\ Append(s, w) \in Seq(TextUnit) /\ Len(Append(s, w)) >= 1
          /\ Append(s, w)[Len(Append(s, w))] = w
          /\ Context!CoversOf(Append(s, w)) = Context!CoversOf(s) \cup w.covers
      BY <1>2, <3>2, UnitsAppend
    <3> QED BY <3>2, <3>3, <3>4
  <2>2. CASE ~injected
    <3> DEFINE w == Grown(s[n])
    <3>1. s[n] \in TextUnit
      BY <1>2, ElementOfSeq, LenProperties
    <3>2. w \in TextUnit /\ w.covers = s[n].covers \cup {item} /\ w.kind = s[n].kind
      BY <1>4, <3>1
    <3>3. c = [s EXCEPT ![Len(s)] = w]
      BY <2>2
    <3> HIDE DEF c, w
    <3>4. Len(s) >= 1 /\ w.covers = s[Len(s)].covers \cup {item}
      BY <1>2, <3>2
    <3> DEFINE X == {item}
    <3>5. /\ c \in Seq(TextUnit) /\ Len(c) = Len(s) /\ c[Len(c)] = w
          /\ Context!CoversOf(c) = Context!CoversOf(s) \cup X
      <4> HIDE DEF X
      <4>1. w.covers = s[Len(s)].covers \cup X
        BY <3>4 DEF X
      <4>2. /\ c \in [1 .. Len(s) -> TextUnit] /\ c[Len(s)] = w
            /\ SameBut(Len(s), s, c)
        <5> DEFINE k == Len(s)
        <5>1. /\ k \in Nat /\ k >= 1 /\ DOMAIN s = 1 .. k
              /\ \A i \in 1 .. k : s[i] \in TextUnit
          BY <1>2, <3>4, ElementOfSeq, LenProperties
        <5>2. c = [s EXCEPT ![k] = w] /\ w \in TextUnit /\ s = [i \in 1 .. k |-> s[i]]
          BY <1>2, <3>2, <3>3
        <5> HIDE DEF k
        <5>3. c = [i \in 1 .. k |-> IF i = k THEN w ELSE s[i]]
          BY <5>1, <5>2
        <5>4. c \in [1 .. k -> TextUnit] /\ c[k] = w /\ \A i \in 1 .. k : i # k => c[i] = s[i]
          BY <5>1, <5>2, <5>3
        <5> QED BY <5>4 DEF k, SameBut
      <4> QED BY <1>2, <3>2, <3>4, <4>1, <4>2, UnitGrows
    <3> QED BY <1>2, <3>2, <3>4, <3>5
  <2> QED BY <2>1, <2>2
<1> HIDE DEF c, n
<1>6. /\ DOMAIN run' = RunFields /\ run'.pc = "check" /\ run'.conv = c /\ run'.rounds = r + 1
      /\ run'.tag = run.tag /\ run'.excl = run.excl /\ run'.raced = run.raced
      /\ run'.lost = run.lost
  BY <1>1, <1>2 DEF RunFields
<1>7. ASSUME ~run'.raced, ~run'.lost
      PROVE  Context!CoversOf(c) = TurnsTo(turns, run.excl) \cup Made(r + 1)
  <2>1. Context!CoversOf(s) = TurnsTo(turns, run.excl) \cup Made(r)
    BY <1>1, <1>6, <1>7 DEF ContextInv, RunIsTold, s
  <2>2. Made(r + 1) = Made(r) \cup {item}
    BY <1>2, MadeOneMore DEF item
  <2> QED BY <1>5, <2>1, <2>2
<1>8. ActiveTypes' /\ ActiveIsExact'
  BY <1>1, SessionStays
<1>9. r + 1 \in Nat
  BY <1>2
<1> HIDE DEF r
<1> QED BY <1>1, <1>2, <1>5, <1>6, <1>7, <1>8, <1>9, RunGoesOn

\* Before the next request a run is told the same, or less of it in words: a
\* summary of the older units covers what they covered.
LEMMA CheckpointKeeps ==
  ASSUME ContextInv, ContextConstants, NEW t, NEW force \in BOOLEAN, Context!Checkpoint(t, force)
  PROVE  ContextInv'
<1> DEFINE s == run.conv
           m == Context!MicroCompact(s)
           k == Context!RecentCount(m, 0, t)
           older == SubSeq(m, 1, Len(m) - k)
           newest == SubSeq(m, Len(m) - k + 1, Len(m))
           before == Context!Estimate(s)
           Fits(c) == ~(Context!Estimate(c) > InputBudget) \/ Context!Estimate(c) <= InputBudget
           Sent(c) == Context!Send(c) /\ UNCHANGED <<turns, stale, rev, active>>
<1>1. run.pc \in {"run", "check"}
  BY DEF Context!Checkpoint
<1>2. /\ s \in Seq(TextUnit) /\ Len(s) >= 1 /\ s[Len(s)].kind # "summary"
      /\ ~run.raced /\ ~run.lost =>
           Context!CoversOf(s) = TurnsTo(turns, run.excl) \cup Made(run.rounds)
  BY <1>1 DEF ContextInv, RunTypes, RunIsTold
<1>3. \/ Context!EndRun /\ UNCHANGED active
      \/ Fits(s) /\ Sent(s)
      \/ Fits(m) /\ Sent(m)
      \/ \E c \in Context!Compactions(older, newest, t) :
           \/ Context!EndRun /\ UNCHANGED active
           \/ /\ Fits(<<Context!SummaryUnit(c[1])>> \o newest)
              /\ Sent(<<Context!SummaryUnit(c[1])>> \o newest)
  <2>1. /\ Context!CheckpointSplit(m, t)[1] = older
        /\ Context!CheckpointSplit(m, t)[2] = newest
    BY DEF Context!CheckpointSplit
  <2>2. \/ Context!Raise(FALSE) \/ Context!Raise(TRUE)
        \/ Fits(s) /\ Sent(s)
        \/ Fits(m) /\ Sent(m)
        \/ \E c \in Context!Compactions(Context!CheckpointSplit(m, t)[1],
                                        Context!CheckpointSplit(m, t)[2], t) :
             Context!Settle(before, <<Context!SummaryUnit(c[1])>> \o Context!CheckpointSplit(m, t)[2],
                            UNCHANGED active)
    BY DEF Context!Checkpoint, Context!session
  <2>3. \/ Context!Raise(FALSE) \/ Context!Raise(TRUE)
        \/ Fits(s) /\ Sent(s)
        \/ Fits(m) /\ Sent(m)
        \/ \E c \in Context!Compactions(older, newest, t) :
             Context!Settle(before, <<Context!SummaryUnit(c[1])>> \o newest, UNCHANGED active)
    BY <2>1, <2>2
  <2> HIDE DEF s, m, older, newest, before
  <2> QED BY <2>3 DEF Context!Settle, Context!Raise, Context!session
<1>4. /\ m \in Seq(TextUnit) /\ Len(m) = Len(s) /\ Context!CoversOf(m) = Context!CoversOf(s)
      /\ \A i \in 1 .. Len(s) : m[i].kind = s[i].kind
  BY <1>2, MicroIs
<1>5. Len(m) >= 1 /\ m[Len(m)].kind # "summary"
  <2>1. Len(s) \in Nat
    BY <1>2, LenProperties
  <2> HIDE DEF s, m
  <2>2. Len(s) \in 1 .. Len(s)
    BY <1>2, <2>1
  <2> QED BY <1>2, <1>4, <2>2
<1>6. k \in 1 .. Len(m)
  <2> HIDE DEF m
  <2> QED BY <1>4, <1>5, RecentIs
<1>7. /\ older \in Seq(TextUnit) /\ newest \in Seq(TextUnit) /\ Len(newest) >= 1
      /\ newest[Len(newest)].kind # "summary"
      /\ Context!CoversOf(m) = Context!CoversOf(older) \cup Context!CoversOf(newest)
  <2> HIDE DEF m, k
  <2>1. /\ older \in Seq(TextUnit) /\ newest \in Seq(TextUnit) /\ Len(newest) = k
        /\ newest[k] = m[Len(m)]
        /\ Context!CoversOf(m) = Context!CoversOf(older) \cup Context!CoversOf(newest)
    BY <1>4, <1>6, UnitsSplit
  <2>2. k >= 1
    BY <1>6
  <2> QED BY <1>5, <2>1, <2>2
<1> HIDE DEF s, m, k, older, newest
<1>8. ASSUME NEW c \in Seq(TextUnit), Len(c) >= 1, c[Len(c)].kind # "summary", Fits(c), Sent(c),
             Context!CoversOf(c) = Context!CoversOf(s)
      PROVE  ContextInv'
  <2>1. Context!Estimate(c) <= InputBudget
    BY <1>8, WithinBudget
  <2>2. Context!Send(c) /\ UNCHANGED <<turns, stale, rev, active>>
    BY <1>8
  <2> QED BY <1>2, <1>8, <2>1, <2>2, SendKeeps
<1> HIDE DEF Fits, Sent
<1>9. CASE Context!EndRun /\ UNCHANGED active
  BY <1>9, EndRunKeeps
<1>10. CASE Fits(s) /\ Sent(s)
  BY <1>2, <1>8, <1>10
<1>11. CASE Fits(m) /\ Sent(m)
  BY <1>4, <1>5, <1>8, <1>11
<1>12. ASSUME NEW c \in Context!Compactions(older, newest, t),
              Fits(<<Context!SummaryUnit(c[1])>> \o newest),
              Sent(<<Context!SummaryUnit(c[1])>> \o newest)
       PROVE  ContextInv'
  <2> DEFINE u == Context!SummaryUnit(c[1])
             d == <<u>> \o newest
  <2>1. u \in TextUnit /\ u.covers = Context!CoversOf(older)
    BY <1>7, CompactionsAre DEF ContextConstants
  <2>2. Fits(d) /\ Sent(d)
    BY <1>12
  <2> HIDE DEF u
  <2>3. /\ d \in Seq(TextUnit) /\ Len(d) >= 1 /\ d[Len(d)] = newest[Len(newest)]
        /\ Context!CoversOf(d) = u.covers \cup Context!CoversOf(newest)
    BY <1>7, <2>1, UnitFirst
  <2> HIDE DEF d
  <2>4. d[Len(d)].kind # "summary" /\ Context!CoversOf(d) = Context!CoversOf(s)
    BY <1>4, <1>7, <2>1, <2>3
  <2> QED BY <1>8, <2>2, <2>3, <2>4
<1> QED BY <1>3, <1>9, <1>10, <1>11, <1>12

LEMMA PauseKeeps ==
  ASSUME ContextInv, Context!Pause
  PROVE  ContextInv'
<1>1. /\ run' = [run EXCEPT !.pc = "paused"] /\ UNCHANGED <<turns, stale, rev, active>>
      /\ run.pc = "run"
  BY DEF Context!Pause, Context!session
<1>2. /\ DOMAIN run = RunFields /\ run.rounds \in Nat /\ run.tag \in Nat
      /\ run.conv \in Seq(TextUnit) /\ Len(run.conv) >= 1
      /\ run.conv[Len(run.conv)].kind # "summary"
      /\ ~run.raced /\ ~run.lost =>
           Context!CoversOf(run.conv) = TurnsTo(turns, run.excl) \cup Made(run.rounds)
  BY <1>1 DEF ContextInv, RunTypes, RunIsTold
<1>3. /\ DOMAIN run' = RunFields /\ run'.pc = "paused" /\ run'.conv = run.conv
      /\ run'.rounds = run.rounds /\ run'.tag = run.tag /\ run'.excl = run.excl
      /\ run'.raced = run.raced /\ run'.lost = run.lost
  BY <1>1, <1>2 DEF RunFields
<1>4. ActiveTypes' /\ ActiveIsExact'
  BY <1>1, SessionStays
<1> QED BY <1>1, <1>2, <1>3, <1>4, RunGoesOn

\* A resumed run whose summary is left out is marked as such.
LEMMA ResumeKeeps ==
  ASSUME ContextInv, Context!Resume
  PROVE  ContextInv'
<1> DEFINE c == Context!Kept(run.conv, LAMBDA u : u.kind # "summary")
<1>1. /\ run' = [run EXCEPT !.pc = "check", !.conv = c, !.lost = @ \/ c # run.conv]
      /\ UNCHANGED <<turns, stale, rev, active>> /\ run.pc = "paused"
  BY DEF Context!Resume, Context!session
<1>2. /\ DOMAIN run = RunFields /\ run.rounds \in Nat /\ run.tag \in Nat
      /\ ~run.raced /\ ~run.lost =>
           Context!CoversOf(run.conv) = TurnsTo(turns, run.excl) \cup Made(run.rounds)
  BY <1>1 DEF ContextInv, RunTypes, RunIsTold
<1>3. c \in Seq(TextUnit) /\ Len(c) >= 1 /\ c[Len(c)].kind # "summary"
  BY <1>1, ResumedIs DEF ContextInv
<1> HIDE DEF c
<1>4. /\ DOMAIN run' = RunFields /\ run'.pc = "check" /\ run'.conv = c
      /\ run'.rounds = run.rounds /\ run'.tag = run.tag /\ run'.excl = run.excl
      /\ run'.raced = run.raced /\ run'.lost = (run.lost \/ c # run.conv)
  BY <1>1, <1>2 DEF RunFields
<1>5. ActiveTypes' /\ ActiveIsExact'
  BY <1>1, SessionStays
<1>6. ~run'.raced /\ ~run'.lost =>
        Context!CoversOf(c) = TurnsTo(turns, run.excl) \cup Made(run.rounds)
  BY <1>2, <1>4
<1> QED BY <1>1, <1>2, <1>3, <1>4, <1>5, <1>6, RunGoesOn

\* The command makes a summary that belongs to no revision of the memory, so
\* no run uses it under one.
LEMMA CompactCommandKeeps ==
  ASSUME ContextInv, ContextConstants, NEW t, NEW f \in BOOLEAN, Context!CompactCommand(t, f)
  PROVE  ContextInv'
<1> DEFINE all == [i \in 1 .. turns |-> Turn(i)]
<1>0. PICK k \in {n \in 1 .. turns : n = 1 \/ n <= RecentTurns} :
        LET o == SubSeq(all, 1, turns - k)
            r == SubSeq(all, turns - k + 1, turns)
        IN  \E c \in Context!Compactions(o, r, t) :
              \/ UNCHANGED active
              \/ active' = [covers |-> c[1].covers, size |-> c[1].size, last |-> turns - k,
                   rev |-> 0, profile |-> profile, policy |-> IF f THEN "focus" ELSE c[2],
                   quality |-> Context!Quality(c[1],
                                 Context!Estimate(<<Context!SummaryUnit(c[1])>> \o r), t),
                   raced |-> FALSE]
  BY DEF Context!CompactCommand, Turn
<1> DEFINE older == SubSeq(all, 1, turns - k)
           rest == SubSeq(all, turns - k + 1, turns)
<1>1. /\ run.pc = "idle" /\ UNCHANGED <<turns, stale, rev, run>>
      /\ \E c \in Context!Compactions(older, rest, t) :
           \/ UNCHANGED active
           \/ active' = [covers |-> c[1].covers, size |-> c[1].size, last |-> turns - k,
                rev |-> 0, profile |-> profile, policy |-> IF f THEN "focus" ELSE c[2],
                quality |-> Context!Quality(c[1],
                              Context!Estimate(<<Context!SummaryUnit(c[1])>> \o rest), t),
                raced |-> FALSE]
  BY <1>0 DEF Context!CompactCommand, Context!session
<1>2. turns \in Nat /\ turns >= 1 /\ rev \in Nat /\ rev >= 1 /\ k \in 1 .. turns
  BY <1>0 DEF ContextInv
<1>3. all \in Seq(TextUnit) /\ Len(all) = turns
  <2>1. \A i \in 1 .. turns : Turn(i) \in TextUnit
    BY TurnIs
  <2>2. all \in [1 .. turns -> TextUnit]
    BY <2>1
  <2> QED BY <1>2, <2>2, SeqDef, LenProperties
<1> HIDE DEF all
<1>4. k \in 1 .. turns
  BY <1>0
<1>5. older \in Seq(TextUnit) /\ turns - k \in Nat /\ turns - k <= turns
  <2>1. SubSeq(all, 1, Len(all) - k) \in Seq(TextUnit)
    BY <1>3, <1>4, UnitsSplit
  <2>2. turns - k \in Nat /\ turns - k <= turns
    BY <1>2, <1>4
  <2> QED BY <1>3, <2>1, <2>2
<1> HIDE DEF older, rest
<1>6. RunTypes' /\ RunReads' /\ RunIsTold' /\ Context!FitsBudget'
  BY <1>1 DEF ContextInv, RunTypes, RunReads, RunIsTold, Context!FitsBudget
<1>7. CASE UNCHANGED active
  <2>1. ActiveTypes' /\ ActiveIsExact'
    BY <1>1, <1>7, SessionStays
  <2> QED BY <1>1, <1>2, <1>6, <2>1 DEF ContextInv
<1>8. ASSUME NEW c \in Context!Compactions(older, rest, t), NEW p, NEW q,
             active' = [covers |-> c[1].covers, size |-> c[1].size, last |-> turns - k,
                        rev |-> 0, profile |-> profile, policy |-> p, quality |-> q,
                        raced |-> FALSE]
      PROVE  ContextInv'
  <2>1. c[1].covers \in SUBSET Int /\ c[1].size \in Int
    BY <1>5, CompactionsAre, CoversAreInts DEF ContextConstants
  <2>2. /\ DOMAIN active' = RecordFields /\ active'.covers = c[1].covers
        /\ active'.size = c[1].size /\ active'.last = turns - k /\ active'.rev = 0
    BY <1>8 DEF RecordFields
  <2>3. ActiveTypes'
    BY <1>1, <1>2, <1>5, <2>1, <2>2 DEF ActiveTypes
  <2>4. ActiveIsExact'
    BY <1>1, <1>2, <2>2 DEF ActiveIsExact
  <2> QED BY <1>1, <1>2, <1>6, <2>3, <2>4 DEF ContextInv
<1> QED BY <1>1, <1>7, <1>8

\* A change of the memory is a new revision: no summary was made under it.
LEMMA MemoryChangeKeeps ==
  ASSUME ContextInv, Context!MemoryChange
  PROVE  ContextInv'
<1>1. rev' = rev + 1 /\ UNCHANGED <<turns, active, run>>
  BY DEF Context!MemoryChange
<1>2. turns \in Nat /\ rev \in Nat /\ rev >= 1
  BY DEF ContextInv
<1>3. rev' \in Nat /\ rev' >= 1 /\ rev < rev'
  BY <1>1, <1>2
<1>4. active.policy = "normal" /\ ~active.raced => active.rev # rev'
  <2>1. active.policy = "normal" /\ ~active.raced => active.rev <= rev
    BY DEF ContextInv, ActiveTypes
  <2> QED BY <1>1, <1>2, <2>1
<1>5. ActiveTypes'
  <2>1. /\ DOMAIN active = RecordFields /\ active.covers \in SUBSET Int /\ active.size \in Int
        /\ active.last \in Nat /\ active.last <= turns /\ active.rev \in Nat
        /\ (active.policy = "normal" /\ ~active.raced => active.rev <= rev)
    BY DEF ContextInv, ActiveTypes
  <2> QED BY <1>1, <1>2, <2>1 DEF ActiveTypes
<1>6. ActiveIsExact'
  BY <1>1, <1>4 DEF ActiveIsExact
<1>7. RunTypes' /\ RunIsTold' /\ Context!FitsBudget'
  BY <1>1 DEF ContextInv, RunTypes, RunIsTold, Context!FitsBudget
<1>8. RunReads'
  <2>1. run.tag \in Nat
    BY DEF ContextInv, RunTypes
  <2> QED BY <1>1, <1>2, <2>1 DEF ContextInv, RunReads
<1> QED BY <1>1, <1>2, <1>3, <1>5, <1>6, <1>7, <1>8 DEF ContextInv

LEMMA ContextStep ==
  ASSUME ContextInv, [Context!Next]_(Context!vars)
  PROVE  ContextInv'
<1>0. ContextConstants
  BY SessionAssumption DEF SessionAssumption, ContextConstants
<1>1. CASE Context!Begin
  BY <1>1, BeginKeeps
<1>2. CASE Context!ReadRevision
  BY <1>2, ReadRevisionKeeps
<1>3. ASSUME NEW t \in Triggers, Context!BuildActive(t) PROVE ContextInv'
  BY <1>0, <1>3, BuildActiveKeeps
<1>4. ASSUME NEW t \in Triggers, Context!BuildFull(t) PROVE ContextInv'
  BY <1>0, <1>4, BuildFullKeeps
<1>5. ASSUME NEW t \in Triggers, Context!BuildCompacted(t) PROVE ContextInv'
  BY <1>0, <1>5, BuildCompactedKeeps
<1>6. ASSUME NEW t \in Triggers, NEW f \in BOOLEAN, Context!Checkpoint(t, f) PROVE ContextInv'
  BY <1>0, <1>6, CheckpointKeeps
<1>7. ASSUME NEW t \in Triggers, NEW f \in BOOLEAN, Context!CompactCommand(t, f)
      PROVE  ContextInv'
  BY <1>0, <1>7, CompactCommandKeeps
<1>8. ASSUME NEW s \in {Context!Small, Context!Large}, NEW mail \in BOOLEAN,
             Context!Round(s, mail)
      PROVE  ContextInv'
  BY <1>8, RoundGoesOn
<1>9. CASE Context!ArtifactFails
  <2>1. Context!EndRun /\ UNCHANGED active
    BY <1>9 DEF Context!ArtifactFails, Context!Raise
  <2> QED BY <2>1, EndRunKeeps
<1>10. CASE Context!Finish
  <2>1. Context!EndRun /\ UNCHANGED active
    BY <1>10 DEF Context!Finish
  <2> QED BY <2>1, EndRunKeeps
<1>11. CASE Context!Pause
  BY <1>11, PauseKeeps
<1>12. CASE Context!Resume
  BY <1>12, ResumeKeeps
<1>13. CASE Context!MemoryChange
  BY <1>13, MemoryChangeKeeps
<1>14. CASE UNCHANGED <<turns, stale, rev, active, run>>
  <2>1. ActiveTypes' /\ ActiveIsExact'
    BY <1>14, SessionStays
  <2>2. RunTypes' /\ RunReads' /\ RunIsTold' /\ Context!FitsBudget'
    BY <1>14 DEF ContextInv, RunTypes, RunReads, RunIsTold, Context!FitsBudget
  <2> QED BY <1>14, <2>1, <2>2 DEF ContextInv
<1>15. CASE Context!SwitchModel
  BY <1>14, <1>15 DEF Context!SwitchModel
<1>16. CASE UNCHANGED Context!vars
  BY <1>14, <1>16 DEF Context!vars
<1> QED BY <1>1, <1>2, <1>3, <1>4, <1>5, <1>6, <1>7, <1>8, <1>9, <1>10, <1>11, <1>12, <1>13,
           <1>15, <1>16 DEF Context!Next

\* Nothing has been said and no summary is stored.
LEMMA ContextBegins ==
  ASSUME Context!Init
  PROVE  ContextInv
<1>1. /\ turns = 0 /\ rev = 1 /\ active = Context!NoRecord /\ run = Context!NoRun
  BY DEF Context!Init
<1>2. /\ DOMAIN active = RecordFields /\ active.covers = {} /\ active.size = 0
      /\ active.last = 0 /\ active.rev = 0 /\ active.policy = "none"
  BY <1>1 DEF Context!NoRecord, RecordFields
<1>3. ActiveTypes /\ ActiveIsExact
  BY <1>1, <1>2 DEF ActiveTypes, ActiveIsExact
<1>4. RunTypes
  BY <1>1, NoRunIs DEF RunTypes
<1>5. RunReads /\ RunIsTold /\ Context!FitsBudget
  BY <1>1, NoRunIs DEF RunReads, RunIsTold, Context!FitsBudget
<1> QED BY <1>1, <1>3, <1>4, <1>5 DEF ContextInv

LEMMA ContextKept ==
  ASSUME ContextInv
  PROVE  Context!FitsBudget /\ Context!ContextIsExact
BY DEF ContextInv, RunIsTold, TurnsTo, Made, Context!ContextIsExact, Context!Visible

LEMMA ContextSafe == Context!Spec => [](Context!FitsBudget /\ Context!ContextIsExact)
<1>1. Context!Init => ContextInv
  BY ContextBegins
<1>2. ContextInv /\ [Context!Next]_(Context!vars) => ContextInv'
  BY ContextStep
<1>3. ContextInv => Context!FitsBudget /\ Context!ContextIsExact
  BY ContextKept
<1> QED BY <1>1, <1>2, <1>3, PTL DEF Context!Spec

\* A request fits the model's input budget, and a run is told of every turn that
\* is not excluded and of every round of its own, in full or through summaries
\* (ContextBudget.build, compact_checkpoint).
THEOREM ContextsAreExact == Spec => []ContextIsExact
<1>1. Init => Context!Init \/ focus # "context"
  BY DEF Init
<1>2. [Next]_vars => [Context!Next]_(Context!vars)
  BY DEF Next, vars, ContextVars, Context!vars
<1>3. focus # "context" /\ [Next]_vars => (focus # "context")'
  BY DEF Next, vars
<1>4. (Context!FitsBudget /\ Context!ContextIsExact) \/ focus # "context" => ContextIsExact
  BY DEF ContextIsExact
<1> QED BY <1>1, <1>2, <1>3, ContextSafe, <1>4, PTL DEF Spec, Context!Spec

=============================================================================
