--------------------------- MODULE RotatingProofs ---------------------------
(***************************************************************************)
(* Proofs about Rotating for any limits, bounds, directories on disk and   *)
(* faults, as long as the numbers fit the width of the pattern: its type   *)
(* and the single flight of cleanups; that the current file is kept, that  *)
(* numbers are never used twice and that the link is sound; and that a     *)
(* cleanup leaves what the limits allow and spares young files.            *)
(***************************************************************************)
EXTENDS Rotating, FiniteSetTheorems, WellFoundedInduction, TLAPS

LEMMA Bounds ==
  /\ MaxNum \in Nat /\ MaxClock \in Nat /\ MaxFaults \in Nat
  /\ Lens \subseteq Nat \ {0} /\ 0 \notin Lens
  /\ \A S \in InitDisks : S \subseteq Nums
  /\ Nil \notin Nums /\ Bad \notin Nums /\ Nil # Bad
  BY LimitsAssumption, WriterAssumption DEF Nums

(* A set of naturals that is not empty has a smallest one. *)
LEMMA SmallestExists ==
  ASSUME NEW T, T \subseteq Nat, T # {}
  PROVE  \E x \in T : \A y \in T : x <= y
  <1>1. \E x \in T : \A y \in T : ~(<<y, x>> \in OpToRel(<, Nat))
    BY WFMin, NatLessThanWellFounded, Zenon
  <1>2. PICK x \in T : \A y \in T : ~(<<y, x>> \in OpToRel(<, Nat))
    BY <1>1
  <1>3. \A y \in T : ~(y < x)
    BY <1>2 DEF OpToRel
  <1> QED BY <1>3

(* A set of numbers that is not empty has a largest one. *)
LEMMA LargestExists ==
  ASSUME NEW S \in SUBSET Nums, S # {}
  PROVE  \E m \in S : \A n \in S : n <= m
  <1> DEFINE T == {MaxNum - n : n \in S}
             Less == OpToRel(<, Nat)
  <1>1. \A n \in S : n \in Nat /\ MaxNum - n \in Nat
    BY Bounds DEF Nums
  <1>2. T \subseteq Nat /\ T # {}
    BY <1>1
  <1>3. PICK x \in T : \A y \in T : <<y, x>> \notin Less
    <2> HIDE DEF T, Less
    <2>1. IsWellFoundedOn(Less, Nat)
      BY NatLessThanWellFounded DEF Less
    <2> QED
      BY <1>2, <2>1, WFMin
  <1>4. \A y \in T : ~(y < x)
    BY <1>2, <1>3 DEF OpToRel
  <1>5. PICK m \in S : x = MaxNum - m
    OBVIOUS
  <1>6. \A n \in S : ~(MaxNum - n < MaxNum - m)
    BY <1>4, <1>5
  <1> QED
    BY <1>1, <1>6, Bounds

(* Names that fit the pattern parse to their numbers, so a restart goes on *)
(* from the largest number found.                                          *)
LEMMA MaxParsedType ==
  ASSUME NEW S \in SUBSET Nums, MaxNum < Wide
  PROVE  /\ MaxParsed(S) \in 0..MaxNum
         /\ \A n \in S : n <= MaxParsed(S)
  <1>1. CASE S = {}
    BY <1>1, Bounds DEF MaxParsed
  <1>2. CASE S # {}
    <2>1. \A n \in S : n \in Nums /\ ParseName(n) = n
      BY Bounds, WidthAssumption DEF ParseName, Lead, Nums
    <2>2. {ParseName(n) : n \in S} = S
      BY <2>1
    <2>3. PICK m \in S : \A n \in S : n <= m
      BY <1>2, LargestExists
    <2>4. Max(S) \in S /\ \A n \in S : Max(S) >= n
      BY <2>1, <2>3 DEF Max, Nums
    <2>5. MaxParsed(S) = Max(S)
      BY <1>2, <2>2 DEF MaxParsed
    <2>6. MaxParsed(S) \in Nums
      BY <2>1, <2>4, <2>5
    <2> QED
      BY <2>1, <2>4, <2>5, <2>6, Bounds DEF Nums
  <1> QED
    BY <1>1, <1>2

LEMMA InitType == Init => TypeOK
  <1> SUFFICES ASSUME Init PROVE TypeOK
    OBVIOUS
  <1>1. clock \in 0..MaxClock /\ latest \in 0..MaxNum /\ num \in 0..MaxNum
    BY Bounds DEF Init
  <1>2. disk \subseteq Nums /\ used \subseteq Nums
    BY Bounds DEF Init
  <1>3. fsize \in [Nums -> Nat] /\ ctime \in [Nums -> Nat] /\ since \in [Nums -> Nat]
    BY DEF Init
  <1>4. w \in Nums \union {Nil, Bad} /\ size \in Nat /\ start \in Nat
    BY DEF Init
  <1>5. /\ pc \in {"idle", "scan", "open", "unlink", "symlink", "spawn", "write"}
        /\ arg \in Lens \union {0}
    BY DEF Init
  <1>6. /\ cpc \in [Nums -> {"none", "spawned", "list", "select", "remove", "partial"}]
        /\ todo \in [Nums -> SUBSET Nums]
    BY DEF Init
  <1>7. faults \in 0..MaxFaults /\ cleaned \in 0..MaxNum
    BY Bounds DEF Init
  <1>8. format \in BOOLEAN /\ single \in BOOLEAN /\ numLost \in BOOLEAN /\ stale \in BOOLEAN
    BY DEF Init
  <1> QED
    BY <1>1, <1>2, <1>3, <1>4, <1>5, <1>6, <1>7, <1>8 DEF TypeOK

LEMMA TypeStep ==
  ASSUME TypeOK, [Next]_vars, MaxNum < Wide,
         pc \in {"unlink", "symlink", "spawn"} => w \in Nums
  PROVE  TypeOK'
  <1> USE Bounds
  <1> USE DEF TypeOK, fs, file, cleaners, history
  <1>1. CASE BeginWrite
    BY <1>1 DEF BeginWrite, RotateFrom
  <1>2. CASE BeginRotate
    BY <1>2 DEF BeginRotate, RotateFrom
  <1>3. CASE Close
    BY <1>3 DEF Close
  <1>4. CASE Scan
    <2>1. num' \in 0..MaxNum
      BY <1>4, MaxParsedType DEF Scan
    <2>2. format' \in BOOLEAN /\ numLost' \in BOOLEAN
      BY <1>4 DEF Scan
    <2>3. faults' \in 0..MaxFaults
      BY <1>4 DEF Scan, Fault
    <2>4. /\ pc' \in {"idle", "scan", "open", "unlink", "symlink", "spawn", "write"}
          /\ arg' \in Lens \union {0}
      BY <1>4 DEF Scan, Return
    <2> QED
      BY <1>4, <2>1, <2>2, <2>3, <2>4 DEF Scan
  <1>5. CASE Open
    <2>1. num' \in 0..MaxNum /\ num' \in Nums
      BY <1>5 DEF Open, Nums
    <2>2. w' \in Nums \union {Nil, Bad}
      BY <1>5, <2>1 DEF Open, FailedWriters
    <2>3. disk' \subseteq Nums /\ used' \subseteq Nums
      BY <1>5, <2>1 DEF Open
    <2>4. fsize' \in [Nums -> Nat] /\ ctime' \in [Nums -> Nat]
      BY <1>5, <2>1 DEF Open
    <2>5. size' \in Nat /\ start' \in Nat
      BY <1>5 DEF Open
    <2>6. faults' \in 0..MaxFaults
      BY <1>5 DEF Open, Fault
    <2>7. /\ pc' \in {"idle", "scan", "open", "unlink", "symlink", "spawn", "write"}
          /\ arg' \in Lens \union {0}
      BY <1>5 DEF Open, Return
    <2> QED
      BY <1>5, <2>1, <2>2, <2>3, <2>4, <2>5, <2>6, <2>7 DEF Open
  <1>6. CASE Unlink
    BY <1>6 DEF Unlink, Fault
  <1>7. CASE Symlink
    <2>1. latest' \in 0..MaxNum /\ faults' \in 0..MaxFaults
      BY <1>7 DEF Symlink, Fault, Nums
    <2>2. stale' \in BOOLEAN
      BY <1>7 DEF Symlink
    <2> QED
      BY <1>7, <2>1, <2>2 DEF Symlink
  <1>8. CASE Spawn
    BY <1>8 DEF Spawn
  <1>9. CASE DoWrite
    BY <1>9 DEF DoWrite, Fault, Return
  <1>10. ASSUME NEW b \in Nums, CleanStart(b) PROVE TypeOK'
    BY <1>10 DEF CleanStart, Gone
  <1>11. ASSUME NEW b \in Nums, CleanList(b) PROVE TypeOK'
    <2>1. faults' \in 0..MaxFaults
      BY <1>11 DEF CleanList, Fault
    <2>2. cpc' \in [Nums -> {"none", "spawned", "list", "select", "remove", "partial"}]
      BY <1>11 DEF CleanList, Gone
    <2>3. todo' \in [Nums -> SUBSET Nums]
      BY <1>11 DEF CleanList, Gone
    <2>4. since' \in [Nums -> Nat]
      BY <1>11 DEF CleanList, Gone
    <2>5. single' \in BOOLEAN
      BY <1>11 DEF CleanList
    <2> QED
      BY <1>11, <2>1, <2>2, <2>3, <2>4, <2>5 DEF CleanList
  <1>12. ASSUME NEW b \in Nums, CleanSelect(b) PROVE TypeOK'
    <2>1. faults' \in 0..MaxFaults
      BY <1>12 DEF CleanSelect, Fault
    <2>2. cpc' \in [Nums -> {"none", "spawned", "list", "select", "remove", "partial"}]
      BY <1>12 DEF CleanSelect, Gone
    <2>3. todo' \in [Nums -> SUBSET Nums]
      BY <1>12 DEF CleanSelect, Gone, FilesToRemove
    <2>4. since' \in [Nums -> Nat]
      BY <1>12 DEF CleanSelect, Gone
    <2>5. single' \in BOOLEAN
      BY <1>12 DEF CleanSelect
    <2> QED
      BY <1>12, <2>1, <2>2, <2>3, <2>4, <2>5 DEF CleanSelect
  <1>13. ASSUME NEW b \in Nums, CleanRemove(b) PROVE TypeOK'
    BY <1>13 DEF CleanRemove, Fault
  <1>14. ASSUME NEW b \in Nums, CleanEnd(b) PROVE TypeOK'
    <2>1. single' \in BOOLEAN
      BY <1>14 DEF CleanEnd
    <2>2. cleaned' \in 0..MaxNum
      BY <1>14 DEF CleanEnd, Nums
    <2>3. cpc' \in [Nums -> {"none", "spawned", "list", "select", "remove", "partial"}]
      BY <1>14 DEF CleanEnd, Gone
    <2>4. todo' \in [Nums -> SUBSET Nums] /\ since' \in [Nums -> Nat]
      BY <1>14 DEF CleanEnd, Gone
    <2> QED
      BY <1>14, <2>1, <2>2, <2>3, <2>4 DEF CleanEnd
  <1>15. CASE Restart
    <2>1. format' \in BOOLEAN /\ single' \in BOOLEAN
      BY <1>15 DEF Restart
    <2>2. faults' \in 0..MaxFaults
      BY <1>15 DEF Restart, Fault
    <2>3. /\ cpc' \in [Nums -> {"none", "spawned", "list", "select", "remove", "partial"}]
          /\ todo' \in [Nums -> SUBSET Nums]
          /\ since' \in [Nums -> Nat]
      BY <1>15 DEF Restart
    <2>4. /\ num' \in 0..MaxNum
          /\ w' \in Nums \union {Nil, Bad}
          /\ size' \in Nat /\ start' \in Nat
      BY <1>15 DEF Restart
    <2>5. /\ pc' \in {"idle", "scan", "open", "unlink", "symlink", "spawn", "write"}
          /\ arg' \in Lens \union {0}
      BY <1>15 DEF Restart
    <2> QED
      BY <1>15, <2>1, <2>2, <2>3, <2>4, <2>5 DEF Restart
  <1>16. CASE Tick
    <2>1. clock' \in 0..MaxClock
      BY <1>16, LimitsAssumption DEF Tick
    <2> QED BY <1>16, <2>1 DEF Tick
  <1>17. CASE UNCHANGED vars
    BY <1>17 DEF vars
  <1> QED
    BY <1>1, <1>2, <1>3, <1>4, <1>5, <1>6, <1>7, <1>8, <1>9, <1>10, <1>11,
       <1>12, <1>13, <1>14, <1>15, <1>16, <1>17 DEF Next, Mutex, Clean

-----------------------------------------------------------------------------
(* Where the holder of the mutex can be. *)
Positions ==
  /\ pc = "scan" => ~format
  /\ pc = "open" => format
  /\ pc \in {"unlink", "symlink", "spawn"} => w \in Nums

(* The file being written is the newest number this File has handed out.   *)
WriterNewest == w \in Nums => format /\ w = num /\ w \in disk

(* Cleanups belong to files opened earlier and pick only older ones.       *)
CleanersPast ==
  \A b \in Nums :
    /\ cpc[b] # "none" => format /\ b <= num /\ b \in used
    /\ cpc[b] # "none" /\ pc \in {"unlink", "symlink", "spawn"} => b # num
    /\ cpc[b] \in {"remove", "partial"} => \A n \in todo[b] : n < b

(* The largest number ever used is still on disk: this is why a restart    *)
(* finds it.                                                               *)
NewestKept ==
  /\ disk \subseteq used
  /\ used # {} => \E m \in disk : \A u \in used : u <= m

(* A File that has scanned the directory knows of every number used.       *)
NumAhead == format /\ ~numLost => \A u \in used : u <= num

(* No cleanup is due to remove what the link names.                        *)
LinkKept ==
  ~stale =>
    /\ latest # 0 => latest \in disk
    /\ latest # 0 => \A b \in Nums : cpc[b] # "none" => b <= latest
    /\ pc \notin {"unlink", "symlink"} /\ w \in Nums => latest \in {0, w}

IInv ==
  /\ TypeOK
  /\ Positions
  /\ WriterNewest
  /\ CleanersPast
  /\ NewestKept
  /\ NumAhead
  /\ LinkKept

LEMMA InitIInv == Init => IInv
  <1> SUFFICES ASSUME Init PROVE IInv
    OBVIOUS
  <1>1. TypeOK
    BY InitType
  <1>2. Positions /\ WriterNewest /\ NumAhead
    BY Bounds DEF Init, Positions, WriterNewest, NumAhead
  <1>3. CleanersPast
    BY DEF Init, CleanersPast
  <1>4. LinkKept
    BY Bounds DEF Init, LinkKept
  <1>5. NewestKept
    BY <1>1, LargestExists DEF Init, NewestKept, TypeOK
  <1> QED
    BY <1>1, <1>2, <1>3, <1>4, <1>5 DEF IInv

(* Steps that leave alone all the invariant speaks of, but for the types.  *)
LEMMA OtherSteps ==
  ASSUME IInv, TypeOK', Positions',
         UNCHANGED <<disk, latest, format, num, w, cpc, todo, used, numLost, stale>>,
         pc' \in {"unlink", "symlink"} <=> pc \in {"unlink", "symlink"},
         pc' = "spawn" => pc = "spawn"
  PROVE  IInv'
  <1>1. WriterNewest' /\ CleanersPast' /\ NewestKept' /\ NumAhead'
    BY DEF IInv, WriterNewest, CleanersPast, NewestKept, NumAhead
  <1>2. LinkKept'
    BY DEF IInv, LinkKept
  <1> QED
    BY <1>1, <1>2 DEF IInv

LEMMA ScanStep ==
  ASSUME IInv, Scan, TypeOK', MaxNum < Wide
  PROVE  IInv'
  <1> USE DEF fs, file, cleaners, history
  <1>1. Positions'
    BY DEF Scan, Return, Positions, IInv
  <1>2. w \notin Nums /\ \A b \in Nums : cpc[b] = "none"
    BY DEF Scan, IInv, Positions, WriterNewest, CleanersPast
  <1>3. WriterNewest' /\ CleanersPast' /\ NewestKept'
    BY <1>2 DEF Scan, IInv, WriterNewest, CleanersPast, NewestKept
  <1>4. NumAhead'
    <2>1. CASE numLost'
      BY <2>1 DEF NumAhead
    <2>2. CASE ~numLost'
      <3>1. num' = MaxParsed(disk) /\ used' = used
        BY <2>2 DEF Scan
      <3>2. \A n \in disk : n <= num'
        BY <3>1, MaxParsedType DEF IInv, TypeOK
      <3>3. num' \in Int /\ used \subseteq Int /\ disk \subseteq Int
        BY Bounds DEF IInv, TypeOK, Nums
      <3> QED
        BY <3>1, <3>2, <3>3 DEF NumAhead, NewestKept, IInv
    <2> QED
      BY <2>1, <2>2
  <1>5. LinkKept'
    BY <1>2 DEF Scan, IInv, LinkKept
  <1> QED
    BY <1>1, <1>3, <1>4, <1>5 DEF IInv

LEMMA OpenStep ==
  ASSUME IInv, Open, TypeOK'
  PROVE  IInv'
  <1> USE DEF fs, file, cleaners, history
  <1>1. /\ format /\ format' = format /\ num' = num + 1 /\ num \in 0..MaxNum
        /\ cpc' = cpc /\ todo' = todo /\ latest' = latest
        /\ numLost' = numLost /\ stale' = stale
    BY DEF Open, IInv, Positions, TypeOK
  <1>2. num' \in Nums
    BY <1>1, Bounds DEF Open, Nums
  <1>3. Positions'
    BY <1>1, <1>2 DEF Open, Return, Positions
  <1>4. CleanersPast'
    BY <1>1 DEF Open, IInv, TypeOK, CleanersPast, Nums
  <1>5. CASE w' \notin Nums
    <2>1. disk' = disk /\ used' = used
      BY <1>5, <1>2 DEF Open
    <2>2. WriterNewest' /\ NewestKept'
      BY <1>5, <2>1 DEF IInv, WriterNewest, NewestKept
    <2>3. NumAhead'
      BY <1>1, <2>1 DEF IInv, NumAhead, TypeOK, Nums
    <2>4. LinkKept'
      BY <1>1, <1>5, <2>1 DEF IInv, LinkKept
    <2> QED
      BY <1>3, <1>4, <2>2, <2>3, <2>4 DEF IInv
  <1>6. CASE w' \in Nums
    <2>1. /\ w' = num' /\ disk' = disk \union {num'} /\ used' = used \union {num'}
          /\ pc' = "unlink"
      BY <1>6, Bounds DEF Open, FailedWriters
    <2>2. WriterNewest'
      BY <1>1, <2>1 DEF WriterNewest
    <2>3. NewestKept'
      <3>1. disk' \subseteq used'
        BY <2>1 DEF IInv, NewestKept
      <3>2. used \subseteq Int /\ num' \in Int
        BY <1>1 DEF IInv, TypeOK, Nums
      <3>3. CASE used = {}
        BY <2>1, <3>1, <3>2, <3>3 DEF NewestKept
      <3>4. CASE used # {}
        <4>1. PICK m \in disk : \A u \in used : u <= m
          BY <3>4 DEF IInv, NewestKept
        <4>2. m \in Int
          BY <3>2 DEF IInv, NewestKept
        <4>3. CASE m <= num'
          BY <2>1, <3>1, <3>2, <4>1, <4>2, <4>3 DEF NewestKept
        <4>4. CASE num' < m
          BY <2>1, <3>1, <3>2, <4>1, <4>2, <4>4 DEF NewestKept
        <4> QED
          BY <3>2, <4>2, <4>3, <4>4
      <3> QED
        BY <3>3, <3>4
    <2>4. NumAhead'
      BY <1>1, <2>1 DEF IInv, NumAhead, TypeOK, Nums
    <2>5. LinkKept'
      BY <1>1, <2>1 DEF IInv, LinkKept
    <2> QED
      BY <1>3, <1>4, <2>2, <2>3, <2>4, <2>5 DEF IInv
  <1> QED
    BY <1>5, <1>6

LEMMA LinkSteps ==
  ASSUME IInv, Unlink \/ Symlink, TypeOK'
  PROVE  IInv'
  <1> USE DEF fs, file, cleaners, history
  <1>1. Positions' /\ WriterNewest' /\ CleanersPast' /\ NewestKept' /\ NumAhead'
    BY DEF Unlink, Symlink, IInv, Positions, WriterNewest, CleanersPast, NewestKept, NumAhead
  <1>2. CASE Unlink
    <2>1. LinkKept'
      BY <1>2 DEF Unlink, IInv, LinkKept
    <2> QED
      BY <1>1, <2>1 DEF IInv
  <1>3. CASE Symlink
    <2>1. w \in Nums /\ w = num /\ w \in disk
      BY <1>3 DEF Symlink, IInv, Positions, WriterNewest
    <2>2. \A b \in Nums : cpc[b] # "none" => b <= w
      BY <2>1 DEF IInv, CleanersPast
    <2>3. LinkKept'
      BY <1>3, <2>1, <2>2 DEF Symlink, IInv, LinkKept
    <2> QED
      BY <1>1, <2>3 DEF IInv
  <1> QED
    BY <1>1, <1>2, <1>3 DEF IInv

LEMMA SpawnStep ==
  ASSUME IInv, Spawn, TypeOK'
  PROVE  IInv'
  <1> USE DEF fs, file, history
  <1>1. w \in Nums /\ w = num /\ w \in disk /\ format /\ w \in used
    BY DEF Spawn, IInv, Positions, WriterNewest, NewestKept
  <1>2. Positions' /\ WriterNewest' /\ NewestKept' /\ NumAhead'
    BY DEF Spawn, IInv, Positions, WriterNewest, NewestKept, NumAhead
  <1>3. \A b \in Nums : cpc'[b] = cpc[b] \/ (b = w /\ cpc'[b] = "spawned")
    BY <1>1 DEF Spawn, IInv, TypeOK
  <1>4. CleanersPast'
    BY <1>1, <1>3 DEF Spawn, IInv, TypeOK, CleanersPast, Nums
  <1>5. LinkKept'
    BY <1>1, <1>3, Bounds DEF Spawn, IInv, LinkKept, TypeOK, Nums
  <1> QED
    BY <1>2, <1>4, <1>5 DEF IInv

(* A step of a cleanup that removes nothing: no cleanup starts, and what   *)
(* is picked is older than the cleanup's own file.                         *)
LEMMA CleanStepFrame ==
  ASSUME IInv, TypeOK', NEW b \in Nums,
         UNCHANGED <<disk, latest, format, num, w, pc, used, numLost, stale>>,
         \A a \in Nums \ {b} : cpc'[a] = cpc[a] /\ todo'[a] = todo[a],
         cpc[b] # "none",
         cpc'[b] \in {"remove", "partial"} => \A n \in todo'[b] : n < b
  PROVE  IInv'
  <1>1. Positions' /\ WriterNewest' /\ NewestKept' /\ NumAhead'
    BY DEF IInv, Positions, WriterNewest, NewestKept, NumAhead
  <1>2. CleanersPast'
    BY DEF IInv, CleanersPast
  <1>3. LinkKept'
    BY DEF IInv, LinkKept
  <1> QED
    BY <1>1, <1>2, <1>3 DEF IInv

(* What is picked for removal is older than the cleanup's file.            *)
LEMMA PickedOlder ==
  ASSUME MaxNum < Wide, NEW b \in Nums, NEW S \in SUBSET Nums
  PROVE  \A n \in FilesToRemove(b, S) : n \in S /\ n < b
  BY Bounds, WidthAssumption DEF FilesToRemove, NameLess, Lead, Nums

LEMMA CleanStep ==
  ASSUME IInv, NEW b \in Nums, TypeOK', MaxNum < Wide,
         CleanStart(b) \/ CleanList(b) \/ CleanSelect(b) \/ CleanEnd(b)
  PROVE  IInv'
  <1> USE DEF fs, file, history
  <1>1. cpc \in [Nums -> {"none", "spawned", "list", "select", "remove", "partial"}]
        /\ todo \in [Nums -> SUBSET Nums]
    BY DEF IInv, TypeOK
  <1>2. \A a \in Nums \ {b} : cpc'[a] = cpc[a] /\ todo'[a] = todo[a]
    BY <1>1 DEF CleanStart, CleanList, CleanSelect, CleanEnd, Gone
  <1>3. cpc[b] # "none"
    BY DEF CleanStart, CleanList, CleanSelect, CleanEnd
  <1>4. cpc'[b] \in {"remove", "partial"} => \A n \in todo'[b] : n < b
    <2>1. CASE CleanSelect(b)
      BY <1>1, <2>1, PickedOlder DEF CleanSelect, Gone
    <2>2. CASE CleanStart(b) \/ CleanList(b) \/ CleanEnd(b)
      BY <1>1, <2>2 DEF CleanStart, CleanList, CleanEnd, Gone
    <2> QED
      BY <2>1, <2>2
  <1>5. UNCHANGED <<disk, latest, format, num, w, pc, used, numLost, stale>>
    BY DEF CleanStart, CleanList, CleanSelect, CleanEnd
  <1> QED
    BY <1>2, <1>3, <1>4, <1>5, CleanStepFrame

LEMMA RemoveStep ==
  ASSUME IInv, NEW b \in Nums, TypeOK', CleanRemove(b)
  PROVE  IInv'
  <1> USE DEF fs, file, history
  <1>1. PICK n \in todo[b] :
          /\ todo' = [todo EXCEPT ![b] = @ \ {n}]
          /\ disk' = disk \ {n} \/ disk' = disk
    BY DEF CleanRemove
  <1>2. /\ cpc[b] \in {"remove", "partial"}
        /\ cpc'[b] \in {"remove", "partial"}
        /\ \A a \in Nums \ {b} : cpc'[a] = cpc[a]
    BY DEF CleanRemove, IInv, TypeOK
  <1>3. n < b /\ b <= num /\ b \in used /\ format /\ n \in Nums
    BY <1>2 DEF IInv, CleanersPast, TypeOK
  <1>4. UNCHANGED <<latest, format, num, w, pc, used, numLost, stale>>
    BY DEF CleanRemove
  <1>5. Positions' /\ NumAhead'
    BY <1>4 DEF IInv, Positions, NumAhead
  <1>6. WriterNewest'
    BY <1>1, <1>3, <1>4 DEF IInv, WriterNewest, Nums
  <1>7. CleanersPast'
    BY <1>1, <1>2, <1>4 DEF IInv, TypeOK, CleanersPast
  <1>8. NewestKept'
    <2>1. PICK m \in disk : \A u \in used : u <= m
      BY <1>3 DEF IInv, NewestKept
    <2>2. m # n
      BY <1>3, <2>1 DEF IInv, TypeOK, Nums
    <2> QED
      BY <1>1, <1>4, <2>1, <2>2 DEF IInv, NewestKept
  <1>9. LinkKept'
    <2>1. latest # 0 /\ ~stale => b <= latest
      BY <1>2 DEF IInv, LinkKept
    <2>2. latest # 0 /\ ~stale => latest # n
      BY <1>3, <2>1 DEF IInv, TypeOK, Nums
    <2> QED
      BY <1>1, <1>2, <1>4, <2>2 DEF IInv, LinkKept
  <1> QED
    BY <1>5, <1>6, <1>7, <1>8, <1>9 DEF IInv

LEMMA RestartStep ==
  ASSUME IInv, Restart, TypeOK'
  PROVE  IInv'
  <1> USE DEF fs, history
  <1>1. w' \notin Nums /\ \A b \in Nums : cpc'[b] = "none"
    BY Bounds DEF Restart
  <1>2. Positions' /\ WriterNewest' /\ CleanersPast' /\ NumAhead'
    BY <1>1 DEF Restart, Positions, WriterNewest, CleanersPast, NumAhead
  <1>3. NewestKept' /\ LinkKept'
    BY <1>1 DEF Restart, IInv, NewestKept, LinkKept
  <1> QED
    BY <1>2, <1>3 DEF IInv

LEMMA CloseStep ==
  ASSUME IInv, Close, TypeOK'
  PROVE  IInv'
  <1> USE DEF fs, cleaners, history
  <1>1. w' \notin Nums
    BY Bounds DEF Close
  <1>2. Positions' /\ WriterNewest' /\ CleanersPast' /\ NewestKept' /\ NumAhead'
    BY <1>1 DEF Close, IInv, Positions, WriterNewest, CleanersPast, NewestKept, NumAhead
  <1>3. LinkKept'
    BY <1>1 DEF Close, IInv, LinkKept
  <1> QED
    BY <1>2, <1>3 DEF IInv

LEMMA NextIInv ==
  ASSUME IInv, [Next]_vars, MaxNum < Wide
  PROVE  IInv'
  <1> USE DEF fs, file, cleaners, history
  <1>1. TypeOK'
    BY TypeStep DEF IInv, Positions
  <1>2. CASE BeginWrite
    <2>1. /\ Positions' /\ (pc' = "spawn" => pc = "spawn")
          /\ pc' \in {"unlink", "symlink"} <=> pc \in {"unlink", "symlink"}
      BY <1>2 DEF BeginWrite, RotateFrom, IInv, Positions
    <2> QED
      BY <1>1, <1>2, <2>1, OtherSteps DEF BeginWrite
  <1>3. CASE BeginRotate
    <2>1. /\ Positions' /\ (pc' = "spawn" => pc = "spawn")
          /\ pc' \in {"unlink", "symlink"} <=> pc \in {"unlink", "symlink"}
      BY <1>3 DEF BeginRotate, RotateFrom, IInv, Positions
    <2> QED
      BY <1>1, <1>3, <2>1, OtherSteps DEF BeginRotate
  <1>4. CASE DoWrite
    <2>1. /\ Positions' /\ (pc' = "spawn" => pc = "spawn")
          /\ pc' \in {"unlink", "symlink"} <=> pc \in {"unlink", "symlink"}
      BY <1>4 DEF DoWrite, Return, IInv, Positions
    <2> QED
      BY <1>1, <1>4, <2>1, OtherSteps DEF DoWrite
  <1>5. CASE Tick
    <2>1. Positions'
      BY <1>5 DEF Tick, IInv, Positions
    <2> QED
      BY <1>1, <1>5, <2>1, OtherSteps DEF Tick
  <1>6. CASE UNCHANGED vars
    <2>1. Positions'
      BY <1>6 DEF vars, IInv, Positions
    <2> QED
      BY <1>1, <1>6, <2>1, OtherSteps DEF vars
  <1>7. CASE Scan \/ Open \/ Unlink \/ Symlink \/ Spawn
    BY <1>1, <1>7, ScanStep, OpenStep, LinkSteps, SpawnStep
  <1>8. ASSUME NEW b \in Nums, Clean(b)
        PROVE  IInv'
    BY <1>1, <1>8, CleanStep, RemoveStep DEF Clean
  <1>9. CASE Restart \/ Close
    BY <1>1, <1>9, RestartStep, CloseStep
  <1> QED
    BY <1>2, <1>3, <1>4, <1>5, <1>6, <1>7, <1>8, <1>9 DEF Next, Mutex

LEMMA Inductive == ASSUME MaxNum < Wide PROVE Spec => []IInv
  <1>1. IInv /\ [Next]_vars => IInv'
    BY NextIInv
  <1> QED
    BY <1>1, InitIInv, PTL DEF Spec

-----------------------------------------------------------------------------
(* Every variable keeps its type. *)
THEOREM TypeCorrect == ASSUME MaxNum < Wide PROVE Spec => []TypeOK
  <1>1. IInv => TypeOK
    BY DEF IInv
  <1> QED
    BY <1>1, Inductive, PTL

(* As long as the numbers fit the width of the pattern, no cleanup removes *)
(* the file being written, whenever it lists, selects and removes.         *)
THEOREM CurrentFileKept == ASSUME MaxNum < Wide PROVE Spec => []CurrentKept
  <1>1. IInv => CurrentKept
    BY DEF IInv, WriterNewest, CurrentKept
  <1> QED
    BY <1>1, Inductive, PTL

(* As long as the numbers fit the width, LATEST never dangles and names    *)
(* the file being written, whatever cleanups run and wherever the process  *)
(* died before.                                                            *)
THEOREM LinkSound == ASSUME MaxNum < Wide PROVE Spec => []LatestSound
  <1>1. IInv => LatestSound
    BY DEF IInv, LinkKept, LatestSound
  <1> QED
    BY <1>1, Inductive, PTL

(* As long as the numbers fit the width, a rotation never opens a number   *)
(* used before, also after restarts and failed opens: the largest number   *)
(* is never removed, so the scan finds it.                                 *)
THEOREM NumbersFresh == ASSUME MaxNum < Wide PROVE Spec => NumbersNeverReused
  <1>1. IInv /\ [Next]_vars =>
          [w' \in Nums /\ w' # w /\ ~numLost => w' \notin used]_vars
    <2> SUFFICES ASSUME IInv, [Next]_vars, w' \in Nums, w' # w, ~numLost
                 PROVE  w' \notin used
      OBVIOUS
    <2>1. CASE Open
      <3>1. w' = num + 1 /\ format
        BY <2>1, Bounds DEF Open, FailedWriters, IInv, Positions
      <3>2. \A u \in used : u <= num
        BY <3>1 DEF IInv, NumAhead
      <3> QED
        BY <3>1, <3>2 DEF IInv, TypeOK, Nums
    <2>2. CASE Close \/ Restart
      BY <2>2, Bounds DEF Close, Restart
    <2>3. w' = w \/ Open \/ Close \/ Restart
      BY DEF Next, Mutex, Clean, BeginWrite, BeginRotate, Scan, Unlink, Symlink, Spawn,
             DoWrite, CleanStart, CleanList, CleanSelect, CleanRemove, CleanEnd, Tick,
             vars, file
    <2> QED
      BY <2>1, <2>2, <2>3
  <1> QED
    BY <1>1, Inductive, PTL DEF Spec, NumbersNeverReused

-----------------------------------------------------------------------------
(* No two cleanups run together, however many rotations start them, and    *)
(* the flag is down when none does.                                        *)
THEOREM SingleFlight == ASSUME MaxNum < Wide PROVE Spec => []SingleCleaner
  <1>1. Init => SingleCleaner
    BY DEF Init, SingleCleaner, Active
  <1>2. IInv /\ SingleCleaner /\ [Next]_vars => SingleCleaner'
    <2> SUFFICES ASSUME IInv, TypeOK, SingleCleaner, [Next]_vars
                 PROVE  SingleCleaner'
      BY DEF IInv
    <2> USE DEF cleaners
    <2>1. CASE UNCHANGED <<single, cpc>>
      BY <2>1 DEF SingleCleaner, Active
    <2>2. CASE Spawn
      <3>1. w \in Nums /\ cpc[w] = "none"
        BY <2>2 DEF Spawn, IInv, Positions, WriterNewest, CleanersPast
      <3> QED
        BY <2>2, <3>1 DEF Spawn, TypeOK, SingleCleaner, Active
    <2>3. CASE Restart
      BY <2>3 DEF Restart, SingleCleaner, Active
    <2>4. ASSUME NEW b \in Nums, Clean(b)
          PROVE  SingleCleaner'
      <3>1. CASE CleanStart(b)
        BY <3>1 DEF CleanStart, Gone, TypeOK, SingleCleaner, Active
      <3>2. CASE CleanList(b)
        BY <3>2 DEF CleanList, Gone, TypeOK, SingleCleaner, Active
      <3>3. CASE CleanSelect(b)
        BY <3>3 DEF CleanSelect, Gone, TypeOK, SingleCleaner, Active
      <3>4. CASE CleanRemove(b)
        BY <3>4 DEF CleanRemove, TypeOK, SingleCleaner, Active
      <3>5. CASE CleanEnd(b)
        BY <3>5 DEF CleanEnd, Gone, TypeOK, SingleCleaner, Active
      <3> QED
        BY <2>4, <3>1, <3>2, <3>3, <3>4, <3>5 DEF Clean
    <2> QED
      BY <2>1, <2>2, <2>3, <2>4 DEF Next, Mutex, BeginWrite, BeginRotate, Scan, Open,
         Unlink, Symlink, DoWrite, Close, Tick, vars
  <1> QED
    BY <1>1, <1>2, Inductive, PTL DEF Spec

-----------------------------------------------------------------------------
(* What the walk over the sizes of files computes. *)

IsTotal(r, h, k) == r = [n \in 0..k |-> IF n = 0 THEN 0 ELSE r[n - 1] + h[n]]

(* The sizes of the files of S, 0 for the others. *)
Only(sizes, S) == [n \in Nums |-> IF n \in S THEN sizes[n] ELSE 0]

LEMMA TotalExists ==
  ASSUME NEW h \in [Nums -> Nat]
  PROVE  \A k \in 0..MaxNum : \E r : IsTotal(r, h, k)
  <1> DEFINE T == {k \in 0..MaxNum : ~ \E r : IsTotal(r, h, k)}
  <1>1. ASSUME T # {} PROVE FALSE
    <2>1. T \subseteq Nat
      BY Bounds
    <2>2. PICK x \in T : \A y \in T : x <= y
      <3> HIDE DEF T
      <3> QED BY <1>1, <2>1, SmallestExists
    <2>3. x \in 0..MaxNum /\ ~ \E r : IsTotal(r, h, x)
      BY <2>2
    <2>4. x # 0
      <3>1. ASSUME x = 0 PROVE IsTotal([n \in 0..0 |-> 0], h, x)
        BY <3>1 DEF IsTotal
      <3> QED BY <2>3, <3>1
    <2>5. x - 1 \in 0..MaxNum /\ ~(x <= x - 1) /\ x \in Nat
      BY <2>3, <2>4, Bounds
    <2>6. PICK r : IsTotal(r, h, x - 1)
      BY <2>2, <2>5
    <2> DEFINE q == [n \in 0..x |-> IF n = x THEN r[x - 1] + h[x] ELSE r[n]]
    <2>7. ASSUME NEW n \in 0..x
          PROVE  q[n] = IF n = 0 THEN 0 ELSE q[n - 1] + h[n]
      <3>1. \A j \in 0..x - 1 : r[j] = IF j = 0 THEN 0 ELSE r[j - 1] + h[j]
        BY <2>6 DEF IsTotal
      <3>2. CASE n = x
        <4>1. q[n] = r[x - 1] + h[x] /\ q[x - 1] = r[x - 1]
          BY <2>4, <2>5, <3>2
        <4> HIDE DEF q
        <4> QED BY <2>4, <3>2, <4>1
      <3>3. CASE n # x
        <4>1. n \in 0..x - 1 /\ n # x /\ (n # 0 => n - 1 \in 0..x /\ n - 1 # x)
          BY <2>5, <3>3
        <4>2. q[n] = r[n] /\ (n # 0 => q[n - 1] = r[n - 1])
          BY <4>1
        <4> HIDE DEF q
        <4> QED BY <3>1, <4>1, <4>2
      <3> QED BY <3>2, <3>3
    <2>8. q = [n \in 0..x |-> q[n]]
      OBVIOUS
    <2> HIDE DEF q
    <2>9. IsTotal(q, h, x)
      BY <2>7, <2>8 DEF IsTotal
    <2> QED BY <2>3, <2>9
  <1> QED BY <1>1

(* Larger sizes make no smaller sums. *)
LEMMA SumsOrdered ==
  ASSUME NEW g \in [Nums -> Nat], NEW h \in [Nums -> Nat], \A n \in Nums : g[n] <= h[n],
         NEW q, NEW r, IsTotal(q, g, MaxNum), IsTotal(r, h, MaxNum)
  PROVE  \A n \in 0..MaxNum : q[n] \in Nat /\ r[n] \in Nat /\ q[n] <= r[n]
  <1> DEFINE T == {n \in 0..MaxNum : ~(q[n] \in Nat /\ r[n] \in Nat /\ q[n] <= r[n])}
  <1>1. ASSUME T # {} PROVE FALSE
    <2>1. T \subseteq Nat
      BY Bounds
    <2>2. PICK x \in T : \A y \in T : x <= y
      <3> HIDE DEF T
      <3> QED BY <1>1, <2>1, SmallestExists
    <2>3. /\ q[x] = IF x = 0 THEN 0 ELSE q[x - 1] + g[x]
          /\ r[x] = IF x = 0 THEN 0 ELSE r[x - 1] + h[x]
      BY <2>2 DEF IsTotal
    <2>4. x # 0
      BY <2>2, <2>3
    <2>5. x - 1 \in 0..MaxNum /\ x \in Nums /\ ~(x <= x - 1)
      BY <2>2, <2>4, Bounds DEF Nums
    <2>6. q[x - 1] \in Nat /\ r[x - 1] \in Nat /\ q[x - 1] <= r[x - 1]
      BY <2>2, <2>5
    <2>7. g[x] \in Nat /\ h[x] \in Nat /\ g[x] <= h[x]
      BY <2>5
    <2>8. q[x] \in Nat /\ r[x] \in Nat /\ q[x] <= r[x]
      BY <2>3, <2>4, <2>6, <2>7
    <2> QED BY <2>2, <2>8
  <1> QED BY <1>1

LEMMA TotalIs ==
  ASSUME NEW z \in [Nums -> Nat], NEW S \in SUBSET Nums
  PROVE  \E r : IsTotal(r, Only(z, S), MaxNum) /\ Total(z, S) = r[MaxNum]
  <1> DEFINE sum == CHOOSE sum : sum = [n \in 0..MaxNum |->
                      IF n = 0 THEN 0 ELSE sum[n - 1] + IF n \in S THEN z[n] ELSE 0]
  <1>1. Total(z, S) = sum[MaxNum]
    BY DEF Total
  <1>2. \A r : IsTotal(r, Only(z, S), MaxNum)
               <=> r = [n \in 0..MaxNum |-> IF n = 0 THEN 0 ELSE r[n - 1] + IF n \in S THEN z[n] ELSE 0]
    <2> TAKE r
    <2>1. \A n \in 0..MaxNum : n # 0 => Only(z, S)[n] = IF n \in S THEN z[n] ELSE 0
      BY Bounds DEF Only, Nums
    <2>2. [n \in 0..MaxNum |-> IF n = 0 THEN 0 ELSE r[n - 1] + Only(z, S)[n]]
          = [n \in 0..MaxNum |-> IF n = 0 THEN 0 ELSE r[n - 1] + IF n \in S THEN z[n] ELSE 0]
      BY <2>1
    <2> QED BY <2>2 DEF IsTotal
  <1>3. Only(z, S) \in [Nums -> Nat]
    BY DEF Only
  <1>4. \E r : IsTotal(r, Only(z, S), MaxNum)
    BY <1>3, TotalExists, Bounds
  <1>5. IsTotal(sum, Only(z, S), MaxNum)
    BY <1>2, <1>4
  <1> QED BY <1>1, <1>5

(* Fewer files that are no larger hold no more. *)
LEMMA TotalOrdered ==
  ASSUME NEW y \in [Nums -> Nat], NEW z \in [Nums -> Nat],
         NEW S \in SUBSET Nums, NEW R \in SUBSET Nums, R \subseteq S, \A n \in R : y[n] <= z[n]
  PROVE  Total(y, R) \in Nat /\ Total(z, S) \in Nat /\ Total(y, R) <= Total(z, S)
  <1>1. /\ Only(y, R) \in [Nums -> Nat] /\ Only(z, S) \in [Nums -> Nat]
        /\ \A n \in Nums : Only(y, R)[n] <= Only(z, S)[n]
    BY DEF Only
  <1>2. PICK q : IsTotal(q, Only(y, R), MaxNum) /\ Total(y, R) = q[MaxNum]
    BY TotalIs
  <1>3. PICK r : IsTotal(r, Only(z, S), MaxNum) /\ Total(z, S) = r[MaxNum]
    BY TotalIs
  <1>4. MaxNum \in 0..MaxNum
    BY Bounds
  <1> QED BY <1>1, <1>2, <1>3, <1>4, SumsOrdered

LEMMA TotalEmpty ==
  ASSUME NEW z \in [Nums -> Nat]
  PROVE  Total(z, {}) = 0
  <1> DEFINE zero == [n \in Nums |-> 0]  none == [n \in 0..MaxNum |-> 0]
  <1>1. zero \in [Nums -> Nat] /\ Only(z, {}) \in [Nums -> Nat]
        /\ \A n \in Nums : Only(z, {})[n] <= zero[n]
    BY DEF Only
  <1>2. IsTotal(none, zero, MaxNum)
    <2>1. \A n \in 0..MaxNum : n # 0 => n - 1 \in 0..MaxNum /\ n \in Nums
      BY Bounds DEF Nums
    <2>2. \A n \in 0..MaxNum : 0 = IF n = 0 THEN 0 ELSE none[n - 1] + zero[n]
      BY <2>1
    <2>3. none = [n \in 0..MaxNum |-> IF n = 0 THEN 0 ELSE none[n - 1] + zero[n]]
      BY <2>2
    <2> QED BY <2>3 DEF IsTotal
  <1>3. PICK r : IsTotal(r, Only(z, {}), MaxNum) /\ Total(z, {}) = r[MaxNum]
    BY TotalIs
  <1>4. MaxNum \in 0..MaxNum /\ none[MaxNum] = 0
    BY Bounds
  <1> HIDE DEF zero, none
  <1>5. r[MaxNum] \in Nat /\ r[MaxNum] <= none[MaxNum]
    BY <1>1, <1>2, <1>3, <1>4, SumsOrdered
  <1> QED BY <1>3, <1>4, <1>5

-----------------------------------------------------------------------------
(* What retention keeps: a cleanup that has picked its files leaves, of    *)
(* the files older than its own, no more than the limits allow, and picks  *)
(* none that is too young.                                                 *)

Before(b) == {n \in disk : n < b}

Fits(sizes, S) ==
  /\ MinAge = 0 /\ MaxTotalFiles # 0 => Cardinality(S) + 1 <= MaxTotalFiles
  /\ MaxTotalSize # 0 => Total(sizes, S) <= MaxTotalSize

(* Files change in the order of their numbers, so the oldest files picked  *)
(* are older than the one the walk stopped at.                             *)
Aged ==
  /\ \A n \in Nums : ctime[n] <= clock
  /\ ~numLost => \A m, n \in used : m <= n => ctime[m] <= ctime[n]

OldPicked ==
  ~numLost /\ MinAge # 0 /\ MaxTotalSize = 0 =>
    \A b \in Nums : cpc[b] \in {"remove", "partial"} =>
      \A n \in todo[b] : since[b] - ctime[n] > MinAge

EnoughPicked ==
  ~numLost => \A b \in Nums :
    /\ cpc[b] \in {"select", "remove", "partial"} => todo[b] \subseteq used
    /\ cpc[b] = "select" => Before(b) \subseteq todo[b]
    /\ cpc[b] = "remove" => Fits(fsize, Before(b) \ todo[b])

(* A cleanup that ran to its end left so many of the files before its own. *)
Retained ==
  ~numLost /\ cleaned # 0 => cleaned \in used /\ Fits(fsize, Before(cleaned))

KeepInv == Aged /\ OldPicked /\ EnoughPicked /\ Retained

(* Fits stays true when files go, or grow that are not among those.        *)
LEMMA FitsKept ==
  ASSUME NEW y \in [Nums -> Nat], NEW z \in [Nums -> Nat],
         NEW S \in SUBSET Nums, NEW R \in SUBSET Nums, R \subseteq S,
         \A n \in R : y[n] = z[n], Fits(z, S)
  PROVE  Fits(y, R)
  <1>1. IsFiniteSet(S) /\ IsFiniteSet(R) /\ Cardinality(R) <= Cardinality(S)
        /\ Cardinality(R) \in Nat /\ Cardinality(S) \in Nat
    <2>1. IsFiniteSet(Nums)
      BY FS_Interval, Bounds DEF Nums
    <2>2. IsFiniteSet(S)
      BY <2>1, FS_Subset
    <2> QED BY <2>2, FS_Subset, FS_CardinalityType
  <1>2. Total(z, S) \in Nat /\ Total(y, R) \in Nat /\ Total(y, R) <= Total(z, S)
    <2>1. \A n \in R : y[n] <= z[n]
      OBVIOUS
    <2> QED BY <2>1, TotalOrdered
  <1>3. MaxTotalFiles \in Nat /\ MaxTotalSize \in Nat
    BY LimitsAssumption
  <1> QED BY <1>1, <1>2, <1>3 DEF Fits

(* The files a cleanup leaves among those it has seen.                     *)
LEMMA SelectionFits ==
  ASSUME MaxNum < Wide, TypeOK, NEW b \in Nums, NEW S \in SUBSET Nums
  PROVE  Fits(fsize, {n \in S : n < b} \ FilesToRemove(b, S))
  <1> DEFINE past == {n \in S : n < b}
             K == past \ FilesToRemove(b, S)
  <1> SUFFICES Fits(fsize, K)
    OBVIOUS
  <1>1. \A m, n \in Nums : NameLess(m, n) <=> m < n
    BY WidthAssumption, Bounds DEF NameLess, Lead, Nums
  <1>2. past = {n \in S : NameLess(n, b)} /\ past \subseteq Nums /\ K \subseteq Nums
    BY <1>1
  <1>3. \A n \in past : n \in FilesToRemove(b, S)
                          <=> \E m \in past : n <= m /\ StopAt(b, past, m)
    <2>1. \A n \in past : n \in FilesToRemove(b, S)
                            <=> \E m \in past : ~NameLess(m, n) /\ StopAt(b, past, m)
      BY <1>2 DEF FilesToRemove
    <2>2. \A m, n \in past : n <= m <=> ~NameLess(m, n)
      BY <1>1, <1>2 DEF Nums
    <2> HIDE DEF past
    <2> QED BY <2>1, <2>2
  <1>4. MaxTotalFiles \in Nat /\ MaxTotalSize \in Nat
    BY LimitsAssumption
  <1>5. CASE K = {}
    <2>1. Cardinality(K) = 0
      BY <1>5, FS_EmptySet
    <2>2. fsize \in [Nums -> Nat]
      BY DEF TypeOK
    <2>3. Total(fsize, {}) = 0
      BY <2>2, TotalEmpty
    <2>4. Total(fsize, K) = 0
      BY <1>5, <2>3
    <2> HIDE DEF K
    <2> QED BY <1>4, <2>1, <2>4 DEF Fits
  <1>6. CASE K # {}
    <2>1. PICK x \in K : \A y \in K : x <= y
      <3>1. K \subseteq Nat
        BY <1>2, Bounds DEF Nums
      <3> HIDE DEF K
      <3> QED BY <1>6, <3>1, SmallestExists
    <2> DEFINE kept == {m \in past : ~NameLess(m, x)}
    <2>2. x \in past /\ ~StopAt(b, past, x)
      <3>1. x \in past /\ x <= x
        BY <1>2, <2>1 DEF Nums
      <3> QED BY <1>3, <2>1, <3>1
    <2>3. K \subseteq kept /\ kept \subseteq Nums
      <3>1. \A y \in K : y \in past /\ x <= y
        BY <2>1
      <3> HIDE DEF K
      <3> QED BY <1>1, <1>2, <2>2, <3>1 DEF Nums
    <2>4. /\ MaxTotalSize # 0 => ~(Total(fsize, kept) > MaxTotalSize)
          /\ MinAge = 0 /\ MaxTotalFiles # 0 => ~(Cardinality(kept) + 1 > MaxTotalFiles)
      <3> HIDE DEF past
      <3> QED BY <2>2 DEF StopAt
    <2>5. Cardinality(K) <= Cardinality(kept) /\ Cardinality(K) \in Nat /\ Cardinality(kept) \in Nat
      <3>1. IsFiniteSet(Nums)
        BY FS_Interval, Bounds DEF Nums
      <3> HIDE DEF K, kept
      <3>2. IsFiniteSet(kept) /\ IsFiniteSet(K)
        BY <2>3, <3>1, FS_Subset
      <3> QED BY <2>3, <3>2, FS_Subset, FS_CardinalityType
    <2>6. Total(fsize, K) \in Nat /\ Total(fsize, kept) \in Nat
          /\ Total(fsize, K) <= Total(fsize, kept)
      <3>1. fsize \in [Nums -> Nat] /\ \A n \in K : fsize[n] <= fsize[n]
        BY <1>2 DEF TypeOK
      <3> HIDE DEF K, kept
      <3> QED BY <1>2, <2>3, <3>1, TotalOrdered
    <2> HIDE DEF K, kept
    <2> QED BY <1>4, <2>4, <2>5, <2>6 DEF Fits
  <1> QED BY <1>5, <1>6

(* With a MinAge and no limit on the size, all that is picked is older.    *)
LEMMA SelectionOld ==
  ASSUME MaxNum < Wide, TypeOK, Aged, ~numLost, MinAge # 0, MaxTotalSize = 0,
         NEW b \in Nums, NEW S \in SUBSET used, NEW n \in FilesToRemove(b, S)
  PROVE  since[b] - ctime[n] > MinAge
  <1> DEFINE past == {k \in S : NameLess(k, b)}
  <1>1. PICK m \in past : ~NameLess(m, n) /\ StopAt(b, past, m)
    BY DEF FilesToRemove
  <1>2. n \in Nums /\ m \in Nums /\ n \in used /\ m \in used
    BY <1>1 DEF FilesToRemove, TypeOK
  <1>3. n <= m
    BY <1>1, <1>2, WidthAssumption, Bounds DEF NameLess, Lead, Nums
  <1>4. ctime[n] <= ctime[m] /\ ctime[n] \in Nat /\ ctime[m] \in Nat /\ since[b] \in Nat
    BY <1>2, <1>3 DEF Aged, TypeOK
  <1>5. since[b] - ctime[m] > MinAge
    <2> HIDE DEF past
    <2> QED BY <1>1 DEF StopAt
  <1> QED BY <1>4, <1>5, LimitsAssumption

LEMMA InitKeepInv == Init => KeepInv
  <1> SUFFICES ASSUME Init PROVE KeepInv
    OBVIOUS
  <1>1. Aged
    <2>1. \A n \in Nums : ctime[n] = 0 /\ clock = 0
      BY DEF Init
    <2>2. used \subseteq Nums
      BY Bounds DEF Init
    <2> QED BY <2>1, <2>2 DEF Aged
  <1>2. OldPicked /\ EnoughPicked /\ Retained
    BY DEF Init, OldPicked, EnoughPicked, Retained
  <1> QED BY <1>1, <1>2 DEF KeepInv

(* Steps that leave alone the files and what cleanups know of them.        *)
LEMMA OtherKeep ==
  ASSUME KeepInv, TypeOK, TypeOK', clock' >= clock, numLost => numLost',
         UNCHANGED <<disk, fsize, ctime, used, cpc, since, todo, cleaned>>
  PROVE  KeepInv'
  <1>1. Aged'
    <2>1. \A n \in Nums : ctime[n] \in Nat /\ clock \in Nat /\ clock' \in Nat
      BY Bounds DEF TypeOK
    <2> QED BY <2>1 DEF KeepInv, Aged
  <1>2. OldPicked'
    BY DEF KeepInv, OldPicked
  <1>3. EnoughPicked'
    BY DEF KeepInv, EnoughPicked, Fits, Before
  <1>4. Retained'
    BY DEF KeepInv, Retained, Fits, Before
  <1> QED BY <1>1, <1>2, <1>3, <1>4 DEF KeepInv

(* A file written or made now is newer than all that cleanups look at, and *)
(* no file before it comes back.                                           *)
LEMMA NewestKeep ==
  ASSUME IInv, KeepInv, TypeOK', NEW x \in Nums,
         ~numLost => (\A u \in used : u <= x),
         ~numLost => (\A b \in Nums : cpc[b] # "none" => b <= x),
         ctime' = ctime \/ ctime' = [ctime EXCEPT ![x] = clock],
         \A n \in Nums \ {x} : fsize'[n] = fsize[n],
         disk' = disk \/ disk' = disk \union {x},
         used' = used \/ (used' = used \union {x} /\ ctime' = [ctime EXCEPT ![x] = clock]),
         UNCHANGED <<clock, cpc, since, todo, numLost, cleaned>>
  PROVE  KeepInv'
  <1>1. TypeOK /\ used \subseteq Nums /\ clock \in Nat /\ x \in Nat
        /\ \A n \in Nums : n \in Nat /\ ctime[n] \in Nat /\ ctime'[n] \in Nat
    <2>1. TypeOK
      BY DEF IInv
    <2>2. used \subseteq Nums /\ clock \in Nat /\ x \in Nat
      BY <2>1, Bounds DEF TypeOK, Nums
    <2>3. \A n \in Nums : n \in Nat /\ ctime[n] \in Nat /\ ctime'[n] \in Nat
      BY <2>1, Bounds DEF TypeOK, Nums
    <2> QED BY <2>1, <2>2, <2>3
  <1>2. \A n \in Nums : ctime'[n] = ctime[n] \/ (n = x /\ ctime'[n] = clock)
    BY <1>1 DEF TypeOK
  <1>3. Aged'
    <2>1. \A n \in Nums : ctime'[n] <= clock'
      BY <1>1, <1>2 DEF KeepInv, Aged
    <2>2. ASSUME ~numLost', NEW m \in used', NEW n \in used', m <= n
          PROVE  ctime'[m] <= ctime'[n]
      <3>1. ~numLost /\ m \in Nums /\ n \in Nums /\ (m \in used \/ m = x) /\ (n \in used \/ n = x)
        BY <1>1, <2>2
      <3>2. CASE n = x /\ ctime'[x] = clock
        BY <2>1, <3>1, <3>2
      <3>3. CASE ctime' = ctime
        <4>1. used' = used \/ ctime'[x] = clock
          BY <1>1 DEF IInv, TypeOK
        <4>2. CASE used' = used
          BY <2>2, <3>1, <3>3, <4>2 DEF KeepInv, Aged
        <4>3. CASE ctime'[x] = clock /\ n # x
          <5>1. m # x
            BY <1>1, <2>2, <3>1, <4>3
          <5> QED BY <2>2, <3>1, <3>3, <4>3, <5>1 DEF KeepInv, Aged
        <4> QED BY <3>2, <4>1, <4>2, <4>3
      <3>4. CASE n # x /\ ctime'[x] = clock
        <4>1. n \in used /\ n <= x
          BY <3>1, <3>4
        <4>2. m # x /\ m \in used
          BY <1>1, <2>2, <3>1, <3>4, <4>1
        <4> QED BY <1>2, <2>2, <3>1, <3>4, <4>1, <4>2 DEF KeepInv, Aged
      <3>5. ctime' = ctime \/ ctime'[x] = clock
        BY <1>1 DEF IInv, TypeOK
      <3> QED BY <3>2, <3>3, <3>4, <3>5
    <2> QED BY <2>1, <2>2 DEF Aged
  <1>4. ASSUME ~numLost, NEW b \in Nums, cpc[b] # "none"
        PROVE  /\ b <= x
               /\ \A n \in Nums : n < b => ctime'[n] = ctime[n] /\ fsize'[n] = fsize[n] /\ n # x
               /\ Before(b)' = Before(b)
    <2>1. b <= x
      BY <1>4
    <2>2. \A n \in Nums : n < b => n # x
      BY <1>1, <2>1
    <2> QED BY <1>2, <2>1, <2>2 DEF Before
  <1>5. OldPicked'
    <2> SUFFICES ASSUME ~numLost, MinAge # 0, MaxTotalSize = 0,
                        NEW b \in Nums, cpc[b] \in {"remove", "partial"}, NEW n \in todo[b]
                 PROVE  since[b] - ctime'[n] > MinAge
      BY DEF OldPicked
    <2>1. n < b /\ n \in Nums
      BY DEF IInv, CleanersPast, TypeOK
    <2>2. ctime'[n] = ctime[n]
      BY <1>4, <2>1
    <2> QED BY <2>2 DEF KeepInv, OldPicked
  <1>6. EnoughPicked'
    <2> SUFFICES ASSUME ~numLost, NEW b \in Nums
                 PROVE  /\ cpc[b] \in {"select", "remove", "partial"} => todo[b] \subseteq used'
                        /\ cpc[b] = "select" => Before(b)' \subseteq todo[b]
                        /\ cpc[b] = "remove" => Fits(fsize', Before(b)' \ todo[b])
      BY DEF EnoughPicked
    <2>1. cpc[b] \in {"select", "remove", "partial"} => todo[b] \subseteq used'
      BY DEF KeepInv, EnoughPicked
    <2>2. cpc[b] = "select" => Before(b)' \subseteq todo[b]
      BY <1>4 DEF KeepInv, EnoughPicked
    <2>3. ASSUME cpc[b] = "remove" PROVE Fits(fsize', Before(b)' \ todo[b])
      <3> DEFINE S == Before(b) \ todo[b]
      <3>1. Fits(fsize, S) /\ S \in SUBSET Nums
        BY <1>1, <2>3 DEF KeepInv, EnoughPicked, Before, TypeOK
      <3>2. \A n \in S : fsize'[n] = fsize[n]
        BY <1>1, <1>4, <2>3 DEF Before, TypeOK
      <3>3. Before(b)' = Before(b)
        BY <1>4, <2>3
      <3> HIDE DEF S
      <3>4. Fits(fsize', S)
        BY <1>1, <3>1, <3>2, FitsKept DEF TypeOK
      <3> QED BY <3>3, <3>4 DEF S
    <2> QED BY <2>1, <2>2, <2>3
  <1>7. Retained'
    <2> SUFFICES ASSUME ~numLost, cleaned # 0
                 PROVE  cleaned \in used' /\ Fits(fsize', Before(cleaned)')
      BY DEF Retained
    <2>1. cleaned \in used /\ Fits(fsize, Before(cleaned)) /\ cleaned \in Nums
      BY <1>1 DEF KeepInv, Retained
    <2>2. \A n \in Nums : n < cleaned => n # x
      BY <1>1, <2>1
    <2>3. Before(cleaned)' = Before(cleaned) /\ Before(cleaned) \in SUBSET Nums
          /\ \A n \in Before(cleaned) : fsize'[n] = fsize[n]
      <3>1. disk \subseteq Nums /\ cleaned' = cleaned
        BY <1>1 DEF TypeOK
      <3>2. \A n \in Before(cleaned) : n \in Nums /\ n # x
        BY <2>2, <3>1 DEF Before
      <3>3. ~(x < cleaned)
        BY <2>2
      <3>4. Before(cleaned)' = Before(cleaned)
        BY <3>1, <3>3 DEF Before
      <3> QED BY <3>1, <3>2, <3>4 DEF Before
    <2>4. Fits(fsize', Before(cleaned))
      BY <1>1, <2>1, <2>3, FitsKept DEF TypeOK
    <2> QED BY <2>1, <2>3, <2>4
  <1> QED BY <1>3, <1>5, <1>6, <1>7 DEF KeepInv

(* Steps of a cleanup that remove nothing.                                 *)
LEMMA CleanKeep ==
  ASSUME MaxNum < Wide, IInv, KeepInv, TypeOK', NEW b \in Nums,
         CleanStart(b) \/ CleanList(b) \/ CleanSelect(b)
  PROVE  KeepInv'
  <1> USE DEF fs, file, history
  <1>1. TypeOK /\ disk \subseteq used /\ used \subseteq Nums
    BY DEF IInv, NewestKept, TypeOK
  <1>2. UNCHANGED <<clock, disk, fsize, ctime, used, numLost, cleaned>>
    BY DEF CleanStart, CleanList, CleanSelect
  <1>3. /\ cpc \in [Nums -> {"none", "spawned", "list", "select", "remove", "partial"}]
        /\ since \in [Nums -> Nat] /\ todo \in [Nums -> SUBSET Nums]
    BY <1>1 DEF TypeOK
  <1>4. \A a \in Nums \ {b} : cpc'[a] = cpc[a] /\ todo'[a] = todo[a] /\ since'[a] = since[a]
    BY <1>3 DEF CleanStart, CleanList, CleanSelect, Gone
  <1>5. \/ cpc'[b] \in {"none", "list"}
        \/ cpc'[b] = "select" /\ todo'[b] = disk
        \/ /\ cpc[b] = "select" /\ cpc'[b] = "remove" /\ since'[b] = since[b]
           /\ todo'[b] = FilesToRemove(b, todo[b])
    BY <1>3 DEF CleanStart, CleanList, CleanSelect, Gone
  <1>6. Before(b)' = Before(b) /\ Before(b) \subseteq disk /\ Before(b) \subseteq Nums
    BY <1>1, <1>2 DEF Before
  <1>7. Aged' /\ Retained'
    BY <1>2 DEF KeepInv, Aged, Retained, Fits, Before
  <1>8. ASSUME ~numLost, cpc[b] = "select"
        PROVE  /\ Before(b) \subseteq todo[b] /\ todo[b] \subseteq used
               /\ FilesToRemove(b, todo[b]) \subseteq todo[b]
    BY <1>3, <1>8 DEF KeepInv, EnoughPicked, FilesToRemove
  <1>9. OldPicked'
    <2> SUFFICES ASSUME ~numLost, MinAge # 0, MaxTotalSize = 0, NEW a \in Nums,
                        cpc'[a] \in {"remove", "partial"}, NEW n \in todo'[a]
                 PROVE  since'[a] - ctime[n] > MinAge
      BY <1>2 DEF OldPicked
    <2>1. CASE a # b
      BY <1>4, <2>1 DEF KeepInv, OldPicked
    <2>2. CASE a = b
      <3>1. cpc[b] = "select" /\ since'[b] = since[b] /\ n \in FilesToRemove(b, todo[b])
        BY <1>5, <2>2
      <3>2. todo[b] \in SUBSET used
        BY <1>8, <3>1
      <3>3. since[b] - ctime[n] > MinAge
        BY <1>1, <3>1, <3>2, SelectionOld DEF KeepInv
      <3> QED BY <2>2, <3>1, <3>3
    <2> QED BY <2>1, <2>2
  <1>10. EnoughPicked'
    <2> SUFFICES ASSUME ~numLost, NEW a \in Nums
                 PROVE  /\ cpc'[a] \in {"select", "remove", "partial"} => todo'[a] \subseteq used
                        /\ cpc'[a] = "select" => Before(a) \subseteq todo'[a]
                        /\ cpc'[a] = "remove" => Fits(fsize, Before(a) \ todo'[a])
      BY <1>2 DEF EnoughPicked, Before
    <2>1. CASE a # b
      BY <1>4, <2>1 DEF KeepInv, EnoughPicked
    <2>2. CASE a = b /\ cpc'[b] \in {"none", "list"}
      BY <2>2
    <2>3. CASE a = b /\ cpc'[b] = "select" /\ todo'[b] = disk
      BY <1>1, <1>6, <2>3
    <2>4. CASE a = b /\ cpc[b] = "select" /\ cpc'[b] = "remove" /\ todo'[b] = FilesToRemove(b, todo[b])
      <3> DEFINE S == {n \in todo[b] : n < b} \ FilesToRemove(b, todo[b])
      <3>1. Fits(fsize, S)
        BY <1>1, <1>3, <2>4, SelectionFits
      <3>2. Before(b) \ todo'[b] \subseteq S /\ S \subseteq Nums
        BY <1>3, <1>8, <2>4 DEF Before
      <3> HIDE DEF S
      <3>3. Fits(fsize, Before(b) \ todo'[b])
        <4>1. fsize \in [Nums -> Nat]
          BY <1>1 DEF TypeOK
        <4> DEFINE R == Before(b) \ todo'[b]
        <4>2. R \in SUBSET Nums /\ R \subseteq S
          BY <3>2
        <4> HIDE DEF R
        <4>3. Fits(fsize, R)
          BY <3>1, <3>2, <4>1, <4>2, FitsKept
        <4> QED BY <4>3 DEF R
      <3> QED BY <1>8, <2>4, <3>3
    <2> QED BY <1>5, <2>1, <2>2, <2>3, <2>4
  <1> QED BY <1>7, <1>9, <1>10 DEF KeepInv

LEMMA RemoveKeep ==
  ASSUME IInv, KeepInv, TypeOK', NEW b \in Nums, CleanRemove(b)
  PROVE  KeepInv'
  <1> USE DEF fs, file, history
  <1>1. TypeOK /\ disk \subseteq Nums /\ fsize \in [Nums -> Nat]
    BY DEF IInv, TypeOK
  <1>2. UNCHANGED <<clock, fsize, ctime, since, used, numLost, cleaned>>
    BY DEF CleanRemove
  <1>3. PICK n \in todo[b] :
          /\ todo' = [todo EXCEPT ![b] = @ \ {n}]
          /\ \/ disk' = disk \ {n} /\ cpc' = cpc
             \/ cpc' = [cpc EXCEPT ![b] = "partial"] /\ disk' = disk
    BY DEF CleanRemove
  <1>4. cpc[b] \in {"remove", "partial"} /\ cpc'[b] \in {"remove", "partial"}
        /\ todo'[b] = todo[b] \ {n} /\ (cpc'[b] = "remove" => cpc[b] = "remove" /\ disk' = disk \ {n})
    BY <1>1, <1>3 DEF CleanRemove, TypeOK
  <1>5. \A a \in Nums \ {b} : cpc'[a] = cpc[a] /\ todo'[a] = todo[a]
    BY <1>1, <1>3 DEF TypeOK
  <1>6. \A a : Before(a)' \subseteq Before(a) /\ Before(a) \subseteq Nums
    BY <1>1, <1>3 DEF Before
  <1>7. \A S, R \in SUBSET Nums : R \subseteq S /\ Fits(fsize, S) => Fits(fsize, R)
    BY <1>1, FitsKept
  <1>8. Aged' /\ OldPicked'
    <2>1. Aged'
      BY <1>2 DEF KeepInv, Aged
    <2>2. \A a \in Nums : todo'[a] \subseteq todo[a]
          /\ (cpc'[a] \in {"remove", "partial"} => cpc[a] \in {"remove", "partial"})
      BY <1>4, <1>5
    <2>3. OldPicked'
      BY <1>2, <2>2 DEF KeepInv, OldPicked
    <2> QED BY <2>1, <2>3
  <1>9. EnoughPicked'
    <2> SUFFICES ASSUME ~numLost, NEW a \in Nums
                 PROVE  /\ cpc'[a] \in {"select", "remove", "partial"} => todo'[a] \subseteq used
                        /\ cpc'[a] = "select" => Before(a)' \subseteq todo'[a]
                        /\ cpc'[a] = "remove" => Fits(fsize, Before(a)' \ todo'[a])
      BY <1>2 DEF EnoughPicked
    <2>1. /\ cpc[a] \in {"select", "remove", "partial"} => todo[a] \subseteq used
          /\ cpc[a] = "select" => Before(a) \subseteq todo[a]
          /\ cpc[a] = "remove" => Fits(fsize, Before(a) \ todo[a])
      BY DEF KeepInv, EnoughPicked
    <2> DEFINE S == Before(a) \ todo[a]
               R == Before(a)' \ todo'[a]
    <2>2. S \in SUBSET Nums /\ R \in SUBSET Nums
      BY <1>6
    <2>3. cpc'[a] = "remove" => R \subseteq S
      BY <1>4, <1>5, <1>6 DEF Before
    <2>4. cpc'[a] = "remove" => cpc[a] = "remove"
      BY <1>4, <1>5
    <2>5. cpc'[a] = "remove" => Fits(fsize, R)
      <3>1. cpc'[a] = "remove" => Fits(fsize, S)
        BY <2>1, <2>4
      <3> HIDE DEF S, R
      <3> QED BY <1>7, <2>2, <2>3, <3>1
    <2>6. CASE a # b
      BY <1>5, <1>6, <2>1, <2>5, <2>6
    <2>7. CASE a = b
      BY <1>4, <2>1, <2>5, <2>7
    <2> QED BY <2>6, <2>7
  <1>10. Retained'
    <2> SUFFICES ASSUME ~numLost, cleaned # 0
                 PROVE  cleaned \in used /\ Fits(fsize, Before(cleaned)')
      BY <1>2 DEF Retained
    <2>1. cleaned \in used /\ Fits(fsize, Before(cleaned))
      BY DEF KeepInv, Retained
    <2> DEFINE S == Before(cleaned)
               R == Before(cleaned)'
    <2>2. S \in SUBSET Nums /\ R \in SUBSET Nums /\ R \subseteq S
      BY <1>2, <1>3, <1>1 DEF Before
    <2>3. Fits(fsize, S)
      BY <2>1
    <2> HIDE DEF S, R
    <2>4. Fits(fsize, R)
      BY <1>7, <2>2, <2>3
    <2> QED BY <2>1, <2>4 DEF R
  <1> QED BY <1>8, <1>9, <1>10 DEF KeepInv

LEMMA EndKeep ==
  ASSUME IInv, KeepInv, TypeOK', NEW b \in Nums, CleanEnd(b)
  PROVE  KeepInv'
  <1> USE DEF fs, file, history
  <1>1. TypeOK /\ b \in used
    BY DEF IInv, CleanersPast, CleanEnd
  <1>2. UNCHANGED <<clock, disk, fsize, ctime, used, numLost>>
    BY DEF CleanEnd
  <1>3. cpc'[b] = "none"
        /\ \A a \in Nums \ {b} : cpc'[a] = cpc[a] /\ todo'[a] = todo[a] /\ since'[a] = since[a]
    BY <1>1 DEF CleanEnd, Gone, TypeOK
  <1>4. Aged' /\ OldPicked' /\ EnoughPicked'
    <2>1. Aged'
      BY <1>2 DEF KeepInv, Aged
    <2>2. OldPicked'
      BY <1>2, <1>3 DEF KeepInv, OldPicked
    <2>3. EnoughPicked'
      BY <1>2, <1>3 DEF KeepInv, EnoughPicked, Before
    <2> QED BY <2>1, <2>2, <2>3
  <1>5. Retained'
    <2>1. CASE cleaned' = cleaned
      BY <1>2, <2>1 DEF KeepInv, Retained, Before
    <2>2. CASE cleaned' = b /\ cpc[b] = "remove" /\ todo[b] = {}
      <3>1. ~numLost => Fits(fsize, Before(b) \ {})
        BY <2>2 DEF KeepInv, EnoughPicked
      <3>2. Before(b) \ {} = Before(b) /\ Before(cleaned)' = Before(b)
        BY <1>2, <2>2 DEF Before
      <3> QED BY <1>1, <1>2, <2>2, <3>1, <3>2 DEF Retained
    <2> QED BY <2>1, <2>2 DEF CleanEnd
  <1> QED BY <1>4, <1>5 DEF KeepInv

LEMMA NextKeepInv ==
  ASSUME MaxNum < Wide, IInv, KeepInv, [Next]_vars, TypeOK'
  PROVE  KeepInv'
  <1> USE DEF fs, file, cleaners, history
  <1>1. TypeOK /\ clock \in Nat
    BY Bounds DEF IInv, TypeOK
  <1>2. CASE BeginWrite \/ BeginRotate \/ Close \/ Unlink \/ Symlink \/ UNCHANGED vars
    <2>1. UNCHANGED <<clock, disk, fsize, ctime, used, cpc, since, todo, cleaned, numLost>>
      BY <1>2 DEF BeginWrite, BeginRotate, Close, Unlink, Symlink, vars
    <2> QED BY <1>1, <2>1, OtherKeep
  <1>3. CASE Scan
    <2>1. UNCHANGED <<clock, disk, fsize, ctime, used, cpc, since, todo, cleaned>>
          /\ (numLost => numLost')
      BY <1>3 DEF Scan
    <2> QED BY <1>1, <2>1, OtherKeep
  <1>4. CASE Tick
    <2>1. UNCHANGED <<disk, fsize, ctime, used, cpc, since, todo, cleaned, numLost>>
          /\ clock' >= clock
      BY <1>1, <1>4, LimitsAssumption DEF Tick
    <2> QED BY <1>1, <2>1, OtherKeep
  <1>5. CASE Open
    <2>1. UNCHANGED <<clock, cpc, since, todo, numLost, cleaned>>
          /\ format /\ num' = num + 1 /\ num \in Nat /\ num' \in Nums
      BY <1>1, <1>5, Bounds DEF Open, IInv, Positions, TypeOK, Nums
    <2>2. CASE disk' = disk /\ fsize' = fsize /\ ctime' = ctime /\ used' = used
      BY <1>1, <2>1, <2>2, OtherKeep
    <2>3. CASE /\ disk' = disk \union {num'} /\ used' = used \union {num'}
               /\ fsize' = [fsize EXCEPT ![num'] = IF num' \in disk THEN @ ELSE 0]
               /\ ctime' = [ctime EXCEPT ![num'] = IF num' \in disk THEN @ ELSE clock]
      <3>1. ~numLost => \A u \in used : u <= num' /\ u # num'
        BY <1>1, <2>1 DEF IInv, NumAhead, TypeOK, Nums
      <3>2. \A b \in Nums : cpc[b] # "none" => b <= num'
        BY <1>1, <2>1 DEF IInv, CleanersPast, TypeOK, Nums
      <3>3. \A n \in Nums \ {num'} : fsize'[n] = fsize[n]
        BY <1>1, <2>3 DEF TypeOK
      <3>4. ~numLost => ctime' = [ctime EXCEPT ![num'] = clock]
        <4>1. ~numLost => num' \notin disk
          BY <3>1 DEF IInv, NewestKept
        <4> QED BY <2>3, <4>1
      <3>5. CASE ~numLost
        BY <2>1, <2>3, <3>1, <3>2, <3>3, <3>4, <3>5, NewestKeep
      <3>6. CASE numLost
        <4>1. \A n \in Nums : ctime'[n] <= clock'
          <5>1. \A n \in Nums : ctime'[n] \in {ctime[n], clock} /\ ctime[n] <= clock
            BY <1>1, <2>3 DEF TypeOK, KeepInv, Aged
          <5> QED BY <1>1, <2>1, <5>1
        <4> QED BY <2>1, <3>6, <4>1 DEF KeepInv, Aged, OldPicked, EnoughPicked, Retained
      <3> QED BY <3>5, <3>6
    <2> QED BY <1>5, <2>2, <2>3 DEF Open
  <1>6. CASE DoWrite
    <2>1. UNCHANGED <<clock, disk, used, cpc, since, todo, numLost, cleaned>>
      BY <1>6 DEF DoWrite
    <2>2. CASE fsize' = fsize /\ ctime' = ctime
      BY <1>1, <2>1, <2>2, OtherKeep
    <2>3. CASE w \in disk /\ ctime' = [ctime EXCEPT ![w] = clock]
               /\ \E n \in 0..arg : fsize' = [fsize EXCEPT ![w] = @ + n]
      <3>1. w \in Nums /\ format /\ w = num
        BY <1>1, <2>3 DEF IInv, WriterNewest, TypeOK
      <3>2. ~numLost => \A u \in used : u <= w
        BY <3>1 DEF IInv, NumAhead
      <3>3. \A b \in Nums : cpc[b] # "none" => b <= w
        BY <3>1 DEF IInv, CleanersPast
      <3>4. \A n \in Nums \ {w} : fsize'[n] = fsize[n]
        BY <1>1, <2>3 DEF TypeOK
      <3> QED BY <2>1, <2>3, <3>1, <3>2, <3>3, <3>4, NewestKeep
    <2> QED BY <1>6, <2>2, <2>3 DEF DoWrite
  <1>7. CASE Spawn
    <2>1. UNCHANGED <<clock, disk, fsize, ctime, used, todo, numLost, cleaned>>
      BY <1>7 DEF Spawn
    <2>2. w \in Nums /\ cpc[w] = "none"
      BY <1>7 DEF Spawn, IInv, Positions, WriterNewest, CleanersPast
    <2>3. \A b \in Nums : cpc'[b] \in {"select", "remove", "partial"}
                            => cpc'[b] = cpc[b] /\ since'[b] = since[b]
      BY <1>1, <1>7, <2>2 DEF Spawn, TypeOK
    <2>4. Aged' /\ Retained'
      BY <2>1 DEF KeepInv, Aged, Retained, Before
    <2>5. OldPicked'
      BY <2>1, <2>3 DEF KeepInv, OldPicked
    <2>6. EnoughPicked'
      BY <2>1, <2>3 DEF KeepInv, EnoughPicked, Before
    <2> QED BY <2>4, <2>5, <2>6 DEF KeepInv
  <1>8. ASSUME NEW b \in Nums, Clean(b) PROVE KeepInv'
    BY <1>8, CleanKeep, RemoveKeep, EndKeep DEF Clean
  <1>9. CASE Restart
    <2>1. UNCHANGED <<clock, disk, fsize, ctime, used, numLost, cleaned>>
          /\ \A b \in Nums : cpc'[b] = "none"
      BY <1>9 DEF Restart
    <2>2. Aged' /\ Retained'
      BY <2>1 DEF KeepInv, Aged, Retained, Before
    <2>3. OldPicked' /\ EnoughPicked'
      BY <2>1 DEF OldPicked, EnoughPicked
    <2> QED BY <2>2, <2>3 DEF KeepInv
  <1> QED BY <1>2, <1>3, <1>4, <1>5, <1>6, <1>7, <1>8, <1>9 DEF Next, Mutex

LEMMA InductiveKeep == ASSUME MaxNum < Wide PROVE Spec => []KeepInv
  <1>1. IInv /\ IInv' /\ KeepInv /\ [Next]_vars => KeepInv'
    <2>1. IInv' => TypeOK'
      BY DEF IInv
    <2> QED BY <2>1, NextKeepInv
  <1> QED BY <1>1, InitKeepInv, Inductive, PTL DEF Spec

(* As long as the numbers fit the width, up to the newest file whose       *)
(* cleanup ran to its end no more files, and without it no more bytes, are *)
(* left than the limits allow, whatever other cleanups, writes, failed     *)
(* removes and restarts come after.                                        *)
THEOREM LimitsKept == ASSUME MaxNum < Wide PROVE Spec => []RetentionKept
  <1>1. IInv /\ KeepInv => RetentionKept
    <2> SUFFICES ASSUME IInv, KeepInv, cleaned # 0, ~numLost
                 PROVE  /\ MinAge = 0 /\ MaxTotalFiles # 0 => Cardinality(CleanedTo) <= MaxTotalFiles
                        /\ MaxTotalSize # 0 => Total(fsize, CleanedTo \ {cleaned}) <= MaxTotalSize
      BY DEF RetentionKept
    <2>1. TypeOK /\ cleaned \in used /\ Fits(fsize, Before(cleaned)) /\ cleaned \in Nums
      BY DEF IInv, KeepInv, Retained, TypeOK
    <2>2. disk \subseteq Nums /\ fsize \in [Nums -> Nat]
      BY <2>1 DEF TypeOK
    <2>3. \A n \in disk : n <= cleaned <=> (n < cleaned \/ n = cleaned)
      BY <2>1, <2>2 DEF Nums
    <2>4. CleanedTo \ {cleaned} = Before(cleaned)
      <3>1. \A n \in disk : n < cleaned => n # cleaned
        BY <2>1, <2>2 DEF Nums
      <3> QED BY <2>3, <3>1 DEF CleanedTo, Before
    <2>5. Cardinality(CleanedTo) <= Cardinality(Before(cleaned)) + 1
          /\ Cardinality(CleanedTo) \in Nat /\ Cardinality(Before(cleaned)) \in Nat
      <3> DEFINE S == Before(cleaned)  R == CleanedTo
      <3>1. IsFiniteSet(Nums) /\ S \subseteq Nums /\ R \subseteq Nums
        <4>1. IsFiniteSet(Nums)
          BY FS_Interval, Bounds DEF Nums
        <4> QED BY <2>2, <4>1 DEF Before, CleanedTo
      <3>2. R \subseteq S \union {cleaned}
        BY <2>4
      <3> HIDE DEF S, R
      <3>3. IsFiniteSet(S) /\ IsFiniteSet(R) /\ IsFiniteSet(S \union {cleaned})
        BY <3>1, FS_Subset, FS_AddElement
      <3>4. Cardinality(S \union {cleaned}) <= Cardinality(S) + 1
        BY <3>3, FS_AddElement, FS_CardinalityType
      <3>5. Cardinality(R) <= Cardinality(S \union {cleaned})
        BY <3>2, <3>3, FS_Subset
      <3>6. Cardinality(R) \in Nat /\ Cardinality(S) \in Nat /\ Cardinality(S \union {cleaned}) \in Nat
        BY <3>3, FS_CardinalityType
      <3>7. Cardinality(R) <= Cardinality(S) + 1
        BY <3>4, <3>5, <3>6
      <3> QED BY <3>6, <3>7 DEF S, R
    <2>6. MaxTotalFiles \in Nat
      BY LimitsAssumption
    <2>7. MinAge = 0 /\ MaxTotalFiles # 0 => Cardinality(Before(cleaned)) + 1 <= MaxTotalFiles
      BY <2>1 DEF Fits
    <2>8. MaxTotalSize # 0 => Total(fsize, Before(cleaned)) <= MaxTotalSize
      BY <2>1 DEF Fits
    <2>9. MinAge = 0 /\ MaxTotalFiles # 0 => Cardinality(CleanedTo) <= MaxTotalFiles
      BY <2>5, <2>6, <2>7
    <2>10. MaxTotalSize # 0 => Total(fsize, CleanedTo \ {cleaned}) <= MaxTotalSize
      BY <2>4, <2>8
    <2> QED BY <2>9, <2>10
  <1> QED BY <1>1, Inductive, InductiveKeep, PTL

(* As long as the numbers fit the width and no size limit asks for it, no  *)
(* cleanup removes a file changed less than MinAge before its rotation,    *)
(* although it looks at the age of one file only.                          *)
THEOREM YoungStay == ASSUME MaxNum < Wide PROVE Spec => YoungKept
  <1>1. IInv /\ KeepInv /\ [Next]_vars =>
          [MinAge # 0 /\ MaxTotalSize = 0 /\ ~numLost =>
             \A n \in disk \ disk' :
               \E b \in Nums : n \in todo[b] /\ since[b] - ctime[n] > MinAge]_vars
    <2> SUFFICES ASSUME IInv, KeepInv, [Next]_vars, MinAge # 0, MaxTotalSize = 0, ~numLost,
                        NEW n \in disk \ disk'
                 PROVE  \E b \in Nums : n \in todo[b] /\ since[b] - ctime[n] > MinAge
      OBVIOUS
    <2>1. PICK b \in Nums : CleanRemove(b)
      BY DEF Next, Mutex, Clean, BeginWrite, BeginRotate, Scan, Open, Unlink, Symlink, Spawn,
             DoWrite, Close, CleanStart, CleanList, CleanSelect, CleanEnd, Restart, Tick,
             vars, fs
    <2>2. n \in todo[b] /\ cpc[b] \in {"remove", "partial"}
      BY <2>1 DEF CleanRemove
    <2>3. since[b] - ctime[n] > MinAge
      BY <2>2 DEF KeepInv, OldPicked
    <2> QED BY <2>2, <2>3
  <1> QED BY <1>1, Inductive, InductiveKeep, PTL DEF Spec, YoungKept

=============================================================================
