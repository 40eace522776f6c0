------------------------------ MODULE Rotating ------------------------------
(***************************************************************************)
(* rotating.File (src/rotating/file.go): a writer that spreads a log over  *)
(* numbered files, moves a LATEST symlink and starts, after every          *)
(* rotation, a goroutine that removes old files.                           *)
(*                                                                         *)
(* A file is its number.  Its name is the number printed with the width of *)
(* the pattern, and both the retention (string order) and the restart      *)
(* (Sscanf) work on names: NameLess and ParseName say what they make of a  *)
(* number that has outgrown the width.                                     *)
(*                                                                         *)
(* File.mu is held from the start of Write, Rotate or Close to its return: *)
(* pc is the position of its holder and "idle" means the mutex is free, so *)
(* one writer stands for any number of them.  The goroutines of removeOld  *)
(* never take the mutex; cpc[b] is the position of the one started by the  *)
(* rotation to file b.                                                     *)
(***************************************************************************)
EXTENDS Integers, FiniteSets, FiniteSetsExt

CONSTANTS
  Lens,           (* lengths of the events written                         *)
  MaxFileSize, MaxFileAge,                  (* when to rotate, 0: never    *)
  MinAge, MaxTotalSize, MaxTotalAge, MaxTotalFiles,  (* what to keep, 0: no limit *)
  TypedNil,       (* OpenFile may return a non-nil writer with an error    *)
  Base, Wide,     (* digits and first number wider than the pattern        *)
  InitDisks,      (* sets of files found on disk at the start              *)
  Ticks,          (* steps of the clock                                    *)
  MaxNum, MaxClock, MaxFaults,   (* bounds: numbers, time, faults          *)
  Nil, Bad        (* a nil writer; a non-nil writer that only fails        *)

Nums == 1..MaxNum

ASSUME LimitsAssumption ==
  /\ {MaxFileSize, MaxFileAge, MinAge, MaxTotalSize, MaxTotalAge} \subseteq Nat
  /\ {MaxTotalFiles, MaxNum, MaxClock, MaxFaults} \subseteq Nat
  /\ Lens \subseteq Nat \ {0} /\ Ticks \subseteq Nat
  /\ TypedNil \in BOOLEAN
  /\ InitDisks \subseteq SUBSET Nums
ASSUME WidthAssumption == Base \in Nat \ {0} /\ Wide \in Nat /\ MaxNum < Wide * Base
ASSUME WriterAssumption == Nil # Bad /\ Nil \notin Nat /\ Bad \notin Nat

VARIABLES
  clock,
  disk, fsize, ctime,     (* files present, their sizes and change times   *)
  latest,                 (* target of the LATEST symlink, 0 when absent   *)
  format, num, w, size, start,   (* fields of File; format: it is set      *)
  pc, arg,                (* holder of mu; length being written, 0: Rotate *)
  single,                 (* removeSingleflight                            *)
  cpc, since, todo,       (* removeOld: position, its now, names to remove *)
  faults,
  used, numLost, stale, cleaned   (* history, see the properties           *)

fs == <<disk, fsize, ctime>>
file == <<format, num, w, size, start>>
cleaners == <<single, cpc, since, todo>>
history == <<used, numLost, stale, cleaned>>
vars == <<clock, fs, latest, file, pc, arg, cleaners, faults, history>>

(* The leading digits of a name that fit the width. *)
Lead(n) == IF n < Wide THEN n ELSE n \div Base

(* String order of the names of a and b (a suffix sorts before a digit). *)
NameLess(a, b) ==
  \/ Lead(a) < Lead(b)
  \/ Lead(a) = Lead(b) /\ a < b

(* Sscanf reads no more digits than the width. *)
ParseName(n) == Lead(n)

(* Mutant: files are counted.                                              *)
MaxParsedCount(S) == Cardinality(S)

MaxParsed(S) == IF S = {} THEN 0 ELSE Max({ParseName(n) : n \in S})

-----------------------------------------------------------------------------
Init ==
  /\ clock = 0
  /\ disk \in InitDisks
  /\ fsize = [n \in Nums |-> IF n \in disk THEN 1 ELSE 0]
  /\ ctime = [n \in Nums |-> 0]
  /\ latest = 0
  /\ format = FALSE /\ num = 0 /\ w = Nil /\ size = 0 /\ start = 0
  /\ pc = "idle" /\ arg = 0
  /\ single = FALSE
  /\ cpc = [n \in Nums |-> "none"]
  /\ since = [n \in Nums |-> 0]
  /\ todo = [n \in Nums |-> {}]
  /\ faults = 0
  /\ used = disk /\ numLost = FALSE /\ stale = FALSE /\ cleaned = 0

Fault == faults < MaxFaults /\ faults' = faults + 1

NeedRotate(len) ==
  \/ w = Nil
  \/ /\ size # 0
     /\ \/ MaxFileSize # 0 /\ size + len > MaxFileSize
        \/ MaxFileAge # 0 /\ clock - start > MaxFileAge

RotateFrom == IF format THEN "open" ELSE "scan"

(* The bound on numbers: no rotation begins that could not open its file. *)
InBound == IF format THEN num < MaxNum ELSE MaxParsed(disk) < MaxNum

(* Write up to the decision whether to rotate. *)
BeginWrite ==
  /\ pc = "idle"
  /\ \E len \in Lens :
       /\ NeedRotate(len) => InBound
       /\ arg' = len
       /\ pc' = IF NeedRotate(len) THEN RotateFrom ELSE "write"
  /\ UNCHANGED <<clock, fs, latest, file, cleaners, faults, history>>

BeginRotate ==
  /\ pc = "idle" /\ InBound
  /\ arg' = 0 /\ pc' = RotateFrom
  /\ UNCHANGED <<clock, fs, latest, file, cleaners, faults, history>>

(* The holder returns to its caller, which releases the mutex. *)
Return == pc' = "idle" /\ arg' = 0

(* The first rotation of a File: the pattern is split, the largest number  *)
(* on disk is found.  A readdir error leaves the format set and num 0.     *)
Scan ==
  /\ pc = "scan"
  /\ format' = TRUE
  /\ \/ /\ num' = MaxParsed(disk)
        /\ pc' = "open"
        /\ UNCHANGED <<arg, faults, numLost>>
     \/ /\ Fault
        /\ num' = 0
        /\ numLost' = TRUE
        /\ Return
  /\ UNCHANGED <<clock, fs, latest, w, size, start, cleaners, used, stale, cleaned>>

(* What OpenFile returns along with an error: File stores it in w before   *)
(* it looks at the error.  The default one, openFile, returns the nil      *)
(* *os.File of os.OpenFile as an io.Writer, which is not nil and only      *)
(* fails; the one tlflag sets, openFileWriter, returns a nil interface.    *)
FailedWriters == IF TypedNil THEN {Nil, Bad} ELSE {Nil}

(* Mutant: size and start are reset before the error is looked at. *)
OpenResets ==
  /\ pc = "open"
  /\ num < MaxNum
  /\ num' = num + 1
  /\ size' = 0 /\ start' = clock
  /\ \/ /\ w' = num'
        /\ disk' = disk \union {num'}
        /\ used' = used \union {num'}
        /\ fsize' = [fsize EXCEPT ![num'] = IF num' \in disk THEN @ ELSE 0]
        /\ ctime' = [ctime EXCEPT ![num'] = IF num' \in disk THEN @ ELSE clock]
        /\ pc' = "unlink"
        /\ UNCHANGED <<arg, faults>>
     \/ /\ Fault
        /\ w' \in FailedWriters
        /\ Return
        /\ UNCHANGED <<fs, used>>
  /\ UNCHANGED <<clock, latest, format, cleaners, numLost, stale, cleaned>>

(* num is consumed, the old writer closed and the new file opened; O_APPEND *)
(* keeps what an existing file holds.                                       *)
Open ==
  /\ pc = "open"
  /\ num < MaxNum
  /\ num' = num + 1
  /\ \/ /\ w' = num'
        /\ disk' = disk \union {num'}
        /\ used' = used \union {num'}
        /\ fsize' = [fsize EXCEPT ![num'] = IF num' \in disk THEN @ ELSE 0]
        /\ ctime' = [ctime EXCEPT ![num'] = IF num' \in disk THEN @ ELSE clock]
        /\ size' = 0 /\ start' = clock
        /\ pc' = "unlink"
        /\ UNCHANGED <<arg, faults>>
     \/ /\ Fault
        /\ w' \in FailedWriters
        /\ Return
        /\ UNCHANGED <<fs, used, size, start>>
  /\ UNCHANGED <<clock, latest, format, cleaners, numLost, stale, cleaned>>

(* remove(link): the error is ignored. *)
Unlink ==
  /\ pc = "unlink"
  /\ \/ latest' = 0 /\ UNCHANGED faults
     \/ Fault /\ UNCHANGED latest
  /\ pc' = "symlink"
  /\ UNCHANGED <<clock, fs, file, arg, cleaners, history>>

(* Mutant: the link is made with the name of the file just closed. *)
SymlinkPrevious ==
  /\ pc = "symlink"
  /\ latest' = IF latest = 0 THEN w - 1 ELSE latest
  /\ stale' = (latest # 0)
  /\ pc' = "spawn"
  /\ UNCHANGED <<clock, fs, file, arg, cleaners, faults, used, numLost, cleaned>>

(* symlink(base, link): fails when the old link is still there; the error  *)
(* is ignored.                                                             *)
Symlink ==
  /\ pc = "symlink"
  /\ \/ latest = 0 /\ latest' = w /\ UNCHANGED <<faults, stale>>
     \/ latest = 0 /\ Fault /\ UNCHANGED <<latest, stale>>
     \/ latest # 0 /\ stale' = TRUE /\ UNCHANGED <<latest, faults>>
  /\ pc' = "spawn"
  /\ UNCHANGED <<clock, fs, file, arg, cleaners, used, numLost, cleaned>>

Limited == MaxTotalSize # 0 \/ MaxTotalAge # 0 \/ MaxTotalFiles # 0

(* The goroutine of removeOld is started for the file just opened. *)
Spawn ==
  /\ pc = "spawn"
  /\ IF Limited
       THEN /\ cpc' = [cpc EXCEPT ![w] = "spawned"]
            /\ since' = [since EXCEPT ![w] = start]
       ELSE UNCHANGED <<cpc, since>>
  /\ pc' = IF arg = 0 THEN "idle" ELSE "write"
  /\ UNCHANGED <<clock, fs, latest, file, arg, single, todo, faults, history>>

(* f.w.Write(p): n bytes are written, all of them unless the call fails.   *)
(* A file removed meanwhile has no name left to account for.               *)
DoWrite ==
  /\ pc = "write"
  /\ \E n \in 0..arg :
       /\ \/ w # Bad /\ n = arg /\ UNCHANGED faults
          \/ w # Bad /\ n < arg /\ Fault
          \/ w = Bad /\ n = 0 /\ UNCHANGED faults
       /\ size' = size + n
       /\ IF w \in disk
            THEN /\ fsize' = [fsize EXCEPT ![w] = @ + n]
                 /\ ctime' = [ctime EXCEPT ![w] = clock]
            ELSE UNCHANGED <<fsize, ctime>>
  /\ Return
  /\ UNCHANGED <<clock, disk, latest, format, num, w, start, cleaners, history>>

Close ==
  /\ pc = "idle"
  /\ w' = Nil
  /\ UNCHANGED <<clock, fs, latest, format, num, size, start, pc, arg, cleaners, faults, history>>

-----------------------------------------------------------------------------
(* The goroutine of b is gone with what it knew. *)
Gone(b) ==
  /\ cpc' = [cpc EXCEPT ![b] = "none"]
  /\ since' = [since EXCEPT ![b] = 0]
  /\ todo' = [todo EXCEPT ![b] = {}]

(* removeSingleflight.Swap(true): the loser leaves, its cleanup is dropped. *)
CleanStart(b) ==
  /\ cpc[b] = "spawned"
  /\ single' = TRUE
  /\ IF single THEN Gone(b)
     ELSE cpc' = [cpc EXCEPT ![b] = "list"] /\ UNCHANGED <<since, todo>>
  /\ UNCHANGED <<clock, fs, latest, file, pc, arg, faults, history>>

(* What the files of S hold together, given the sizes of all files. *)
Total(sizes, S) ==
  LET sum[n \in 0..MaxNum] ==
        IF n = 0 THEN 0 ELSE sum[n - 1] + IF n \in S THEN sizes[n] ELSE 0
  IN sum[MaxNum]

(* Mutants: the current file is not counted; MinAge is not looked at. *)
StopAtUncounted(b, past, n) ==
  LET kept == {m \in past : ~NameLess(m, n)}
  IN MaxTotalFiles # 0 /\ Cardinality(kept) > MaxTotalFiles
StopAtAnyAge(b, past, n) ==
  LET kept == {m \in past : ~NameLess(m, n)}
  IN MaxTotalFiles # 0 /\ Cardinality(kept) + 1 > MaxTotalFiles

(* filesToRemove stops at file n, counting from the newest of past. *)
StopAt(b, past, n) ==
  LET kept == {m \in past : ~NameLess(m, n)}
      age == since[b] - ctime[n]
  IN \/ MaxTotalSize # 0 /\ Total(fsize, kept) > MaxTotalSize
     \/ /\ MinAge = 0 \/ age > MinAge
        /\ \/ MaxTotalAge # 0 /\ age > MaxTotalAge
           \/ MaxTotalFiles # 0 /\ Cardinality(kept) + 1 > MaxTotalFiles

(* Mutants: names equal to base are past; the file the loop stopped at stays. *)
FilesToRemoveBase(b, listed) ==
  LET past == {n \in listed : ~NameLess(b, n)}
  IN {n \in past : \E m \in past : ~NameLess(m, n) /\ StopAt(b, past, m)}
FilesToRemoveBefore(b, listed) ==
  LET past == {n \in listed : NameLess(n, b)}
  IN {n \in past : \E m \in past : NameLess(n, m) /\ StopAt(b, past, m)}

FilesToRemove(b, listed) ==
  LET past == {n \in listed : NameLess(n, b)}
  IN {n \in past : \E m \in past : ~NameLess(m, n) /\ StopAt(b, past, m)}

(* matchingFiles lists the directory; an error ends the cleanup. *)
CleanList(b) ==
  /\ cpc[b] = "list"
  /\ \/ /\ todo' = [todo EXCEPT ![b] = disk]
        /\ cpc' = [cpc EXCEPT ![b] = "select"]
        /\ UNCHANGED <<single, since, faults>>
     \/ Fault /\ Gone(b) /\ single' = FALSE
  /\ UNCHANGED <<clock, fs, latest, file, pc, arg, history>>

(* filesToRemove stats the files and picks the ones to go; a stat error    *)
(* ends the cleanup.                                                       *)
CleanSelect(b) ==
  /\ cpc[b] = "select"
  /\ \/ /\ todo' = [todo EXCEPT ![b] = FilesToRemove(b, @)]
        /\ cpc' = [cpc EXCEPT ![b] = "remove"]
        /\ UNCHANGED <<single, since, faults>>
     \/ Fault /\ Gone(b) /\ single' = FALSE
  /\ UNCHANGED <<clock, fs, latest, file, pc, arg, history>>

(* One remove of the loop, oldest name first; its error is ignored, which  *)
(* history remembers by putting the cleanup on the "partial" path.         *)
CleanRemove(b) ==
  /\ cpc[b] \in {"remove", "partial"}
  /\ \E n \in todo[b] :
       /\ \A m \in todo[b] : ~NameLess(m, n)
       /\ todo' = [todo EXCEPT ![b] = @ \ {n}]
       /\ \/ disk' = disk \ {n} /\ UNCHANGED <<faults, cpc>>
          \/ Fault /\ cpc' = [cpc EXCEPT ![b] = "partial"] /\ UNCHANGED disk
  /\ UNCHANGED <<clock, fsize, ctime, latest, file, pc, arg, single, since, history>>

(* Mutant: a cleanup with an error never returns. *)
CleanEndStuck(b) ==
  /\ cpc[b] = "remove"
  /\ todo[b] = {}
  /\ Gone(b) /\ single' = FALSE
  /\ cleaned' = IF b > cleaned THEN b ELSE cleaned
  /\ UNCHANGED <<clock, fs, latest, file, pc, arg, faults, used, numLost, stale>>

CleanEnd(b) ==
  /\ cpc[b] \in {"remove", "partial"}
  /\ todo[b] = {}
  /\ Gone(b) /\ single' = FALSE
  /\ cleaned' = IF cpc[b] = "remove" /\ b > cleaned THEN b ELSE cleaned
  /\ UNCHANGED <<clock, fs, latest, file, pc, arg, faults, used, numLost, stale>>

-----------------------------------------------------------------------------
(* The process dies at any point and a new File is created. *)
Restart ==
  /\ Fault
  /\ format' = FALSE /\ num' = 0 /\ w' = Nil /\ size' = 0 /\ start' = 0
  /\ pc' = "idle" /\ arg' = 0
  /\ single' = FALSE
  /\ cpc' = [n \in Nums |-> "none"]
  /\ todo' = [n \in Nums |-> {}]
  /\ since' = [n \in Nums |-> 0]
  /\ UNCHANGED <<clock, fs, latest, history>>

Tick ==
  /\ \E d \in Ticks : clock + d <= MaxClock /\ clock' = clock + d
  /\ UNCHANGED <<fs, latest, file, pc, arg, cleaners, faults, history>>

Mutex == Scan \/ Open \/ Unlink \/ Symlink \/ Spawn \/ DoWrite

Clean(b) == CleanStart(b) \/ CleanList(b) \/ CleanSelect(b) \/ CleanRemove(b) \/ CleanEnd(b)

Next ==
  \/ BeginWrite \/ BeginRotate \/ Close
  \/ Mutex
  \/ \E b \in Nums : Clean(b)
  \/ Restart \/ Tick

Spec == Init /\ [][Next]_vars

(* The scheduler runs the holder of the mutex and every cleaner; the        *)
(* program keeps writing.                                                  *)
Fairness ==
  /\ WF_vars(Mutex) /\ WF_vars(BeginWrite)
  /\ \A b \in Nums : WF_vars(Clean(b))

FairSpec == Spec /\ Fairness

-----------------------------------------------------------------------------
TypeOK ==
  /\ clock \in 0..MaxClock
  /\ disk \subseteq Nums
  /\ fsize \in [Nums -> Nat]
  /\ ctime \in [Nums -> Nat]
  /\ latest \in 0..MaxNum
  /\ format \in BOOLEAN
  /\ num \in 0..MaxNum
  /\ w \in Nums \union {Nil, Bad}
  /\ size \in Nat /\ start \in Nat
  /\ pc \in {"idle", "scan", "open", "unlink", "symlink", "spawn", "write"}
  /\ arg \in Lens \union {0}
  /\ single \in BOOLEAN
  /\ cpc \in [Nums -> {"none", "spawned", "list", "select", "remove", "partial"}]
  /\ since \in [Nums -> Nat]
  /\ todo \in [Nums -> SUBSET Nums]
  /\ faults \in 0..MaxFaults
  /\ used \subseteq Nums
  /\ numLost \in BOOLEAN /\ stale \in BOOLEAN
  /\ cleaned \in 0..MaxNum

(* The file being written is never removed under the writer, although the  *)
(* cleanup of an earlier rotation may list the directory at any later time *)
(* (removeOld keeps every name that is not below its own base).            *)
CurrentKept == w \in Nums => w \in disk

(* At most one goroutine is past removeSingleflight, whoever loses the     *)
(* swap does not open it for others.                                       *)
Active(b) == cpc[b] \in {"list", "select", "remove", "partial"}
SingleCleaner ==
  /\ \A a, b \in Nums : Active(a) /\ Active(b) => a = b
  /\ single <=> \E b \in Nums : Active(b)

(* A rotation, also the first one after a crash, opens a number that was   *)
(* never used, so it does not append to an old file: findMaxNum finds the  *)
(* largest number because retention always keeps it.  A failed readdir     *)
(* breaks this (numLost).                                                  *)
NumbersNeverReused ==
  [][w' \in Nums /\ w' # w /\ ~numLost => w' \notin used]_vars

(* Up to the newest file whose cleanup ran to its end, no more than        *)
(* MaxTotalFiles files are left, and without that file no more than        *)
(* MaxTotalSize bytes.  Later files are the ones whose cleanups are still  *)
(* to run, were dropped by the single flight, failed or died.              *)
CleanedTo == {n \in disk : n <= cleaned}
RetentionKept ==
  cleaned # 0 /\ ~numLost =>
    /\ MinAge = 0 /\ MaxTotalFiles # 0 => Cardinality(CleanedTo) <= MaxTotalFiles
    /\ MaxTotalSize # 0 => Total(fsize, CleanedTo \ {cleaned}) <= MaxTotalSize

(* Unless the total size asks for it, no file changed less than MinAge     *)
(* before the rotation that started the cleanup is removed: the loop       *)
(* checks the age of one file only and drops all older names with it.      *)
YoungKept ==
  [][MinAge # 0 /\ MaxTotalSize = 0 /\ ~numLost =>
       \A n \in disk \ disk' :
         \E b \in Nums : n \in todo[b] /\ since[b] - ctime[n] > MinAge]_vars

(* LATEST never dangles, and while the mutex is free it names the file     *)
(* being written or nothing; only a link that could not be removed goes    *)
(* stale.  The order link, then cleanup, is what makes it so.              *)
LatestSound ==
  ~stale => /\ latest # 0 => latest \in disk
            /\ pc = "idle" /\ w \in Nums => latest \in {0, w}

(* Every started cleanup ends, also when it loses the swap or fails.       *)
CleanupEnds == \A b \in Nums : cpc[b] # "none" ~> cpc[b] = "none"

(* While the program keeps writing and opens stop failing, a File that is  *)
(* due to rotate gets a working writer, whichever nil a failed open left   *)
(* in w: once its last file is full each write opens anew (only a crash    *)
(* ends the promise, the new File is due like any new one); and from a nil *)
(* writer it gets there unless it is stranded.  Stranded is the typed nil  *)
(* of the default opener when nothing asks for a rotation, as after a      *)
(* failed first open: size stays 0, Write fails with it from then on and   *)
(* only Rotate or Close ends that.                                         *)
NumbersLeft == IF format THEN num < MaxNum ELSE MaxParsed(disk) < MaxNum
Working == w \in Nums /\ pc \notin {"scan", "open"}
Due == \A len \in Lens : NeedRotate(len)
Stranded == w = Bad /\ ~Due
Fresh == w = Nil /\ size = 0
WriterRecovers ==
  /\ (~Working /\ Due /\ size # 0) ~> (Working \/ ~NumbersLeft \/ Fresh)
  /\ (w = Nil) ~> (Working \/ ~NumbersLeft \/ Stranded)

(* "MaxTotalFiles int // including current": with all cleanups over, no    *)
(* more than MaxTotalFiles files are left.                                 *)
AtMostMaxTotalFiles ==
  pc = "idle" /\ w \in Nums /\ (\A b \in Nums : cpc[b] = "none")
    => Cardinality(disk) <= MaxTotalFiles
=============================================================================
