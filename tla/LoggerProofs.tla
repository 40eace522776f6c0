---------------------------- MODULE LoggerProofs ----------------------------
(***************************************************************************)
(* Proofs about Logger for any threads, labels, bounds and panics: its     *)
(* type, the lock discipline, whole events, the order of spans and stamps, *)
(* and that it implements EventLog.                                        *)
(*                                                                         *)
(* And about its filter, Verbosity, for any threads, texts and keys: the   *)
(* loop over the rules computes what the text means, every answer is the   *)
(* meaning of the text that was in force when the question was asked, and  *)
(* a pattern is run once per filter and key.                               *)
(***************************************************************************)
EXTENDS Logger, Verbosity, Integers, SequenceTheorems, WellFoundedInduction, TLAPS

(* No span starts in the future, so nothing elapsed is negative. *)
StartedPast == \A s \in Spans : started[s] <= clock

(* What the call of a thread is at each position, and that its number (the *)
(* id of a span it starts) is one that was given out.                      *)
CallFits(t) ==
  /\ pc[t] # "ready" => call[t].n \in 1..calls
  /\ pc[t] = "newid" => call[t].kind = "start"
  /\ pc[t] \in {"head", "pairs", "tail"} => call[t].kind \notin {"raw", "labels"}
  /\ pc[t] = "labels" => call[t].kind = "labels"
  /\ pc[t] = "write" => call[t].kind # "labels"
  /\ pc[t] \notin {"ready", "newid"} /\ call[t].kind = "start" => call[t].span # 0

(* What the shared buffer holds for the thread that holds the lock. *)
BufferFits(t) ==
  /\ pc[t] = "pairs" =>
       \E ts, el \in 0..MaxClock : b = << E!Header(call[t], ts, el) >>
  /\ pc[t] = "tail" =>
       \E ts, el \in 0..MaxClock :
         b = << E!Header(call[t], ts, el), E!Pairs(call[t]) >>
  /\ pc[t] = "write" /\ call[t].kind # "raw" =>
       \E ts, el \in 0..MaxClock : b = E!Encode(call[t], ts, el, ls)

IInv ==
  /\ TypeOK
  /\ LockHeld
  /\ StartedPast
  /\ \A t \in Threads : CallFits(t)
  /\ \A t \in Threads : BufferFits(t)

USE BoundsAssumption, KindsAssumption, LabelsAssumption, FreeAssumption

-----------------------------------------------------------------------------
(* Two threads never hold the lock together. *)
LEMMA HolderUnique ==
  ASSUME LockHeld, NEW t \in Threads, NEW u \in Threads,
         pc[t] \in Holding, pc[u] \in Holding
  PROVE  t = u
  BY DEF LockHeld

(* The stamps put into a header are times. *)
LEMMA StampInRange ==
  ASSUME TypeOK, StartedPast, NEW t \in Threads
  PROVE  /\ Stamp(call[t]) \in 0..MaxClock
         /\ Elapsed(call[t]) \in 0..MaxClock
  <1>1. /\ call[t].span \in Spans
        /\ clock \in 0..MaxClock
        /\ started \in [Spans -> 0..MaxClock]
    BY DEF TypeOK, E!Calls
  <1>2. /\ started[call[t].span] \in 0..MaxClock
        /\ started[call[t].span] <= clock
    BY <1>1 DEF StartedPast
  <1> QED
    BY <1>1, <1>2 DEF Stamp, Elapsed

LEMMA InitIInv == Init => IInv
  <1> SUFFICES ASSUME Init PROVE IInv
    OBVIOUS
  <1>1. TypeOK
    <2>1. call \in [Threads -> E!Calls]
      BY DEF Init, NoCall, Spans, E!Calls, E!CallKinds
    <2>2. b \in Seq(Parts) /\ out \in Seq(Seq(Parts))
      BY DEF Init
    <2>3. /\ mu \in Threads \union {Free}
          /\ ls \in LabelSets \union {Torn}
      BY DEF Init
    <2>4. /\ clock \in 0..MaxClock
          /\ calls \in 0..MaxCalls
          /\ started \in [Spans -> 0..MaxClock]
      BY DEF Init
    <2>5. live \subseteq Spans \ {0}
      BY DEF Init
    <2>6. pc \in [Threads -> {"ready", "newid", "lock"} \union Holding]
      BY DEF Init
    <2> QED
      BY <2>1, <2>2, <2>3, <2>4, <2>5, <2>6 DEF TypeOK
  <1>2. LockHeld
    BY DEF Init, LockHeld, Holding
  <1>3. StartedPast
    BY DEF Init, StartedPast
  <1>4. \A t \in Threads : CallFits(t) /\ BufferFits(t)
    BY DEF Init, CallFits, BufferFits
  <1> QED
    BY <1>1, <1>2, <1>3, <1>4 DEF IInv

-----------------------------------------------------------------------------
(* What a step of another thread leaves to thread u: its call, and the     *)
(* buffer and the labels while u holds the lock.                           *)
LEMMA Frame ==
  ASSUME NEW u \in Threads, CallFits(u), BufferFits(u),
         pc'[u] = pc[u], call'[u] = call[u],
         calls \in Nat, calls' \in Nat, calls <= calls',
         pc[u] \in Holding => b' = b /\ ls' = ls
  PROVE  CallFits(u)' /\ BufferFits(u)'
  <1>1. CallFits(u)'
    BY DEF CallFits
  <1>2. CASE pc[u] \in Holding
    BY <1>1, <1>2 DEF BufferFits
  <1>3. CASE pc[u] \notin Holding
    BY <1>1, <1>3 DEF BufferFits, Holding
  <1> QED
    BY <1>2, <1>3

(* A step of t that moves its own pc and changes no call but its own, and  *)
(* the buffer or the labels only under the lock, leaves the others fit.    *)
LEMMA OthersFit ==
  ASSUME IInv, NEW t \in Threads, NEW label, Goto(t, label),
         \A u \in Threads \ {t} : call'[u] = call[u],
         calls' \in Nat, calls <= calls',
         pc[t] \in Holding \/ (b' = b /\ ls' = ls)
  PROVE  \A u \in Threads \ {t} : CallFits(u)' /\ BufferFits(u)'
  <1> SUFFICES ASSUME NEW u \in Threads \ {t}
               PROVE  CallFits(u)' /\ BufferFits(u)'
    OBVIOUS
  <1>1. pc'[u] = pc[u]
    BY DEF Goto, IInv, TypeOK
  <1>2. pc[u] \in Holding => b' = b /\ ls' = ls
    BY HolderUnique DEF IInv
  <1>3. calls \in Nat
    BY DEF IInv, TypeOK
  <1> QED
    BY <1>1, <1>2, <1>3, Frame DEF IInv

(* LockHeld is kept by steps that leave t on the same side of the lock.    *)
LEMMA LockSame ==
  ASSUME IInv, NEW t \in Threads, NEW label, Goto(t, label), mu' = mu,
         pc[t] \in Holding <=> label \in Holding
  PROVE  LockHeld'
  BY DEF IInv, TypeOK, LockHeld, Goto

LEMMA BeginStep ==
  ASSUME IInv, NEW t \in Threads, Begin(t)
  PROVE  IInv'
  <1>1. PICK kind \in Kinds, s \in Spans, l \in LabelSets :
          Call(t, kind, s, l)
    BY DEF Begin, IInv, TypeOK, E!Calls, Spans
  <1>2. TypeOK'
    <2>1. calls + 1 \in 1..MaxCalls
      BY <1>1 DEF Call, IInv, TypeOK
    <2>2. call' \in [Threads -> E!Calls]
      BY <1>1, <2>1 DEF Call, IInv, TypeOK, E!Calls, E!CallKinds, Spans
    <2>3. pc' \in [Threads -> {"ready", "newid", "lock"} \union Holding]
      BY <1>1 DEF Call, Goto, IInv, TypeOK
    <2> QED
      BY <1>1, <2>1, <2>2, <2>3 DEF Call, IInv, TypeOK
  <1>3. LockHeld'
    BY <1>1, LockSame DEF Call, Holding
  <1>4. StartedPast'
    BY <1>1 DEF Call, IInv, StartedPast
  <1>5. CallFits(t)' /\ BufferFits(t)'
    BY <1>1 DEF Call, Goto, CallFits, BufferFits, IInv, TypeOK
  <1>6. \A u \in Threads \ {t} : CallFits(u)' /\ BufferFits(u)'
    BY <1>1, OthersFit DEF Call, IInv, TypeOK
  <1> QED
    BY <1>2, <1>3, <1>4, <1>5, <1>6 DEF IInv

LEMMA NewSpanStep ==
  ASSUME IInv, NEW t \in Threads, NewSpan(t)
  PROVE  IInv'
  <1>1. /\ call[t].n \in 1..calls /\ call[t].n \in Spans
        /\ call[t].kind = "start"
    BY DEF NewSpan, IInv, CallFits, TypeOK, Spans
  <1>2. TypeOK'
    <2>1. call' \in [Threads -> E!Calls]
      BY <1>1 DEF NewSpan, IInv, TypeOK, E!Calls, E!Named
    <2>2. started' \in [Spans -> 0..MaxClock]
      BY <1>1 DEF NewSpan, IInv, TypeOK
    <2>3. pc' \in [Threads -> {"ready", "newid", "lock"} \union Holding]
      BY DEF NewSpan, Goto, IInv, TypeOK
    <2> QED
      BY <2>1, <2>2, <2>3 DEF NewSpan, IInv, TypeOK
  <1>3. LockHeld'
    BY LockSame DEF NewSpan, Holding
  <1>4. StartedPast'
    BY <1>1 DEF NewSpan, IInv, TypeOK, StartedPast, Spans
  <1>5. CallFits(t)' /\ BufferFits(t)'
    BY <1>1 DEF NewSpan, Goto, CallFits, BufferFits, IInv, TypeOK, E!Calls, E!Named
  <1>6. \A u \in Threads \ {t} : CallFits(u)' /\ BufferFits(u)'
    BY OthersFit DEF NewSpan, IInv, TypeOK
  <1> QED
    BY <1>2, <1>3, <1>4, <1>5, <1>6 DEF IInv

LEMMA LockStep ==
  ASSUME IInv, NEW t \in Threads, Lock(t)
  PROVE  IInv'
  <1> DEFINE label == CASE call[t].kind = "raw" -> "write"
                        [] call[t].kind = "labels" -> "labels"
                        [] OTHER -> "head"
  <1>1. label \in {"write", "labels", "head"} /\ Goto(t, label)
    BY DEF Lock
  <1>2. TypeOK'
    <2>1. pc' \in [Threads -> {"ready", "newid", "lock"} \union Holding]
      BY <1>1 DEF Goto, Holding, IInv, TypeOK
    <2> QED
      BY <2>1 DEF Lock, env, IInv, TypeOK
  <1>3. LockHeld'
    BY <1>1 DEF Lock, IInv, TypeOK, LockHeld, Goto, Holding
  <1>4. StartedPast'
    BY DEF Lock, env, IInv, StartedPast
  <1>5. CallFits(t)' /\ BufferFits(t)'
    BY DEF Lock, env, Goto, CallFits, BufferFits, IInv, TypeOK
  <1>6. \A u \in Threads \ {t} : CallFits(u)' /\ BufferFits(u)'
    BY <1>1, OthersFit DEF Lock, env, IInv, TypeOK
  <1> QED
    BY <1>2, <1>3, <1>4, <1>5, <1>6 DEF IInv

(* Tuples of parts put together, as sequences. *)
LEMMA AppendOne ==
  ASSUME NEW S, NEW x \in S, NEW y \in S
  PROVE  Append(<< x >>, y) = << x, y >>
  <1> DEFINE s == Append(<< x >>, y)
             t == << x, y >>
  <1>1. s \in Seq(S) /\ t \in Seq(S) /\ Len(s) = 2 /\ Len(t) = 2
    OBVIOUS
  <1>2. s[1] = t[1] /\ s[2] = t[2]
    OBVIOUS
  <1>3. \A i \in 1..Len(s) : s[i] = t[i]
    BY <1>1, <1>2
  <1> HIDE DEF s, t
  <1>4. s = t
    BY <1>1, <1>3, SeqEqual
  <1> QED
    BY <1>4 DEF s, t

LEMMA ConcatTwo ==
  ASSUME NEW S, NEW x \in S, NEW y \in S, NEW z \in S, NEW v \in S
  PROVE  << x, y >> \o << z, v >> = << x, y, z, v >>
  <1> DEFINE s == << x, y >> \o << z, v >>
             t == << x, y, z, v >>
  <1>1. s \in Seq(S) /\ t \in Seq(S) /\ Len(s) = 4 /\ Len(t) = 4
    OBVIOUS
  <1>2. s[1] = t[1] /\ s[2] = t[2] /\ s[3] = t[3] /\ s[4] = t[4]
    OBVIOUS
  <1>3. \A i \in 1..Len(s) : s[i] = t[i]
    BY <1>1, <1>2
  <1> HIDE DEF s, t
  <1>4. s = t
    BY <1>1, <1>3, SeqEqual
  <1> QED
    BY <1>4 DEF s, t

(* The parts the buffer is built from. *)
LEMMA PartTypes ==
  ASSUME NEW cl \in E!Calls, NEW ts \in Nat, NEW el \in Nat,
         NEW l \in LabelSets \union {Torn}
  PROVE  /\ E!Header(cl, ts, el) \in Parts
         /\ E!Pairs(cl) \in Parts
         /\ E!Labels(l) \in Parts
         /\ E!Break \in Parts
  BY DEF Parts, E!Header, E!Pairs, E!Labels, E!Break

LEMMA BuildHeadStep ==
  ASSUME IInv, NEW t \in Threads, BuildHead(t)
  PROVE  IInv'
  <1>1. Stamp(call[t]) \in 0..MaxClock /\ Elapsed(call[t]) \in 0..MaxClock
    BY StampInRange DEF IInv
  <1>2. TypeOK'
    <2>1. pc' \in [Threads -> {"ready", "newid", "lock"} \union Holding]
      BY DEF BuildHead, Goto, Holding, IInv, TypeOK
    <2>2. b' \in Seq(Parts)
      BY <1>1, PartTypes DEF BuildHead, IInv, TypeOK
    <2> QED
      BY <2>1, <2>2 DEF BuildHead, env, IInv, TypeOK
  <1>3. LockHeld'
    BY LockSame DEF BuildHead, Holding
  <1>4. StartedPast'
    BY DEF BuildHead, env, IInv, StartedPast
  <1>5. CallFits(t)' /\ BufferFits(t)'
    BY <1>1 DEF BuildHead, env, Goto, CallFits, BufferFits, IInv, TypeOK
  <1>6. \A u \in Threads \ {t} : CallFits(u)' /\ BufferFits(u)'
    BY OthersFit DEF BuildHead, Holding, env, IInv, TypeOK
  <1> QED
    BY <1>2, <1>3, <1>4, <1>5, <1>6 DEF IInv

LEMMA BuildPairsStep ==
  ASSUME IInv, NEW t \in Threads, BuildPairs(t)
  PROVE  IInv'
  <1>2. TypeOK'
    <2>1. pc' \in [Threads -> {"ready", "newid", "lock"} \union Holding]
      BY DEF BuildPairs, Goto, Holding, IInv, TypeOK
    <2>2. b' \in Seq(Parts)
      <3>1. E!Pairs(call[t]) \in Parts
        BY DEF Parts, E!Pairs, IInv, TypeOK
      <3>2. b \in Seq(Parts) /\ Append(b, E!Pairs(call[t])) \in Seq(Parts)
        BY <3>1 DEF IInv, TypeOK
      <3> QED
        BY <3>2 DEF BuildPairs
    <2> QED
      BY <2>1, <2>2 DEF BuildPairs, env, IInv, TypeOK
  <1>3. LockHeld'
    BY LockSame DEF BuildPairs, Holding
  <1>4. StartedPast'
    BY DEF BuildPairs, env, IInv, StartedPast
  <1>5. CallFits(t)' /\ BufferFits(t)'
    <2>1. PICK ts \in 0..MaxClock, el \in 0..MaxClock : b = << E!Header(call[t], ts, el) >>
      BY DEF BuildPairs, BufferFits, IInv
    <2>2. Append(b, E!Pairs(call[t])) = << E!Header(call[t], ts, el), E!Pairs(call[t]) >>
      <3>1. call[t] \in E!Calls /\ ls \in LabelSets \union {Torn}
        BY DEF IInv, TypeOK
      <3> QED
        BY <2>1, <3>1, PartTypes, AppendOne
    <2>3. CASE pc'[t] = "tail"
      <3>1. b' = << E!Header(call[t], ts, el), E!Pairs(call[t]) >>
        BY <2>2, <2>3 DEF BuildPairs, Goto, IInv, TypeOK
      <3> QED
        BY <2>3, <3>1 DEF BuildPairs, env, CallFits, BufferFits, IInv
    <2>4. CASE pc'[t] = "unlock"
      BY <2>4 DEF BuildPairs, env, Goto, CallFits, BufferFits, IInv
    <2> QED
      BY <2>3, <2>4 DEF BuildPairs, Goto, IInv, TypeOK
  <1>6. \A u \in Threads \ {t} : CallFits(u)' /\ BufferFits(u)'
    BY OthersFit DEF BuildPairs, Holding, env, IInv, TypeOK
  <1> QED
    BY <1>2, <1>3, <1>4, <1>5, <1>6 DEF IInv

LEMMA BuildTailStep ==
  ASSUME IInv, NEW t \in Threads, BuildTail(t)
  PROVE  IInv'
  <1>1. \E ts, el \in 0..MaxClock :
          b' = << E!Header(call[t], ts, el), E!Pairs(call[t]), E!Labels(ls), E!Break >>
    <2>1. PICK ts \in 0..MaxClock, el \in 0..MaxClock :
            b = << E!Header(call[t], ts, el), E!Pairs(call[t]) >>
      BY DEF BuildTail, BufferFits, IInv
    <2>2. b' = b \o << E!Labels(ls), E!Break >>
      BY DEF BuildTail
    <2>3. call[t] \in E!Calls /\ ls \in LabelSets \union {Torn}
      BY DEF IInv, TypeOK
    <2>4. << E!Header(call[t], ts, el), E!Pairs(call[t]) >> \o << E!Labels(ls), E!Break >>
            = << E!Header(call[t], ts, el), E!Pairs(call[t]), E!Labels(ls), E!Break >>
      BY <2>3, PartTypes, ConcatTwo
    <2> QED
      BY <2>1, <2>2, <2>4
  <1>2. TypeOK'
    <2>1. pc' \in [Threads -> {"ready", "newid", "lock"} \union Holding]
      BY DEF BuildTail, Goto, Holding, IInv, TypeOK
    <2>2. b' \in Seq(Parts)
      BY PartTypes DEF BuildTail, IInv, TypeOK
    <2> QED
      BY <2>1, <2>2 DEF BuildTail, env, IInv, TypeOK
  <1>3. LockHeld'
    BY LockSame DEF BuildTail, Holding
  <1>4. StartedPast'
    BY DEF BuildTail, env, IInv, StartedPast
  <1>5. CallFits(t)' /\ BufferFits(t)'
    BY <1>1 DEF BuildTail, env, Goto, CallFits, BufferFits, E!Encode, IInv, TypeOK
  <1>6. \A u \in Threads \ {t} : CallFits(u)' /\ BufferFits(u)'
    BY OthersFit DEF BuildTail, Holding, env, IInv, TypeOK
  <1> QED
    BY <1>2, <1>3, <1>4, <1>5, <1>6 DEF IInv

LEMMA WriteStep ==
  ASSUME IInv, NEW t \in Threads, Write(t)
  PROVE  IInv'
  <1>2. TypeOK'
    <2>1. pc' \in [Threads -> {"ready", "newid", "lock"} \union Holding]
      BY DEF Write, Goto, Holding, IInv, TypeOK
    <2>2. out' \in Seq(Seq(Parts))
      <3>1. << E!Raw(call[t]) >> \in Seq(Parts)
        BY DEF Parts, E!Raw, IInv, TypeOK
      <3>2. \A e \in Seq(Parts) : Append(out, e) \in Seq(Seq(Parts))
        BY DEF IInv, TypeOK
      <3>3. out \in Seq(Seq(Parts)) /\ b \in Seq(Parts)
        BY DEF IInv, TypeOK
      <3> QED
        BY <3>1, <3>2, <3>3 DEF Write
    <2> QED
      BY <2>1, <2>2 DEF Write, env, IInv, TypeOK
  <1>3. LockHeld'
    BY LockSame DEF Write, Holding
  <1>4. StartedPast'
    BY DEF Write, env, IInv, StartedPast
  <1>5. CallFits(t)' /\ BufferFits(t)'
    BY DEF Write, env, Goto, CallFits, BufferFits, IInv, TypeOK
  <1>6. \A u \in Threads \ {t} : CallFits(u)' /\ BufferFits(u)'
    BY OthersFit DEF Write, Holding, env, IInv, TypeOK
  <1> QED
    BY <1>2, <1>3, <1>4, <1>5, <1>6 DEF IInv

LEMMA WriteLabelsStep ==
  ASSUME IInv, NEW t \in Threads, WriteLabels(t)
  PROVE  IInv'
  <1>2. TypeOK'
    <2>1. pc' \in [Threads -> {"ready", "newid", "lock"} \union Holding]
      BY DEF WriteLabels, Goto, Holding, IInv, TypeOK
    <2>2. ls' \in LabelSets \union {Torn}
      BY DEF WriteLabels, IInv, TypeOK, E!Calls
    <2> QED
      BY <2>1, <2>2 DEF env, WriteLabels, IInv, TypeOK
  <1>3. LockHeld'
    BY LockSame DEF WriteLabels, Holding
  <1>4. StartedPast'
    BY DEF WriteLabels, env, IInv, StartedPast
  <1>5. CallFits(t)' /\ BufferFits(t)'
    BY DEF WriteLabels, env, Goto, CallFits, BufferFits, IInv, TypeOK
  <1>6. \A u \in Threads \ {t} : CallFits(u)' /\ BufferFits(u)'
    BY OthersFit DEF WriteLabels, Holding, env, IInv, TypeOK
  <1> QED
    BY <1>2, <1>3, <1>4, <1>5, <1>6 DEF IInv

LEMMA UnlockStep ==
  ASSUME IInv, NEW t \in Threads, Unlock(t)
  PROVE  IInv'
  <1>2. TypeOK'
    <2>1. pc' \in [Threads -> {"ready", "newid", "lock"} \union Holding]
      BY DEF Unlock, Goto, Holding, IInv, TypeOK
    <2>2. live' \subseteq Spans \ {0}
      <3>1. call[t].kind = "start" => call[t].span \in Spans \ {0}
        BY DEF Unlock, IInv, TypeOK, CallFits, E!Calls
      <3>2. live \subseteq Spans \ {0}
        BY DEF IInv, TypeOK
      <3> QED
        BY <3>1, <3>2 DEF Unlock
    <2> QED
      BY <2>1, <2>2 DEF Unlock, IInv, TypeOK
  <1>3. LockHeld'
    BY DEF Unlock, IInv, TypeOK, LockHeld, Goto, Holding
  <1>4. StartedPast'
    BY DEF Unlock, env, IInv, StartedPast
  <1>5. CallFits(t)' /\ BufferFits(t)'
    BY DEF Unlock, Goto, CallFits, BufferFits, IInv, TypeOK
  <1>6. \A u \in Threads \ {t} : CallFits(u)' /\ BufferFits(u)'
    BY OthersFit DEF Unlock, Holding, env, IInv, TypeOK
  <1> QED
    BY <1>2, <1>3, <1>4, <1>5, <1>6 DEF IInv

LEMMA TickStep ==
  ASSUME IInv, Tick
  PROVE  IInv'
  <1>1. TypeOK'
    BY DEF Tick, IInv, TypeOK
  <1>2. LockHeld' /\ StartedPast'
    BY DEF Tick, IInv, TypeOK, LockHeld, StartedPast
  <1>3. \A t \in Threads : CallFits(t)' /\ BufferFits(t)'
    BY DEF Tick, IInv, TypeOK, CallFits, BufferFits
  <1> QED
    BY <1>1, <1>2, <1>3 DEF IInv

LEMMA StutterStep ==
  ASSUME IInv, UNCHANGED vars
  PROVE  IInv'
  <1>1. TypeOK' /\ LockHeld' /\ StartedPast'
    BY DEF vars, env, IInv, TypeOK, LockHeld, StartedPast
  <1>2. \A t \in Threads : CallFits(t)' /\ BufferFits(t)'
    BY DEF vars, env, IInv, CallFits, BufferFits
  <1> QED
    BY <1>1, <1>2 DEF IInv

LEMMA NextIInv == IInv /\ [Next]_vars => IInv'
  <1> SUFFICES ASSUME IInv, [Next]_vars PROVE IInv'
    OBVIOUS
  <1>1. ASSUME NEW t \in Threads, Begin(t) \/ Lock(t) \/ Step(t)
        PROVE  IInv'
    BY <1>1, BeginStep, LockStep, NewSpanStep, BuildHeadStep, BuildPairsStep,
       BuildTailStep, WriteStep, WriteLabelsStep, UnlockStep DEF Step
  <1>2. CASE Tick
    BY <1>2, TickStep
  <1>3. CASE Terminated \/ UNCHANGED vars
    BY <1>3, StutterStep DEF Terminated
  <1> QED
    BY <1>1, <1>2, <1>3 DEF Next

-----------------------------------------------------------------------------
(* The inductive invariant holds of every behavior. *)
LEMMA Inductive == Spec => []IInv
  BY InitIInv, NextIInv, PTL DEF Spec

(* Every variable keeps its type, whatever panics and fails. *)
THEOREM TypeCorrect == Spec => []TypeOK
  <1>1. IInv => TypeOK
    BY DEF IInv
  <1> QED
    BY <1>1, Inductive, PTL

(* The Logger is locked exactly while some goroutine is between Lock and   *)
(* its deferred Unlock, and by that goroutine, also when it panicked.      *)
THEOREM LockDiscipline == Spec => []LockHeld
  <1>1. IInv => LockHeld
    BY DEF IInv
  <1> QED
    BY <1>1, Inductive, PTL

(* What the encoder builds is a whole event. *)
LEMMA EncodeWhole ==
  ASSUME NEW cl \in E!Calls, NEW ts \in Nat, NEW el \in Nat,
         NEW l \in LabelSets \union {Torn}
  PROVE  Whole(E!Encode(cl, ts, el, l))
  BY DEF Whole, E!Encode, E!Header, E!Pairs, E!Labels, E!Break, E!Raw

(* The writer is only ever given whole events, each of one call: no        *)
(* interleaving mixes two calls in the shared buffer, and nothing of a     *)
(* call that panicked is left in it.                                       *)
THEOREM WholeEvents == Spec => []EventsWhole
  <1>1. Init => EventsWhole
    BY DEF Init, EventsWhole
  <1>2. IInv /\ EventsWhole /\ [Next]_vars => EventsWhole'
    <2> SUFFICES ASSUME IInv, EventsWhole, [Next]_vars PROVE EventsWhole'
      OBVIOUS
    <2>1. CASE out' = out
      BY <2>1 DEF EventsWhole
    <2>2. ASSUME NEW t \in Threads, Write(t), out' # out
          PROVE  EventsWhole'
      <3>1. call[t] \in E!Calls /\ ls \in LabelSets \union {Torn}
        BY DEF IInv, TypeOK
      <3>2. PICK e \in Seq(Parts) : out' = Append(out, e) /\ Whole(e)
        <4>1. CASE call[t].kind = "raw"
          <5>1. << E!Raw(call[t]) >> \in Seq(Parts) /\ Whole(<< E!Raw(call[t]) >>)
            BY <3>1 DEF Parts, Whole, E!Raw
          <5> QED
            BY <2>2, <4>1, <5>1 DEF Write
        <4>2. CASE call[t].kind # "raw"
          <5>1. Whole(b)
            BY <2>2, <3>1, <4>2, EncodeWhole DEF Write, IInv, BufferFits
          <5> QED
            BY <2>2, <4>2, <5>1 DEF Write, IInv, TypeOK
        <4> QED
          BY <4>1, <4>2
      <3>3. out \in Seq(Seq(Parts))
        BY DEF IInv, TypeOK
      <3> QED
        BY <3>2, <3>3 DEF EventsWhole
    <2>3. \/ out' = out
          \/ \E t \in Threads : Write(t)
      BY DEF Next, Begin, Call, Lock, Step, NewSpan, BuildHead, BuildPairs, BuildTail,
             WriteLabels, Unlock, Tick, Terminated, vars
    <2> QED
      BY <2>1, <2>2, <2>3
  <1> QED
    BY <1>1, <1>2, Inductive, PTL DEF Spec

-----------------------------------------------------------------------------
(* How far a call has got, and what a step of t makes of it. *)
LEMMA PhaseStep ==
  ASSUME IInv, NEW t \in Threads, NEW label, Goto(t, label)
  PROVE  [u \in Threads |-> Phase(pc[u])]'
           = [[u \in Threads |-> Phase(pc[u])] EXCEPT ![t] = Phase(label)]
  BY DEF IInv, TypeOK, Goto

LEMMA PhaseSame ==
  ASSUME IInv, NEW t \in Threads, NEW label, Goto(t, label),
         Phase(label) = Phase(pc[t])
  PROVE  [u \in Threads |-> Phase(pc[u])]' = [u \in Threads |-> Phase(pc[u])]
  BY DEF IInv, TypeOK, Goto

(* The Logger (message, newspan, Finish, Event, SetLabels, Write) behaves  *)
(* as the event log: every call takes effect at one instant between its    *)
(* start and its return, at most once, with the labels then in force.      *)
THEOREM Refinement == Spec => ImplementsEventLog
  <1> DEFINE phase == [t \in Threads |-> Phase(pc[t])]
  <1>1. Init => E!Init
    BY DEF Init, E!Init, Phase, NoCall, E!Calls, E!CallKinds, Spans
  <1>2. IInv /\ [Next]_vars => [E!Next]_(E!vars)
    <2> SUFFICES ASSUME IInv, [Next]_vars
                 PROVE  [E!Next]_(E!vars)
      OBVIOUS
    <2>1. ASSUME NEW t \in Threads, Begin(t) PROVE E!Invoke(t)
      <3>1. PICK kind \in Kinds, s \in Spans, l \in LabelSets : Call(t, kind, s, l)
        BY <2>1 DEF Begin, IInv, TypeOK, E!Calls, Spans
      <3>2. call' = [call EXCEPT ![t] = call'[t]] /\ call'[t] \in E!Calls
        BY <3>1, BeginStep, <2>1 DEF Call, IInv, TypeOK
      <3>3. phase' = [phase EXCEPT ![t] = "pending"]
        BY <3>1, PhaseStep DEF Call, Phase
      <3>4. phase[t] = "idle"
        BY <3>1 DEF Call, Phase
      <3> QED
        BY <3>1, <3>2, <3>3, <3>4 DEF Call, E!Invoke
    <2>2. ASSUME NEW t \in Threads, NewSpan(t) PROVE E!NameSpan(t)
      <3>1. phase' = phase /\ phase[t] = "pending"
        BY <2>2, PhaseSame DEF NewSpan, Phase
      <3>2. call[t].kind = "start" /\ call[t].n \in Spans
        BY <2>2 DEF NewSpan, IInv, CallFits, TypeOK, Spans
      <3> QED
        BY <2>2, <3>1, <3>2 DEF NewSpan, E!NameSpan
    <2>3. ASSUME NEW t \in Threads, Lock(t) PROVE UNCHANGED E!vars
      <3>1. phase' = phase
        BY <2>3, PhaseSame DEF Lock, Phase
      <3> QED
        BY <2>3, <3>1 DEF Lock, env, E!vars
    <2>4. ASSUME NEW t \in Threads, BuildHead(t) \/ BuildTail(t)
          PROVE  UNCHANGED E!vars
      <3>1. phase' = phase
        BY <2>4, PhaseSame DEF BuildHead, BuildTail, Phase
      <3> QED
        BY <2>4, <3>1 DEF BuildHead, BuildTail, env, E!vars
    <2>5. ASSUME NEW t \in Threads, BuildPairs(t)
          PROVE  (UNCHANGED E!vars \/ E!Lose(t))
      <3>1. CASE Goto(t, "tail")
        <4>1. phase' = phase
          BY <2>5, <3>1, PhaseSame DEF BuildPairs, Phase
        <4> QED
          BY <2>5, <4>1 DEF BuildPairs, env, E!vars
      <3>2. CASE Goto(t, "unlock")
        <4>1. phase' = [phase EXCEPT ![t] = "done"] /\ phase[t] = "pending"
          BY <2>5, <3>2, PhaseStep DEF BuildPairs, Phase
        <4> QED
          BY <2>5, <4>1 DEF BuildPairs, env, E!Lose, E!Done
      <3> QED
        BY <2>5, <3>1, <3>2 DEF BuildPairs
    <2>6. ASSUME NEW t \in Threads, Write(t) PROVE (E!Emit(t) \/ E!Lose(t))
      <3>1. phase' = [phase EXCEPT ![t] = "done"] /\ phase[t] = "pending"
        BY <2>6, PhaseStep DEF Write, Phase
      <3>2. call[t].kind # "labels"
        BY <2>6 DEF Write, IInv, CallFits
      <3>3. CASE out' = out
        BY <2>6, <3>1, <3>3 DEF Write, env, E!Lose, E!Done
      <3>4. CASE out' # out
        <4>1. \E ts, el \in 0..MaxClock : out' = Append(out, E!Encode(call[t], ts, el, ls))
          <5>1. CASE call[t].kind = "raw"
            <6>1. out' = Append(out, E!Encode(call[t], 0, 0, ls))
              BY <2>6, <3>4, <5>1 DEF Write, E!Encode
            <6>2. 0 \in 0..MaxClock
              OBVIOUS
            <6> QED
              BY <6>1, <6>2
          <5>2. CASE call[t].kind # "raw"
            BY <2>6, <3>4, <5>2 DEF Write, IInv, BufferFits
          <5> QED
            BY <5>1, <5>2
        <4> QED
          BY <2>6, <3>1, <3>2, <4>1 DEF Write, env, E!Emit, E!Done
      <3> QED
        BY <3>3, <3>4, <2>6 DEF Write, env
    <2>7. ASSUME NEW t \in Threads, WriteLabels(t)
          PROVE  E!SetLabels(t) \/ E!Tear(t) \/ E!Lose(t)
      <3>1. phase' = [phase EXCEPT ![t] = "done"] /\ phase[t] = "pending"
        BY <2>7, PhaseStep DEF WriteLabels, Phase
      <3>2. call[t].kind = "labels" /\ call[t].arg \in LabelSets
        BY <2>7 DEF WriteLabels, IInv, CallFits, TypeOK, E!Calls
      <3> QED
        BY <2>7, <3>1, <3>2 DEF WriteLabels, env, E!SetLabels, E!Tear, E!Lose, E!Done
    <2>8. ASSUME NEW t \in Threads, Unlock(t) PROVE E!Return(t)
      <3>1. phase' = [phase EXCEPT ![t] = "idle"] /\ phase[t] = "done"
        BY <2>8, PhaseStep DEF Unlock, Phase
      <3> QED
        BY <2>8, <3>1 DEF Unlock, E!Return
    <2>9. CASE Tick
      BY <2>9 DEF Tick, E!vars
    <2>10. CASE Terminated \/ UNCHANGED vars
      BY <2>10 DEF Terminated, vars, env, E!vars
    <2> QED
      BY <2>1, <2>2, <2>3, <2>4, <2>5, <2>6, <2>7, <2>8, <2>9, <2>10
      DEF Next, Step, E!Next
  <1> QED
    BY <1>1, <1>2, Inductive, PTL DEF Spec, E!Spec, ImplementsEventLog

-----------------------------------------------------------------------------
(* Spans and stamps.  newspan takes the id and the start time of a span    *)
(* outside the lock; what keeps the order of what is written is that no    *)
(* call can name a span before its Start has returned.                     *)

(* A span that may be named by what is written: one that is live, the zero *)
(* id, or the one a Start is just about to return.                         *)
Known(s) ==
  \/ s \in live \union {0}
  \/ \E t \in Threads : pc[t] = "unlock" /\ call[t].kind = "start" /\ s = call[t].n

(* Calls in progress have numbers of their own. *)
NumbersApart ==
  \A t, u \in Threads : t # u /\ pc[t] # "ready" /\ pc[u] # "ready" => call[t].n # call[u].n

(* The spans a call in progress names: a start that has an id names the    *)
(* call's own, which no other call can name before Start returns.          *)
CallNames(t) ==
  pc[t] # "ready" =>
    /\ call[t].n \notin live
    /\ call[t].par \in live \union {0}
    /\ call[t].kind # "start" => call[t].span \in live \union {0}
    /\ call[t].kind = "start" /\ pc[t] # "newid" => call[t].span = call[t].n

(* The header in the buffer: nothing written is stamped later, unless the  *)
(* event is a start, which is stamped with the time its span keeps, or one *)
(* of Event, which has no timestamp.                                       *)
HeadFits(t) ==
  pc[t] \in {"pairs", "tail", "write"} /\ call[t].kind # "raw" =>
    /\ b[1].ts <= clock
    /\ call[t].kind = "start" => b[1].ts = started[call[t].span]
    /\ call[t].kind \notin {"start", "event"} => \A i \in Built : out[i][1].ts <= b[1].ts
    /\ call[t].kind = "finish" => started[call[t].span] + b[1].elapsed = b[1].ts

(* What is written names known spans and is stamped in the past, a start   *)
(* with the time its span keeps.                                           *)
WrittenFits(i) ==
  /\ Known(Of(i).span) /\ Known(Of(i).par)
  /\ out[i][1].ts <= clock
  /\ Of(i).kind = "start" => out[i][1].ts = started[Of(i).span]

SpanInv ==
  /\ live \subseteq 1..calls
  /\ NumbersApart
  /\ \A t \in Threads : CallNames(t)
  /\ \A t \in Threads : HeadFits(t)
  /\ \A i \in Built : WrittenFits(i)

(* What is read of an event that was built. *)
LEMMA BuiltTyped ==
  ASSUME TypeOK, EventsWhole, NEW i \in Built
  PROVE  /\ i \in DOMAIN out
         /\ Of(i) \in E!Calls /\ out[i][1].ts \in Nat /\ out[i][1].elapsed \in Nat
  <1>1. i \in DOMAIN out /\ out[i][1].part = "head" /\ Whole(out[i])
    BY DEF Built, EventsWhole
  <1>2. out[i] \in Seq(Parts) /\ Len(out[i]) = 4
    BY <1>1 DEF TypeOK, Whole
  <1>3. out[i][1] \in Parts
    BY <1>2
  <1> QED
    BY <1>1, <1>3 DEF Parts, Of

(* The header the buffer begins with. *)
LEMMA HeadTyped ==
  ASSUME IInv, NEW t \in Threads, pc[t] \in {"pairs", "tail", "write"},
         call[t].kind # "raw"
  PROVE  /\ b[1].ts \in Nat /\ b[1].elapsed \in Nat
         /\ b[1].part = "head" /\ b[1].call = call[t]
  BY DEF IInv, BufferFits, E!Header, E!Encode

LEMMA KnownKept ==
  ASSUME NEW s, Known(s), live \subseteq live',
         \A t \in Threads : pc[t] = "unlock" /\ call[t].kind = "start" =>
           \/ pc'[t] = "unlock" /\ call'[t] = call[t]
           \/ call[t].n \in live'
  PROVE  Known(s)'
  BY DEF Known

(* The header for the call of t fits as long as it stays what it is, and   *)
(* the log and the start of the span with it.                              *)
LEMMA HeadKept ==
  ASSUME IInv, NEW t \in Threads, HeadFits(t), clock' \in Nat, clock <= clock',
         pc'[t] \in {"pairs", "tail", "write"} /\ call'[t].kind # "raw" =>
           /\ pc[t] \in {"pairs", "tail", "write"}
           /\ call'[t] = call[t] /\ out' = out /\ b'[1] = b[1]
           /\ started'[call[t].span] = started[call[t].span]
  PROVE  HeadFits(t)'
  <1>1. SUFFICES ASSUME pc'[t] \in {"pairs", "tail", "write"}, call'[t].kind # "raw"
                 PROVE  HeadFits(t)'
    BY DEF HeadFits
  <1>2. b[1].ts \in Nat /\ clock \in Nat
    BY <1>1, HeadTyped DEF IInv, TypeOK
  <1>3. Built' = Built /\ \A i \in Built : out'[i] = out[i]
    BY <1>1 DEF Built
  <1> QED
    BY <1>1, <1>2, <1>3 DEF HeadFits

(* What was written fits as long as the log stays, and the start of every  *)
(* span it may name.                                                       *)
LEMMA WrittenKept ==
  ASSUME TypeOK, EventsWhole, NEW i \in Built, WrittenFits(i),
         out'[i] = out[i], clock' \in Nat, clock <= clock',
         \A s \in Spans : Known(s) => Known(s)' /\ started'[s] = started[s]
  PROVE  WrittenFits(i)'
  <1>1. /\ Of(i)' = Of(i) /\ Of(i).span \in Spans /\ Of(i).par \in Spans
        /\ out[i][1].ts \in Nat /\ clock \in Nat
    <2>1. Of(i) \in E!Calls /\ out[i][1].ts \in Nat
      BY BuiltTyped
    <2>2. Of(i)' = Of(i) /\ clock \in Nat
      BY DEF Of, TypeOK
    <2> QED
      BY <2>1, <2>2 DEF E!Calls
  <1>2. Known(Of(i).span) /\ Known(Of(i).par)
    BY DEF WrittenFits
  <1>3. \A s \in {Of(i).span, Of(i).par} : Known(s)'
    BY <1>1, <1>2
  <1>4. Known(Of(i).span)' /\ Known(Of(i).par)'
    BY <1>1, <1>3 DEF Known
  <1>5. started'[Of(i).span] = started[Of(i).span]
    BY <1>1, <1>2
  <1> QED
    BY <1>1, <1>4, <1>5 DEF WrittenFits, Of

(* The part a thread owns of the invariant, at a step of t within its call *)
(* after it has its id: calls, spans and their starts stay as they are.    *)
LEMMA QuietStep ==
  ASSUME IInv, SpanInv, NEW t \in Threads, NEW label, Goto(t, label),
         pc[t] \notin {"ready", "newid", "unlock"}, label \notin {"ready", "newid"},
         UNCHANGED <<env, call>>, pc[t] \in Holding \/ UNCHANGED <<b, out>>
  PROVE  /\ live' \subseteq 1..calls' /\ NumbersApart'
         /\ \A u \in Threads : CallNames(u)'
         /\ \A u \in Threads \ {t} : HeadFits(u)'
         /\ \A s \in Spans : Known(s) => Known(s)' /\ started'[s] = started[s]
  <1>1. /\ live' = live /\ calls' = calls /\ started' = started /\ clock' = clock
        /\ call' = call /\ clock \in Nat
    BY DEF env, IInv, TypeOK
  <1>2. /\ \A u \in Threads \ {t} : pc'[u] = pc[u]
        /\ pc'[t] = label
    BY DEF Goto, IInv, TypeOK
  <1>3. live' \subseteq 1..calls' /\ NumbersApart'
    BY <1>1, <1>2 DEF SpanInv, NumbersApart
  <1>4. \A u \in Threads : CallNames(u)'
    BY <1>1, <1>2 DEF SpanInv, CallNames
  <1>5. ASSUME NEW u \in Threads \ {t} PROVE HeadFits(u)'
    <2>1. pc[u] \in Holding => b' = b /\ out' = out
      BY HolderUnique DEF IInv
    <2>2. HeadFits(u) /\ clock <= clock' /\ clock' \in Nat
      BY <1>1 DEF SpanInv
    <2> QED
      BY <1>1, <1>2, <2>1, <2>2, HeadKept DEF Holding
  <1>6. ASSUME NEW s \in Spans, Known(s) PROVE Known(s)' /\ started'[s] = started[s]
    BY <1>1, <1>2, <1>6, KnownKept
  <1> QED
    BY <1>3, <1>4, <1>5, <1>6

(* ... and the log with them. *)
LEMMA QuietWritten ==
  ASSUME IInv, EventsWhole, SpanInv, out' = out, clock' \in Nat, clock <= clock',
         \A s \in Spans : Known(s) => Known(s)' /\ started'[s] = started[s]
  PROVE  \A i \in Built' : WrittenFits(i)'
  <1>1. Built' = Built
    BY DEF Built
  <1> QED
    BY <1>1, WrittenKept DEF SpanInv, IInv

LEMMA BeginSpans ==
  ASSUME IInv, EventsWhole, SpanInv, NEW t \in Threads, Begin(t)
  PROVE  SpanInv'
  <1>1. PICK kind \in Kinds, s \in live \union {0}, l \in LabelSets : Call(t, kind, s, l)
    BY DEF Begin, IInv, TypeOK, E!Calls
  <1>2. /\ calls' = calls + 1 /\ calls \in Nat
        /\ live' = live /\ started' = started /\ out' = out /\ b' = b /\ clock' = clock
        /\ clock \in Nat
        /\ \A u \in Threads \ {t} : pc'[u] = pc[u] /\ call'[u] = call[u]
        /\ pc[t] = "ready" /\ pc'[t] \in {"newid", "lock"}
    BY <1>1 DEF Call, Goto, IInv, TypeOK
  <1>3. /\ call'[t].n = calls + 1 /\ call'[t].kind = kind
        /\ call'[t].par \in live \union {0}
        /\ kind # "start" => call'[t].span \in live \union {0}
        /\ kind = "start" => pc'[t] = "newid"
    BY <1>1 DEF Call, Goto, IInv, TypeOK
  <1>4. live' \subseteq 1..calls'
    BY <1>2 DEF SpanInv
  <1>5. \A u \in Threads \ {t} : pc'[u] # "ready" => call'[u].n \in 1..calls
    BY <1>2 DEF IInv, CallFits
  <1>6. NumbersApart'
    BY <1>2, <1>3, <1>5 DEF SpanInv, NumbersApart
  <1>7. \A u \in Threads : CallNames(u)'
    <2>1. \A u \in Threads \ {t} : CallNames(u)'
      BY <1>2 DEF SpanInv, CallNames
    <2>2. call'[t].n \notin live
      BY <1>2, <1>3 DEF SpanInv
    <2>3. CallNames(t)'
      BY <1>2, <1>3, <2>2 DEF CallNames
    <2> QED
      BY <2>1, <2>3
  <1>8. \A u \in Threads : HeadFits(u)'
    BY <1>2, HeadKept DEF SpanInv
  <1>9. \A r \in Spans : Known(r) => Known(r)' /\ started'[r] = started[r]
    BY <1>2, KnownKept
  <1>10. \A i \in Built' : WrittenFits(i)'
    BY <1>2, <1>9, QuietWritten
  <1> QED
    BY <1>4, <1>6, <1>7, <1>8, <1>10 DEF SpanInv

LEMMA NewSpanSpans ==
  ASSUME IInv, EventsWhole, SpanInv, NEW t \in Threads, NewSpan(t)
  PROVE  SpanInv'
  <1> DEFINE n == call[t].n
  <1>1. /\ n \in 1..calls /\ n \in Spans \ {0} /\ n \notin live
        /\ call[t].kind = "start" /\ call[t].par \in live \union {0}
    BY DEF NewSpan, IInv, CallFits, TypeOK, Spans, SpanInv, CallNames
  <1>2. /\ calls' = calls /\ live' = live /\ out' = out /\ b' = b /\ clock' = clock
        /\ clock \in Nat
        /\ \A u \in Threads \ {t} : pc'[u] = pc[u] /\ call'[u] = call[u]
        /\ pc[t] = "newid" /\ pc'[t] = "lock"
        /\ \A s \in Spans \ {n} : started'[s] = started[s]
    BY DEF NewSpan, Goto, IInv, TypeOK
  <1>3. /\ call'[t].n = n /\ call'[t].kind = "start" /\ call'[t].span = n
        /\ call'[t].par = call[t].par
    BY <1>1 DEF NewSpan, IInv, TypeOK, E!Named
  <1>4. live' \subseteq 1..calls' /\ NumbersApart'
    BY <1>2, <1>3 DEF SpanInv, NumbersApart
  <1>5. \A u \in Threads : CallNames(u)'
    BY <1>1, <1>2, <1>3 DEF SpanInv, CallNames
  <1>6. ASSUME NEW u \in Threads, u # t, pc[u] # "ready"
        PROVE  call[u].n # n
    BY <1>2, <1>6 DEF SpanInv, NumbersApart
  <1>7. \A s \in Spans : Known(s) => Known(s)' /\ started'[s] = started[s]
    <2> SUFFICES ASSUME NEW s \in Spans, Known(s) PROVE Known(s)' /\ s # n
      BY <1>2
    <2>1. Known(s)'
      BY <1>2, KnownKept
    <2>2. s # n
      BY <1>1, <1>2, <1>6 DEF Known
    <2> QED
      BY <2>1, <2>2
  <1>8. ASSUME NEW u \in Threads PROVE HeadFits(u)'
    <2>1. CASE u = t
      BY <1>2, <2>1 DEF HeadFits
    <2>2. CASE u # t /\ pc[u] \in {"pairs", "tail", "write"}
      <3>1. call[u].span \in Spans \ {n}
        <4>1. call[u].span \in Spans
          BY DEF IInv, TypeOK, E!Calls
        <4>2. call[u].kind = "start" => call[u].span = call[u].n
          BY <2>2 DEF SpanInv, CallNames
        <4>3. call[u].kind # "start" => call[u].span \in live \union {0}
          BY <2>2 DEF SpanInv, CallNames
        <4> QED
          BY <1>1, <1>6, <2>2, <4>1, <4>2, <4>3
      <3> QED
        BY <1>2, <2>2, <3>1, HeadKept DEF SpanInv
    <2>3. CASE u # t /\ pc[u] \notin {"pairs", "tail", "write"}
      BY <1>2, <2>3 DEF HeadFits
    <2> QED
      BY <2>1, <2>2, <2>3
  <1>9. \A i \in Built' : WrittenFits(i)'
    BY <1>2, <1>7, QuietWritten
  <1> QED
    BY <1>4, <1>5, <1>8, <1>9 DEF SpanInv

(* The steps under the lock that write nothing. *)
LEMMA BuildSpans ==
  ASSUME IInv, EventsWhole, SpanInv, NEW t \in Threads,
         Lock(t) \/ BuildHead(t) \/ BuildPairs(t) \/ BuildTail(t) \/ WriteLabels(t)
  PROVE  SpanInv'
  <1>1. PICK label \in {"head", "pairs", "tail", "write", "labels", "unlock"} : Goto(t, label)
    BY DEF Lock, BuildHead, BuildPairs, BuildTail, WriteLabels
  <1>2. /\ UNCHANGED <<env, call>> /\ out' = out
        /\ pc[t] \in {"lock", "head", "pairs", "tail", "labels"}
        /\ pc[t] \in Holding \/ UNCHANGED <<b, out>>
        /\ pc'[t] = label
    BY <1>1 DEF Lock, BuildHead, BuildPairs, BuildTail, WriteLabels, Holding, Goto, IInv, TypeOK
  <1>3. /\ live' \subseteq 1..calls' /\ NumbersApart'
        /\ \A u \in Threads : CallNames(u)'
        /\ \A u \in Threads \ {t} : HeadFits(u)'
        /\ \A s \in Spans : Known(s) => Known(s)' /\ started'[s] = started[s]
    BY <1>1, <1>2, QuietStep
  <1>4. clock' = clock /\ clock \in Nat /\ call' = call /\ started' = started
    BY <1>2 DEF env, IInv, TypeOK
  <1>5. HeadFits(t)'
    <2>1. CASE Lock(t) \/ WriteLabels(t)
      <3>1. pc'[t] = "write" => call'[t].kind = "raw"
        BY <1>4, <2>1 DEF Lock, WriteLabels, Goto, IInv, TypeOK, CallFits
      <3>2. pc'[t] \notin {"pairs", "tail"}
        BY <2>1 DEF Lock, WriteLabels, Goto, IInv, TypeOK
      <3> QED
        BY <3>1, <3>2 DEF HeadFits
    <2>2. CASE BuildHead(t)
      <3>1. b' = << E!Header(call[t], Stamp(call[t]), Elapsed(call[t])) >>
        BY <2>2 DEF BuildHead
      <3>2. b'[1].ts = Stamp(call[t]) /\ b'[1].elapsed = Elapsed(call[t])
        BY <3>1 DEF E!Header
      <3>3. call[t].span \in Spans /\ started[call[t].span] <= clock /\ started[call[t].span] \in Nat
        BY DEF IInv, TypeOK, E!Calls, StartedPast
      <3>4. Built' = Built /\ \A i \in Built : out'[i] = out[i] /\ out[i][1].ts <= clock
        BY <1>2 DEF Built, SpanInv, WrittenFits
      <3> QED
        BY <1>4, <3>2, <3>3, <3>4 DEF HeadFits, Stamp, Elapsed
    <2>3. CASE BuildPairs(t) \/ BuildTail(t)
      <3>1. pc[t] \in {"pairs", "tail"} /\ call[t].kind # "raw"
        BY <2>3 DEF BuildPairs, BuildTail, IInv, CallFits
      <3>2. b \in Seq(Parts) /\ Len(b) \in {1, 2}
        BY <3>1 DEF IInv, TypeOK, BufferFits
      <3>3. call[t] \in E!Calls /\ ls \in LabelSets \union {Torn}
        BY DEF IInv, TypeOK
      <3>4. b'[1] = b[1]
        BY <2>3, <3>2, <3>3, PartTypes DEF BuildPairs, BuildTail
      <3> QED
        BY <1>2, <1>4, <3>1, <3>4, HeadKept DEF SpanInv
    <2> QED
      BY <2>1, <2>2, <2>3
  <1>6. \A i \in Built' : WrittenFits(i)'
    BY <1>2, <1>3, <1>4, QuietWritten
  <1> QED
    BY <1>3, <1>5, <1>6 DEF SpanInv

(* A write that adds to the log adds what the buffer holds or a raw event. *)
LEMMA WriteAdds ==
  ASSUME IInv, NEW t \in Threads, Write(t), out' # out
  PROVE  /\ Len(out') = Len(out) + 1 /\ Len(out) \in Nat
         /\ \A i \in DOMAIN out : i \in DOMAIN out' /\ out'[i] = out[i]
         /\ DOMAIN out = 1..Len(out) /\ DOMAIN out' = 1..Len(out')
         /\ Built' = Built \union (IF call[t].kind = "raw" THEN {} ELSE {Len(out')})
         /\ call[t].kind # "raw" => out'[Len(out')] = b
  <1>1. /\ out \in Seq(Seq(Parts)) /\ b \in Seq(Parts)
        /\ << E!Raw(call[t]) >> \in Seq(Parts)
    BY DEF IInv, TypeOK, Parts, E!Raw
  <1>2. PICK e \in Seq(Parts) :
          /\ out' = Append(out, e)
          /\ call[t].kind = "raw" => e = << E!Raw(call[t]) >>
          /\ call[t].kind # "raw" => e = b
    BY <1>1 DEF Write
  <1>3. /\ DOMAIN out = 1..Len(out) /\ DOMAIN out' = 1..Len(out') /\ Len(out) \in Nat
        /\ Len(out') = Len(out) + 1 /\ out'[Len(out')] = e
        /\ \A i \in DOMAIN out : i \in DOMAIN out' /\ out'[i] = out[i]
    BY <1>1, <1>2
  <1>4. e[1].part = "head" <=> call[t].kind # "raw"
    BY <1>2, HeadTyped DEF Write, E!Raw
  <1>5. Built' = Built \union (IF call[t].kind = "raw" THEN {} ELSE {Len(out')})
    <2>1. \A i : i \in DOMAIN out' <=> i \in DOMAIN out \/ i = Len(out')
      BY <1>3
    <2> QED
      BY <1>3, <1>4, <2>1 DEF Built
  <1> QED
    BY <1>2, <1>3, <1>5

LEMMA WriteSpans ==
  ASSUME IInv, EventsWhole, SpanInv, NEW t \in Threads, Write(t)
  PROVE  SpanInv'
  <1>1. /\ Goto(t, "unlock") /\ UNCHANGED <<env, call>> /\ b' = b
        /\ pc[t] = "write" /\ pc[t] \in Holding /\ pc'[t] = "unlock"
    BY DEF Write, Holding, Goto, IInv, TypeOK
  <1>2. /\ live' \subseteq 1..calls' /\ NumbersApart'
        /\ \A u \in Threads : CallNames(u)'
        /\ \A u \in Threads \ {t} : HeadFits(u)'
        /\ \A s \in Spans : Known(s) => Known(s)' /\ started'[s] = started[s]
    BY <1>1, QuietStep
  <1>3. clock' = clock /\ clock \in Nat /\ call' = call /\ started' = started /\ live' = live
    BY <1>1 DEF env, IInv, TypeOK
  <1>4. HeadFits(t)'
    BY <1>1 DEF HeadFits
  <1>5. \A i \in Built' : WrittenFits(i)'
    <2>1. CASE out' = out
      BY <1>2, <1>3, <2>1, QuietWritten
    <2>2. CASE out' # out
      <3>1. ASSUME NEW i \in Built PROVE WrittenFits(i)'
        <4>1. i \in DOMAIN out /\ out'[i] = out[i]
          BY <2>2, WriteAdds DEF Built
        <4>2. WrittenFits(i) /\ clock' \in Nat /\ clock <= clock'
          BY <1>3 DEF SpanInv
        <4> QED
          BY <1>2, <4>1, <4>2, WrittenKept DEF IInv
      <3>2. ASSUME NEW j, j = Len(out'), call[t].kind # "raw" PROVE WrittenFits(j)'
        <4>1. out'[j] = b /\ b[1].call = call[t]
          BY <1>1, <2>2, <3>2, WriteAdds, HeadTyped
        <4>2. HeadFits(t) /\ CallNames(t)
          BY DEF SpanInv
        <4>3. /\ call[t].par \in live \union {0}
              /\ call[t].kind # "start" => call[t].span \in live \union {0}
              /\ call[t].kind = "start" => call[t].span = call[t].n
          BY <1>1, <4>2 DEF CallNames
        <4>4. Known(call[t].span)' /\ Known(call[t].par)'
          BY <1>1, <1>3, <4>3 DEF Known
        <4>5. b[1].ts <= clock /\ (call[t].kind = "start" => b[1].ts = started[call[t].span])
          BY <1>1, <3>2, <4>2 DEF HeadFits
        <4> QED
          BY <1>3, <4>1, <4>4, <4>5 DEF WrittenFits, Of
      <3> QED
        BY <2>2, <3>1, <3>2, WriteAdds
    <2> QED
      BY <2>1, <2>2
  <1> QED
    BY <1>2, <1>4, <1>5 DEF SpanInv

LEMMA UnlockSpans ==
  ASSUME IInv, EventsWhole, SpanInv, NEW t \in Threads, Unlock(t)
  PROVE  SpanInv'
  <1>1. /\ calls' = calls /\ started' = started /\ out' = out /\ b' = b /\ clock' = clock
        /\ clock \in Nat /\ call' = call
        /\ \A u \in Threads \ {t} : pc'[u] = pc[u]
        /\ pc[t] = "unlock" /\ pc'[t] = "ready"
    BY DEF Unlock, Goto, IInv, TypeOK
  <1>2. /\ call[t].n \in 1..calls
        /\ call[t].kind = "start" => call[t].span = call[t].n
    BY <1>1 DEF IInv, CallFits, SpanInv, CallNames
  <1>3. live' = IF call[t].kind = "start" THEN live \union {call[t].n} ELSE live
    BY <1>2 DEF Unlock
  <1>4. live' \subseteq 1..calls' /\ NumbersApart'
    BY <1>1, <1>2, <1>3 DEF SpanInv, NumbersApart
  <1>5. \A u \in Threads : CallNames(u)'
    <2>1. \A u \in Threads \ {t} : pc[u] # "ready" => call[u].n \notin live'
      BY <1>1, <1>3 DEF SpanInv, NumbersApart, CallNames
    <2> QED
      BY <1>1, <1>3, <2>1 DEF SpanInv, CallNames
  <1>6. \A u \in Threads : HeadFits(u)'
    BY <1>1, HeadKept DEF SpanInv
  <1>7. \A s \in Spans : Known(s) => Known(s)' /\ started'[s] = started[s]
    BY <1>1, <1>3, KnownKept
  <1>8. \A i \in Built' : WrittenFits(i)'
    BY <1>1, <1>7, QuietWritten
  <1> QED
    BY <1>4, <1>5, <1>6, <1>8 DEF SpanInv

LEMMA TickSpans ==
  ASSUME IInv, EventsWhole, SpanInv, Tick \/ UNCHANGED vars
  PROVE  SpanInv'
  <1>1. /\ UNCHANGED <<b, out, calls, started, live, pc, call>>
        /\ clock' \in Nat /\ clock <= clock'
    BY DEF Tick, vars, env, IInv, TypeOK
  <1>2. live' \subseteq 1..calls' /\ NumbersApart' /\ \A u \in Threads : CallNames(u)'
    BY <1>1 DEF SpanInv, NumbersApart, CallNames
  <1>3. \A u \in Threads : HeadFits(u)'
    BY <1>1, HeadKept DEF SpanInv
  <1>4. \A s \in Spans : Known(s) => Known(s)' /\ started'[s] = started[s]
    BY <1>1 DEF Known
  <1>5. \A i \in Built' : WrittenFits(i)'
    BY <1>1, <1>4, QuietWritten
  <1> QED
    BY <1>2, <1>3, <1>5 DEF SpanInv

LEMMA NextSpans == IInv /\ EventsWhole /\ SpanInv /\ [Next]_vars => SpanInv'
  BY BeginSpans, NewSpanSpans, BuildSpans, WriteSpans, UnlockSpans, TickSpans
  DEF Next, Step, Terminated

(* Only Write adds to the log. *)
LEMMA OnlyWriteWrites ==
  ASSUME [Next]_vars
  PROVE  out' = out \/ \E t \in Threads : Write(t)
  BY DEF Next, Begin, Call, Lock, Step, NewSpan, BuildHead, BuildPairs, BuildTail,
         WriteLabels, Unlock, Tick, Terminated, vars

LEMMA SpansInductive == Spec => [](IInv /\ EventsWhole /\ SpanInv)
  <1>1. Init => SpanInv
    BY DEF Init, SpanInv, NumbersApart, CallNames, HeadFits, Built
  <1> QED
    BY <1>1, NextSpans, Inductive, WholeEvents, PTL DEF Spec

(* A span starts before anything else is written of it or of its children, *)
(* and it starts once: the id that newspan takes outside the lock cannot   *)
(* be named by another call before Start returns.                          *)
THEOREM SpansStartFirst == Spec => []StartFirst
  <1>1. Init => StartFirst
    BY DEF Init, StartFirst, Built
  <1>2. (IInv /\ EventsWhole /\ SpanInv) /\ StartFirst /\ [Next]_vars => StartFirst'
    <2> SUFFICES ASSUME IInv, EventsWhole, SpanInv, StartFirst, [Next]_vars
                 PROVE  StartFirst'
      OBVIOUS
    <2>1. CASE out' = out
      BY <2>1 DEF StartFirst, Built, Of
    <2>2. ASSUME NEW t \in Threads, Write(t), out' # out
          PROVE  StartFirst'
      <3> SUFFICES ASSUME NEW i \in Built', NEW j \in Built', i < j, Of(j)'.kind = "start"
                   PROVE  Of(j)'.span \notin {Of(i)'.span, Of(i)'.par}
        BY DEF StartFirst
      <3>1. i \in Built /\ i \in DOMAIN out /\ Of(i)' = Of(i)
        BY <2>2, WriteAdds DEF Built, Of
      <3>2. CASE j \in Built
        BY <2>2, <3>1, <3>2, WriteAdds DEF StartFirst, Of, Built
      <3>3. CASE j = Len(out') /\ call[t].kind # "raw"
        <4>1. pc[t] = "write" /\ Of(j)' = call[t]
          BY <2>2, <3>3, WriteAdds, HeadTyped DEF Write, Of
        <4>2. /\ Of(j)'.span = call[t].n /\ call[t].n \notin live
              /\ call[t].n # 0
          BY <4>1 DEF SpanInv, CallNames, IInv, CallFits
        <4>3. \A u \in Threads : pc[u] = "unlock" => call[u].n # call[t].n
          BY <4>1 DEF SpanInv, NumbersApart
        <4>4. ~ Known(call[t].n)
          BY <4>2, <4>3 DEF Known
        <4>5. Known(Of(i).span) /\ Known(Of(i).par)
          BY <3>1 DEF SpanInv, WrittenFits
        <4> QED
          BY <3>1, <4>2, <4>4, <4>5
      <3> QED
        BY <2>2, <3>2, <3>3, WriteAdds
    <2> QED
      BY <2>1, <2>2, OnlyWriteWrites
  <1> QED
    BY <1>1, <1>2, SpansInductive, PTL DEF Spec

(* Events come out in the order of their timestamps, but for span starts   *)
(* and for Event, which has none, and what a finish reports as elapsed is  *)
(* the distance to its start.                                              *)
THEOREM StampsInOrder == Spec => []StampsOrdered
  <1>1. Init => StampsOrdered
    BY DEF Init, StampsOrdered, Built
  <1>2. (IInv /\ EventsWhole /\ SpanInv) /\ StampsOrdered /\ [Next]_vars => StampsOrdered'
    <2> SUFFICES ASSUME IInv, EventsWhole, SpanInv, StampsOrdered, [Next]_vars
                 PROVE  StampsOrdered'
      OBVIOUS
    <2>1. CASE out' = out
      BY <2>1 DEF StampsOrdered, Built, Of
    <2>2. ASSUME NEW t \in Threads, Write(t), out' # out
          PROVE  StampsOrdered'
      <3> SUFFICES ASSUME NEW i \in Built', NEW j \in Built', i < j,
                          Of(j)'.kind \notin {"start", "event"}
                   PROVE  /\ out'[i][1].ts <= out'[j][1].ts
                          /\ Of(i)'.kind = "start" /\ Of(j)'.kind = "finish"
                               /\ Of(i)'.span = Of(j)'.span =>
                             out'[i][1].ts + out'[j][1].elapsed = out'[j][1].ts
        BY DEF StampsOrdered
      <3>1. i \in Built /\ i \in DOMAIN out /\ out'[i] = out[i] /\ Of(i)' = Of(i)
        BY <2>2, WriteAdds DEF Built, Of
      <3>2. CASE j \in Built
        <4>1. out'[j] = out[j] /\ Of(j)' = Of(j)
          BY <2>2, <3>2, WriteAdds DEF Built, Of
        <4> QED
          BY <3>1, <3>2, <4>1 DEF StampsOrdered
      <3>3. CASE j = Len(out') /\ call[t].kind # "raw"
        <4>1. pc[t] = "write" /\ Of(j)' = call[t] /\ out'[j] = b
          BY <2>2, <3>3, WriteAdds, HeadTyped DEF Write, Of
        <4>2. /\ out[i][1].ts <= b[1].ts
              /\ call[t].kind = "finish" => started[call[t].span] + b[1].elapsed = b[1].ts
          BY <3>1, <3>3, <4>1 DEF SpanInv, HeadFits
        <4>3. Of(i).kind = "start" => out[i][1].ts = started[Of(i).span]
          BY <3>1 DEF SpanInv, WrittenFits
        <4> QED
          BY <3>1, <4>1, <4>2, <4>3
      <3> QED
        BY <2>2, <3>2, <3>3, WriteAdds
    <2> QED
      BY <2>1, <2>2, OnlyWriteWrites
  <1> QED
    BY <1>1, <1>2, SpansInductive, PTL DEF Spec

-----------------------------------------------------------------------------
(* The verbosity filter.                                                   *)
Applies(rule, k) == AtPlace(rule, k.place) /\ matchTopics(rule, k.topics)
IsText(f) == f \in Seq(Range(f)) /\ \A j \in DOMAIN f : f[j].set \in BOOLEAN

-----------------------------------------------------------------------------
(* The loop of matchPattern. *)

LEMMA Smallest ==
  ASSUME NEW T, T \subseteq Nat, T # {}
  PROVE  \E x \in T : \A y \in T : x <= y
<1>1. \E x \in T : \A y \in T : ~(<<y, x>> \in OpToRel(<, Nat))
  BY WFMin, NatLessThanWellFounded, Zenon
<1>2. PICK x \in T : \A y \in T : ~(<<y, x>> \in OpToRel(<, Nat))
  BY <1>1
<1>3. \A y \in T : <<y, x>> \in OpToRel(<, Nat) <=> y < x
  BY DEF OpToRel
<1>4. \A y \in T : ~(y < x)
  BY <1>2, <1>3
<1> QED BY <1>4

(* What the first n rules of a text make of a key. *)
Upto(f, k, n) ==
  \/ \E j \in 1..n : Applies(f[j], k) /\ f[j].set /\ \A i \in j + 1..n : ~Applies(f[i], k)
  \/ (\A i \in 1..n : ~Applies(f[i], k)) /\ f # << >> /\ ~f[1].set

(* A run of the loop: r after each rule. *)
Runs(r, f, k) ==
  r = [j \in 0..Len(f) |-> IF j = 0 THEN f # << >> /\ ~f[1].set
                           ELSE IF AtPlace(f[j], k.place) /\ matchTopics(f[j], k.topics) THEN f[j].set
                           ELSE r[j - 1]]

LEMMA UptoSteps ==
  ASSUME NEW f, NEW k, IsText(f), NEW n \in 0..Len(f)
  PROVE  Upto(f, k, n) = IF n = 0 THEN f # << >> /\ ~f[1].set
                         ELSE IF Applies(f[n], k) THEN f[n].set ELSE Upto(f, k, n - 1)
<1>1. Len(f) \in Nat /\ DOMAIN f = 1..Len(f) /\ n \in Nat
  BY DEF IsText
<1>2. CASE n = 0
  <2>1. 1..n = {}
    BY <1>2
  <2> QED BY <1>2, <2>1 DEF Upto
<1>3. CASE n # 0
  <2>1. n \in 1..n /\ n \in DOMAIN f /\ f[n].set \in BOOLEAN /\ n - 1 \in Nat
    BY <1>1, <1>3 DEF IsText
  <2>2. n + 1..n = {}
    BY <1>1
  <2>3. 1..n = (1..n - 1) \union {n} /\ \A j \in 1..n - 1 : j + 1..n = (j + 1..n - 1) \union {n}
    BY <1>1, <1>3
  <2>4. CASE Applies(f[n], k)
    <3>1. \A j \in 1..n - 1 : n \in j + 1..n
      BY <2>3
    <3>2. Upto(f, k, n) <=> f[n].set
      BY <2>1, <2>2, <2>3, <2>4, <3>1 DEF Upto
    <3>3. Upto(f, k, n) \in BOOLEAN
      BY DEF Upto
    <3> QED BY <1>3, <2>1, <2>4, <3>2, <3>3
  <2>5. CASE ~Applies(f[n], k)
    <3>1. Upto(f, k, n) <=> Upto(f, k, n - 1)
      BY <2>1, <2>2, <2>3, <2>5 DEF Upto
    <3>2. Upto(f, k, n) \in BOOLEAN /\ Upto(f, k, n - 1) \in BOOLEAN
      BY DEF Upto
    <3> QED BY <1>3, <2>5, <3>1, <3>2
  <2> QED BY <2>4, <2>5
<1> QED BY <1>2, <1>3

LEMMA RunExists ==
  ASSUME NEW f, NEW k, IsText(f)
  PROVE  Runs([j \in 0..Len(f) |-> Upto(f, k, j)], f, k)
<1> DEFINE u == [j \in 0..Len(f) |-> Upto(f, k, j)]
<1>1. Len(f) \in Nat
  BY DEF IsText
<1>2. ASSUME NEW j \in 0..Len(f)
      PROVE  u[j] = IF j = 0 THEN f # << >> /\ ~f[1].set
                    ELSE IF Applies(f[j], k) THEN f[j].set ELSE u[j - 1]
  <2>1. u[j] = IF j = 0 THEN f # << >> /\ ~f[1].set
               ELSE IF Applies(f[j], k) THEN f[j].set ELSE Upto(f, k, j - 1)
    BY UptoSteps
  <2>2. j # 0 => j - 1 \in 0..Len(f)
    BY <1>1
  <2>3. j # 0 => u[j - 1] = Upto(f, k, j - 1)
    BY <2>2
  <2> HIDE DEF u
  <2> QED BY <2>1, <2>3
<1>3. u = [j \in 0..Len(f) |-> u[j]]
  OBVIOUS
<1> HIDE DEF u
<1>4. u = [j \in 0..Len(f) |-> IF j = 0 THEN f # << >> /\ ~f[1].set
                               ELSE IF Applies(f[j], k) THEN f[j].set ELSE u[j - 1]]
  BY <1>2, <1>3
<1>5. Runs(u, f, k)
  BY <1>4 DEF Runs, Applies
<1> QED BY <1>5 DEF u

LEMMA RunUnique ==
  ASSUME NEW f, NEW k, IsText(f), NEW r, Runs(r, f, k)
  PROVE  \A j \in 0..Len(f) : r[j] = Upto(f, k, j)
<1>1. Len(f) \in Nat
  BY DEF IsText
<1>2. \A j \in 0..Len(f) : r[j] = IF j = 0 THEN f # << >> /\ ~f[1].set
                                  ELSE IF Applies(f[j], k) THEN f[j].set ELSE r[j - 1]
  BY DEF Runs, Applies
<1> DEFINE T == {j \in 0..Len(f) : r[j] # Upto(f, k, j)}
<1>3. ASSUME T # {} PROVE FALSE
  <2>1. T \subseteq Nat
    BY <1>1
  <2>2. \E x \in T : \A y \in T : x <= y
    <3> HIDE DEF T
    <3> QED BY <1>3, <2>1, Smallest
  <2>3. PICK x \in T : \A y \in T : x <= y
    BY <2>2
  <2>4. x \in 0..Len(f) /\ r[x] # Upto(f, k, x)
    BY <2>3
  <2>5. x # 0 => x - 1 \in 0..Len(f) /\ ~(x <= x - 1)
    BY <1>1, <2>4
  <2>6. x # 0 => x - 1 \notin T
    BY <2>3, <2>5
  <2>7. x # 0 => r[x - 1] = Upto(f, k, x - 1)
    BY <2>5, <2>6
  <2>8. Upto(f, k, x) = IF x = 0 THEN f # << >> /\ ~f[1].set
                        ELSE IF Applies(f[x], k) THEN f[x].set ELSE Upto(f, k, x - 1)
    BY <2>4, UptoSteps
  <2>9. r[x] = IF x = 0 THEN f # << >> /\ ~f[1].set
               ELSE IF Applies(f[x], k) THEN f[x].set ELSE r[x - 1]
    BY <1>2, <2>4
  <2> QED BY <2>4, <2>7, <2>8, <2>9
<1> QED BY <1>3

(* The loop over the rules of a text computes what the text means.         *)
THEOREM MatchIsMeaning ==
  ASSUME NEW f, NEW k, IsText(f)
  PROVE  matchPattern(f, k) = Meaning(f, k) /\ Meaning(f, k) \in BOOLEAN
<1> DEFINE r == CHOOSE r : Runs(r, f, k)
<1>1. Runs(r, f, k)
  <2>1. \E q : Runs(q, f, k)
    BY RunExists
  <2> QED BY <2>1
<1>2. matchPattern(f, k) = r[Len(f)]
  BY DEF matchPattern, Runs
<1> HIDE DEF r
<1>3. Len(f) \in Nat /\ Len(f) \in 0..Len(f) /\ DOMAIN f = 1..Len(f)
  BY DEF IsText
<1>4. matchPattern(f, k) = Upto(f, k, Len(f))
  BY <1>1, <1>2, <1>3, RunUnique
<1>5. Upto(f, k, Len(f)) <=> Meaning(f, k)
  <2> DEFINE applying == {j \in DOMAIN f : AtPlace(f[j], k.place) /\ matchTopics(f[j], k.topics)}
  <2>1. \A j \in 1..Len(f) : j \in applying <=> Applies(f[j], k)
    BY <1>3 DEF Applies
  <2>2. applying \subseteq 1..Len(f)
    BY <1>3
  <2>3. Meaning(f, k) <=> \/ \E j \in applying : f[j].set /\ \A i \in applying : i <= j
                          \/ applying = {} /\ f # << >> /\ ~f[1].set
    BY DEF Meaning
  <2> HIDE DEF applying
  <2>4. ASSUME NEW j \in 1..Len(f)
        PROVE  (\A i \in applying : i <= j) <=> (\A i \in j + 1..Len(f) : ~Applies(f[i], k))
    BY <1>3, <2>1, <2>2
  <2>5. (\E j \in applying : f[j].set /\ \A i \in applying : i <= j)
        <=> \E j \in 1..Len(f) : Applies(f[j], k) /\ f[j].set /\ \A i \in j + 1..Len(f) : ~Applies(f[i], k)
    BY <2>1, <2>2, <2>4
  <2>6. applying = {} <=> \A i \in 1..Len(f) : ~Applies(f[i], k)
    BY <2>1, <2>2
  <2> QED BY <2>3, <2>5, <2>6 DEF Upto
<1>6. Upto(f, k, Len(f)) \in BOOLEAN /\ Meaning(f, k) \in BOOLEAN
  BY DEF Upto, Meaning
<1> QED BY <1>4, <1>5, <1>6

-----------------------------------------------------------------------------
(* The inductive invariant: the cache of every filter holds what its text  *)
(* means, and between the second look and the unlock the mutex is held, so *)
(* that nobody else fills the same entry.                                  *)

Held(t) == asking[t] \in {"again", "fill", "unlock"}

VerbosityType ==
  /\ made \in Nat /\ made <= MaxFilters /\ filter \in 0..made
  /\ text = [f \in Filters |-> text[f]] /\ \A f \in 1..made : text[f] \in Texts
  /\ c = [f \in Filters |-> c[f]] /\ \A f \in Filters : DOMAIN c[f] \subseteq Keys
  /\ fmu \in [Filters -> Askers \union {NoOne}]
  /\ asking \in [Askers -> {"idle", "rlock", "lock", "again", "fill", "unlock"}]
  /\ ask = [t \in Askers |-> ask[t]] /\ ans = [t \in Askers |-> ans[t]]
  /\ matched \in [Filters -> [Keys -> Nat]]

Asking ==
  \A t \in Askers :
    /\ ask[t].f # 0 => ask[t].f \in 1..made /\ ask[t].k \in Keys
    /\ asking[t] # "idle" => ask[t].f # 0

Fresh == \A f \in Filters : f > made => DOMAIN c[f] = {} /\ \A k \in Keys : matched[f][k] = 0
CacheRight == \A f \in Filters : \A k \in DOMAIN c[f] : c[f][k] = Meaning(text[f], k)
Exclusive ==
  \A t \in Askers :
    /\ Held(t) => fmu[ask[t].f] = t
    /\ asking[t] = "fill" => ~Cached(t)
RunOnce ==
  \A f \in Filters : \A k \in Keys :
    ~PatternPanics(text[f]) => matched[f][k] = IF k \in DOMAIN c[f] THEN 1 ELSE 0

FilterInv == VerbosityType /\ Asking /\ Fresh /\ CacheRight /\ Exclusive /\ RunOnce /\ AnswersRight

(* The texts of the filters made are texts the loop is proved right for. *)
LEMMA TextsMean ==
  ASSUME FilterInv, NEW f \in 1..made, NEW k
  PROVE  matchPattern(text[f], k) = Meaning(text[f], k) /\ Meaning(text[f], k) \in BOOLEAN
<1>1. text[f] \in Texts
  BY DEF FilterInv, VerbosityType
<1>2. IsText(text[f])
  BY <1>1, TextsAssumption DEF IsText
<1> QED BY <1>2, MatchIsMeaning

LEMMA StarSelects ==
  ASSUME NEW f, NEW k, All(f)
  PROVE  Meaning(f, k)
<1> DEFINE applying == {j \in DOMAIN f : AtPlace(f[j], k.place) /\ matchTopics(f[j], k.topics)}
<1>1. CASE 1 \in DOMAIN f /\ DOMAIN f = {1}
  <2>1. 1 \in applying /\ \A i \in applying : i <= 1
    BY <1>1 DEF All, AtPlace, matchTopics
  <2>2. f[1].set
    BY DEF All
  <2> QED BY <2>1, <2>2 DEF Meaning
<1> QED BY <1>1 DEF All

LEMMA InitHolds == FilterInit => FilterInv
<1> SUFFICES ASSUME FilterInit PROVE FilterInv
  OBVIOUS
<1> USE DEF FilterInit
<1>1. VerbosityType
  BY FilterBoundsAssumption DEF VerbosityType, Filters
<1>2. Asking
  BY DEF Asking
<1>3. Fresh
  BY DEF Fresh
<1>4. CacheRight
  BY DEF CacheRight
<1>5. Exclusive
  BY DEF Exclusive, Held
<1>6. RunOnce
  BY DEF RunOnce
<1>7. AnswersRight
  BY DEF AnswersRight
<1> QED BY <1>1, <1>2, <1>3, <1>4, <1>5, <1>6, <1>7 DEF FilterInv

(* A new filter is one nobody asks and nobody has cached anything in.      *)
LEMMA SetKeeps ==
  ASSUME FilterInv, SetVerbosity
  PROVE  FilterInv'
<1> USE DEF FilterInv
<1>1. UNCHANGED <<c, fmu, asking, ask, ans, asks, matched>> /\ made \in Nat /\ made < MaxFilters
  BY DEF SetVerbosity, VerbosityType
<1>2. /\ made' \in Nat /\ made <= made' /\ made' <= MaxFilters /\ filter' \in 0..made'
      /\ text' = [f \in Filters |-> text'[f]] /\ \A f \in 1..made' : text'[f] \in Texts
      /\ \A f \in Filters : f <= made => text'[f] = text[f]
      /\ 1..made \subseteq Filters
  <2>1. CASE filter' = 0 /\ UNCHANGED <<made, text>>
    <3>1. /\ text = [f \in Filters |-> text[f]] /\ \A f \in 1..made : text[f] \in Texts
          /\ made <= MaxFilters
      BY DEF VerbosityType
    <3>2. text' = text /\ made' = made /\ filter' = 0
      BY <2>1
    <3>3. 0 \in 0..made /\ 1..made \subseteq Filters /\ made <= made
      BY <1>1, <3>1, FilterBoundsAssumption DEF Filters
    <3> QED BY <1>1, <3>1, <3>2, <3>3
  <2>2. CASE made' = made + 1 /\ filter' = made' /\ \E f \in Texts : text' = [text EXCEPT ![made'] = f]
    <3>1. made + 1 \in Filters /\ 1..made + 1 = 1..made \union {made + 1}
      BY <1>1, FilterBoundsAssumption DEF Filters
    <3>2. PICK f \in Texts : text' = [text EXCEPT ![made + 1] = f]
      BY <2>2
    <3>3. text' = [g \in Filters |-> IF g = made + 1 THEN f ELSE text[g]]
      BY <3>2 DEF VerbosityType
    <3>4. text' = [g \in Filters |-> text'[g]]
      BY <3>3
    <3>5. \A g \in 1..made + 1 : text'[g] \in Texts
      <4>1. ASSUME NEW g \in 1..made + 1 PROVE text'[g] \in Texts
        <5>1. g \in Filters /\ (g = made + 1 \/ g \in 1..made)
          BY <1>1, <3>1, <4>1, FilterBoundsAssumption DEF Filters
        <5>2. \A h \in 1..made : text[h] \in Texts
          BY DEF VerbosityType
        <5>3. text'[g] = IF g = made + 1 THEN f ELSE text[g]
          BY <3>3, <5>1
        <5> QED BY <5>1, <5>2, <5>3
      <4> QED BY <4>1
    <3>6. \A g \in Filters : g <= made => text'[g] = text[g]
      BY <3>3, <1>1 DEF Filters
    <3>7. 1..made \subseteq Filters
      BY <1>1, FilterBoundsAssumption DEF Filters
    <3> QED BY <1>1, <2>2, <3>4, <3>5, <3>6, <3>7, FilterBoundsAssumption
  <2> QED BY <2>1, <2>2 DEF SetVerbosity
<1>3. VerbosityType'
  BY <1>1, <1>2 DEF VerbosityType
<1>4. Asking'
  <2>1. 1..made \subseteq 1..made'
    BY <1>1, <1>2
  <2> QED BY <1>1, <2>1 DEF Asking
<1>5. Fresh'
  BY <1>1, <1>2, FilterBoundsAssumption DEF Fresh, Filters
<1>6. \A f \in Filters : f <= made \/ (DOMAIN c[f] = {} /\ \A k \in Keys : matched[f][k] = 0)
  <2>1. \A f \in Filters : f <= made \/ f > made
    BY <1>1, FilterBoundsAssumption DEF Filters
  <2>2. ASSUME NEW f \in Filters, f > made
        PROVE  DOMAIN c[f] = {} /\ \A k \in Keys : matched[f][k] = 0
    BY <2>2 DEF Fresh
  <2> QED BY <2>1, <2>2
<1>7. CacheRight'
  BY <1>1, <1>2, <1>6 DEF CacheRight
<1>8. Exclusive'
  BY <1>1 DEF Exclusive, Held, Cached, CacheOf
<1>9. RunOnce'
  BY <1>1, <1>2, <1>6 DEF RunOnce
<1>10. AnswersRight'
  <2>1. \A t \in Askers : ask[t].f # 0 => text'[ask[t].f] = text[ask[t].f]
    BY <1>1, <1>2 DEF Asking
  <2> QED BY <1>1, <2>1 DEF AnswersRight
<1> QED BY <1>3, <1>4, <1>5, <1>7, <1>8, <1>9, <1>10

(* A question takes the filter in use; a nil one and "*" answer at once.   *)
LEMMA AskKeeps ==
  ASSUME FilterInv, NEW t \in Askers, Ask(t)
  PROVE  FilterInv'
<1> USE DEF FilterInv
<1>1. /\ asking[t] = "idle"
      /\ UNCHANGED <<filter, made, text, c, fmu, matched>>
  BY DEF Ask
<1>2. PICK k \in Keys : ask' = [ask EXCEPT ![t] = [f |-> filter, k |-> k]]
  BY DEF Ask
<1>3. /\ ask' = [u \in Askers |-> ask'[u]]
      /\ ask'[t].f = filter /\ ask'[t].k = k
      /\ \A u \in Askers : u # t => ask'[u] = ask[u]
  BY <1>2 DEF VerbosityType
<1>4. /\ ans' = [u \in Askers |-> ans'[u]]
      /\ \A u \in Askers : u # t => ans'[u] = ans[u]
  BY DEF Ask, Answer, VerbosityType
<1>5. /\ asking' \in [Askers -> {"idle", "rlock", "lock", "again", "fill", "unlock"}]
      /\ asking'[t] \in {"idle", "rlock"}
      /\ \A u \in Askers : u # t => asking'[u] = asking[u]
  BY <1>1 DEF Ask, Reach, VerbosityType
<1>6. /\ asking'[t] = "rlock" => filter # 0
      /\ asking'[t] = "idle" /\ filter # 0 => All(text[filter]) /\ ans'[t] = "yes"
  BY <1>1 DEF Ask, Reach, Answer, VerbosityType
<1>7. filter \in 0..made /\ made \in Nat
  BY DEF VerbosityType
<1>8. VerbosityType'
  BY <1>1, <1>3, <1>4, <1>5 DEF VerbosityType
<1>9. Asking'
  <2>1. ASSUME NEW u \in Askers
        PROVE  /\ ask'[u].f # 0 => ask'[u].f \in 1..made /\ ask'[u].k \in Keys
               /\ asking'[u] # "idle" => ask'[u].f # 0
    <3>1. CASE u = t
      BY <1>3, <1>5, <1>6, <1>7, <3>1
    <3>2. CASE u # t
      BY <1>3, <1>5, <3>2 DEF Asking
    <3> QED BY <3>1, <3>2
  <2> QED BY <1>1, <2>1 DEF Asking
<1>10. Fresh' /\ CacheRight' /\ RunOnce'
  BY <1>1 DEF Fresh, CacheRight, RunOnce
<1>11. Exclusive'
  BY <1>1, <1>3, <1>5 DEF Exclusive, Held, Cached, CacheOf
<1>12. AnswersRight'
  <2>1. filter # 0 /\ asking'[t] = "idle" => ans'[t] = Word(Meaning(text[filter], k))
    BY <1>6, StarSelects DEF Word
  <2>2. ASSUME NEW u \in Askers, asking'[u] \in {"idle", "unlock"}, ask'[u].f # 0, ans'[u] # "panic"
        PROVE  ans'[u] = Word(Meaning(text[ask'[u].f], ask'[u].k))
    <3>1. CASE u = t
      BY <1>3, <1>5, <2>1, <2>2, <3>1
    <3>2. CASE u # t
      BY <1>3, <1>4, <1>5, <2>2, <3>2 DEF AnswersRight
    <3> QED BY <3>1, <3>2
  <2> QED BY <1>1, <2>2 DEF AnswersRight
<1> QED BY <1>8, <1>9, <1>10, <1>11, <1>12

(* What a step of one thread may do to pc and ans. *)
Moves(t) ==
  /\ asking' \in [Askers -> {"idle", "rlock", "lock", "again", "fill", "unlock"}]
  /\ ans' = [u \in Askers |-> ans'[u]]
  /\ \A u \in Askers : u # t => asking'[u] = asking[u] /\ ans'[u] = ans[u]

LEMMA CachedMeans ==
  ASSUME FilterInv, NEW t \in Askers, asking[t] # "idle", Cached(t)
  PROVE  CacheOf(t)[ask[t].k] = Meaning(text[ask[t].f], ask[t].k)
<1>1. ask[t].f \in Filters
  <2>1. ask[t].f \in 1..made
    BY DEF FilterInv, Asking
  <2> QED BY <2>1, FilterBoundsAssumption DEF FilterInv, VerbosityType, Filters
<1> QED BY <1>1 DEF FilterInv, CacheRight, Cached, CacheOf

(* The first look answers from the cache, or leaves the answer open.       *)
LEMMA LookupKeeps ==
  ASSUME FilterInv, NEW t \in Askers, Lookup(t)
  PROVE  FilterInv'
<1> USE DEF FilterInv
<1>1. asking[t] = "rlock" /\ UNCHANGED <<filter, made, text, c, fmu, ask, asks, matched>>
  BY DEF Lookup
<1>2. Moves(t) /\ asking'[t] \in {"idle", "lock"}
      /\ (asking'[t] = "idle" => Cached(t) /\ ans'[t] = Word(CacheOf(t)[ask[t].k]))
  BY DEF Lookup, Reach, Answer, Moves, VerbosityType
<1>3. VerbosityType'
  BY <1>1, <1>2 DEF VerbosityType, Moves
<1>4. Asking'
  BY <1>1, <1>2 DEF Asking, Moves
<1>5. Fresh' /\ CacheRight' /\ RunOnce'
  BY <1>1 DEF Fresh, CacheRight, RunOnce
<1>6. Exclusive'
  BY <1>1, <1>2 DEF Exclusive, Held, Cached, CacheOf, Moves
<1>7. AnswersRight'
  <2>1. asking'[t] = "idle" => ans'[t] = Word(Meaning(text[ask[t].f], ask[t].k))
    BY <1>1, <1>2, CachedMeans
  <2>2. \A u \in Askers : asking'[u] \in {"idle", "unlock"} /\ ask[u].f # 0 /\ ans'[u] # "panic" =>
                             ans'[u] = Word(Meaning(text[ask[u].f], ask[u].k))
    BY <1>2, <2>1 DEF AnswersRight, Moves
  <2> QED BY <1>1, <2>2 DEF AnswersRight
<1> QED BY <1>3, <1>4, <1>5, <1>6, <1>7

(* The mutex of a filter is taken by a thread when nobody holds it.        *)
LEMMA LockKeeps ==
  ASSUME FilterInv, NEW t \in Askers, LockFilter(t)
  PROVE  FilterInv'
<1> USE DEF FilterInv
<1>1. /\ asking[t] = "lock" /\ fmu[ask[t].f] = NoOne
      /\ UNCHANGED <<filter, made, text, c, ask, ans, asks, matched>>
      /\ fmu' = [fmu EXCEPT ![ask[t].f] = t]
  BY DEF LockFilter
<1>2. Moves(t) /\ asking'[t] = "again"
  BY DEF LockFilter, Reach, Moves, VerbosityType
<1>3. ask[t].f \in Filters
  <2>1. ask[t].f \in 1..made
    BY <1>1 DEF Asking
  <2> QED BY <2>1, FilterBoundsAssumption DEF VerbosityType, Filters
<1>4. VerbosityType'
  BY <1>1, <1>2, <1>3 DEF VerbosityType, Moves
<1>5. Asking'
  BY <1>1, <1>2 DEF Asking, Moves
<1>6. Fresh' /\ CacheRight' /\ RunOnce'
  BY <1>1 DEF Fresh, CacheRight, RunOnce
<1>7. Exclusive'
  <2>1. fmu'[ask[t].f] = t
    BY <1>1, <1>3 DEF VerbosityType
  <2>2. \A u \in Askers : Held(u) => fmu'[ask[u].f] = u
    <3>1. ASSUME NEW u \in Askers, Held(u)
          PROVE  fmu'[ask[u].f] = u
      <4>1. fmu[ask[u].f] = u /\ u # NoOne
        BY <3>1, AskersAssumption DEF Exclusive
      <4>2. ask[u].f # ask[t].f
        BY <1>1, <4>1
      <4> QED BY <1>1, <4>1, <4>2 DEF VerbosityType
    <3> QED BY <3>1
  <2>3. ASSUME NEW u \in Askers
        PROVE  /\ Held(u)' => fmu'[ask[u].f] = u
               /\ asking'[u] = "fill" => ~Cached(u)
    BY <1>2, <2>1, <2>2 DEF Exclusive, Held, Moves
  <2> QED BY <1>1, <2>3 DEF Exclusive, Cached, CacheOf
<1>8. AnswersRight'
  BY <1>1, <1>2 DEF AnswersRight, Moves
<1> QED BY <1>4, <1>5, <1>6, <1>7, <1>8

(* The second look, under the mutex. *)
LEMMA AgainKeeps ==
  ASSUME FilterInv, NEW t \in Askers, Again(t)
  PROVE  FilterInv'
<1> USE DEF FilterInv
<1>1. asking[t] = "again" /\ UNCHANGED <<filter, made, text, c, fmu, ask, asks, matched>>
  BY DEF Again
<1>2. Moves(t) /\ asking'[t] \in {"unlock", "fill"}
      /\ (asking'[t] = "unlock" => Cached(t) /\ ans'[t] = Word(CacheOf(t)[ask[t].k]))
      /\ (asking'[t] = "fill" => ~Cached(t))
  BY DEF Again, Reach, Answer, Moves, VerbosityType
<1>3. VerbosityType'
  BY <1>1, <1>2 DEF VerbosityType, Moves
<1>4. Asking'
  BY <1>1, <1>2 DEF Asking, Moves
<1>5. Fresh' /\ CacheRight' /\ RunOnce'
  BY <1>1 DEF Fresh, CacheRight, RunOnce
<1>6. Exclusive'
  <2>1. \A u \in Askers : (asking'[u] \in {"again", "fill", "unlock"} => fmu[ask[u].f] = u)
                           /\ (asking'[u] = "fill" => ~Cached(u))
    BY <1>1, <1>2 DEF Exclusive, Held, Moves
  <2> QED BY <1>1, <2>1 DEF Exclusive, Held, Cached, CacheOf
<1>7. AnswersRight'
  <2>1. asking'[t] = "unlock" => ans'[t] = Word(Meaning(text[ask[t].f], ask[t].k))
    BY <1>1, <1>2, CachedMeans
  <2>2. \A u \in Askers : asking'[u] \in {"idle", "unlock"} /\ ask[u].f # 0 /\ ans'[u] # "panic" =>
                             ans'[u] = Word(Meaning(text[ask[u].f], ask[u].k))
    BY <1>2, <2>1 DEF AnswersRight, Moves
  <2> QED BY <1>1, <2>2 DEF AnswersRight
<1> QED BY <1>3, <1>4, <1>5, <1>6, <1>7

LEMMA UnlockKeeps ==
  ASSUME FilterInv, NEW t \in Askers, UnlockFilter(t)
  PROVE  FilterInv'
<1> USE DEF FilterInv
<1>1. /\ asking[t] = "unlock"
      /\ UNCHANGED <<filter, made, text, c, ask, ans, asks, matched>>
      /\ fmu' = [fmu EXCEPT ![ask[t].f] = NoOne]
  BY DEF UnlockFilter
<1>2. Moves(t) /\ asking'[t] = "idle"
  BY DEF UnlockFilter, Reach, Moves, VerbosityType
<1>3. VerbosityType'
  BY <1>1, <1>2 DEF VerbosityType, Moves
<1>4. Asking'
  BY <1>1, <1>2 DEF Asking, Moves
<1>5. Fresh' /\ CacheRight' /\ RunOnce'
  BY <1>1 DEF Fresh, CacheRight, RunOnce
<1>6. Exclusive'
  <2>1. fmu[ask[t].f] = t
    BY <1>1 DEF Exclusive, Held
  <2>2. ASSUME NEW u \in Askers, u # t, Held(u)
        PROVE  fmu'[ask[u].f] = u
    <3>1. fmu[ask[u].f] = u
      BY <2>2 DEF Exclusive
    <3>2. ask[u].f # ask[t].f
      BY <2>1, <2>2, <3>1
    <3> QED BY <1>1, <3>1, <3>2 DEF VerbosityType
  <2>3. ASSUME NEW u \in Askers
        PROVE  /\ Held(u)' => fmu'[ask[u].f] = u
               /\ asking'[u] = "fill" => ~Cached(u)
    BY <1>2, <2>2 DEF Exclusive, Held, Moves
  <2> QED BY <1>1, <2>3 DEF Exclusive, Cached, CacheOf
<1>7. AnswersRight'
  BY <1>1, <1>2 DEF AnswersRight, Moves
<1> QED BY <1>3, <1>4, <1>5, <1>6, <1>7

(* The answer is computed, cached and counted under the mutex; the entry   *)
(* was not there, and no other thread can be about to fill it.             *)
LEMMA FillKeeps ==
  ASSUME FilterInv, NEW t \in Askers, Fill(t)
  PROVE  FilterInv'
<1> USE DEF FilterInv
<1> DEFINE f == ask[t].f
           k == ask[t].k
           r == matchPattern(text[f], k)
<1>1. /\ asking[t] = "fill" /\ UNCHANGED <<filter, made, text, fmu, ask, asks>>
      /\ matched' = [matched EXCEPT ![f][k] = @ + 1]
      /\ IF PatternPanics(text[f]) THEN Answer(t, "panic") /\ UNCHANGED c
         ELSE /\ c' = [c EXCEPT ![f] = [x \in DOMAIN @ \union {k} |-> IF x = k THEN r ELSE @[x]]]
              /\ Answer(t, Word(r))
      /\ Reach(t, "unlock")
  BY DEF Fill
<1>2. f \in 1..made /\ f \in Filters /\ k \in Keys
  <2>1. f \in 1..made /\ k \in Keys
    BY <1>1 DEF Asking
  <2> QED BY <2>1, FilterBoundsAssumption DEF VerbosityType, Filters
<1>3. r = Meaning(text[f], k) /\ r \in BOOLEAN
  BY <1>2, TextsMean
<1>4. fmu[f] = t /\ k \notin DOMAIN c[f]
  BY <1>1 DEF Exclusive, Held, Cached, CacheOf
<1> HIDE DEF f, k, r
<1>5. Moves(t) /\ asking'[t] = "unlock"
  BY <1>1 DEF Reach, Answer, Moves, VerbosityType
<1>6. /\ matched' \in [Filters -> [Keys -> Nat]]
      /\ \A g \in Filters : \A x \in Keys :
           matched'[g][x] = IF g = f /\ x = k THEN matched[g][x] + 1 ELSE matched[g][x]
  <2>1. matched \in [Filters -> [Keys -> Nat]]
    BY DEF VerbosityType
  <2> QED BY <1>1, <1>2, <2>1
<1>7. /\ c' = [g \in Filters |-> c'[g]]
      /\ \A g \in Filters : g # f \/ PatternPanics(text[f]) => c'[g] = c[g]
      /\ ~PatternPanics(text[f]) => c'[f] = [x \in DOMAIN c[f] \union {k} |-> IF x = k THEN r ELSE c[f][x]]
  <2>1. c = [g \in Filters |-> c[g]]
    BY DEF VerbosityType
  <2> QED BY <1>1, <1>2, <2>1
<1>8. \A g \in Filters : DOMAIN c'[g] = IF g = f /\ ~PatternPanics(text[f]) THEN DOMAIN c[g] \union {k} ELSE DOMAIN c[g]
  <2>1. ~PatternPanics(text[f]) => DOMAIN c'[f] = DOMAIN c[f] \union {k}
    BY <1>7
  <2> QED BY <1>7, <2>1
<1>9. VerbosityType'
  <2>1. \A g \in Filters : DOMAIN c[g] \subseteq Keys
    BY DEF VerbosityType
  <2>2. \A g \in Filters : DOMAIN c'[g] \subseteq Keys
    BY <1>2, <1>8, <2>1
  <2> QED BY <1>1, <1>5, <1>6, <1>7, <2>2 DEF VerbosityType, Moves
<1>10. Asking'
  BY <1>1, <1>5 DEF Asking, Moves
<1>11. Fresh'
  <2>1. ASSUME NEW g \in Filters, g > made
        PROVE  DOMAIN c'[g] = {} /\ \A x \in Keys : matched'[g][x] = 0
    <3>1. g # f
      BY <1>2, <2>1 DEF VerbosityType
    <3>2. DOMAIN c[g] = {} /\ \A x \in Keys : matched[g][x] = 0
      BY <2>1 DEF Fresh
    <3> QED BY <1>6, <1>8, <3>1, <3>2
  <2> QED BY <1>1, <2>1 DEF Fresh
<1>12. CacheRight'
  <2>1. ASSUME NEW g \in Filters, NEW x \in DOMAIN c'[g]
        PROVE  c'[g][x] = Meaning(text[g], x)
    <3>1. CASE g # f \/ PatternPanics(text[f])
      BY <1>7, <2>1, <3>1 DEF CacheRight
    <3>2. CASE g = f /\ ~PatternPanics(text[f]) /\ x = k
      BY <1>3, <1>7, <2>1, <3>2
    <3>3. CASE g = f /\ ~PatternPanics(text[f]) /\ x # k
      <4>1. x \in DOMAIN c[f] /\ c'[f][x] = c[f][x]
        BY <1>7, <1>8, <2>1, <3>3
      <4> QED BY <1>2, <3>3, <4>1 DEF CacheRight
    <3> QED BY <3>1, <3>2, <3>3
  <2> QED BY <1>1, <2>1 DEF CacheRight
<1>13. Exclusive'
  <2>1. ASSUME NEW u \in Askers
        PROVE  /\ asking'[u] \in {"again", "fill", "unlock"} => fmu[ask[u].f] = u
               /\ asking'[u] = "fill" => ask[u].k \notin DOMAIN c'[ask[u].f]
    <3>1. CASE u = t
      BY <1>4, <1>5, <3>1 DEF f
    <3>2. CASE u # t
      <4>1. asking'[u] = asking[u]
        BY <1>5, <3>2 DEF Moves
      <4>2. Held(u) => fmu[ask[u].f] = u
        BY DEF Exclusive
      <4>3. ASSUME asking[u] = "fill" PROVE ask[u].k \notin DOMAIN c'[ask[u].f]
        <5>1. ask[u].f \in 1..made
          BY <4>3 DEF Asking
        <5>2. ask[u].f \in Filters
          BY <5>1, FilterBoundsAssumption DEF VerbosityType, Filters
        <5>3. ask[u].f # f
          BY <1>4, <3>2, <4>2, <4>3 DEF Held
        <5>4. ask[u].k \notin DOMAIN c[ask[u].f]
          BY <4>3 DEF Exclusive, Cached, CacheOf
        <5> QED BY <1>8, <5>2, <5>3, <5>4
      <4> QED BY <4>1, <4>2, <4>3 DEF Held
    <3> QED BY <3>1, <3>2
  <2> QED BY <1>1, <2>1 DEF Exclusive, Held, Cached, CacheOf
<1>14. RunOnce'
  <2>1. ASSUME NEW g \in Filters, NEW x \in Keys, ~PatternPanics(text[g])
        PROVE  matched'[g][x] = IF x \in DOMAIN c'[g] THEN 1 ELSE 0
    <3>1. matched[g][x] = IF x \in DOMAIN c[g] THEN 1 ELSE 0
      BY <2>1 DEF RunOnce
    <3>2. CASE g = f /\ x = k
      <4>1. matched[g][x] = 0 /\ x \in DOMAIN c'[g]
        BY <1>4, <1>8, <2>1, <3>1, <3>2
      <4> QED BY <1>6, <3>2, <4>1
    <3>3. CASE ~(g = f /\ x = k)
      <4>1. x \in DOMAIN c'[g] <=> x \in DOMAIN c[g]
        <5>1. DOMAIN c'[g] = IF g = f /\ ~PatternPanics(text[f]) THEN DOMAIN c[g] \union {k} ELSE DOMAIN c[g]
          BY <1>8
        <5>2. CASE g = f
          BY <3>3, <5>1, <5>2
        <5>3. CASE g # f
          BY <5>1, <5>3
        <5> QED BY <5>2, <5>3
      <4>2. matched'[g][x] = matched[g][x]
        BY <1>6, <3>3
      <4> QED BY <3>1, <4>1, <4>2
    <3> QED BY <3>2, <3>3
  <2> QED BY <1>1, <2>1 DEF RunOnce
<1>15. AnswersRight'
  <2>1. ans'[t] # "panic" => ans'[t] = Word(Meaning(text[ask[t].f], ask[t].k))
    BY <1>1, <1>3 DEF Answer, VerbosityType, f, k
  <2>2. ASSUME NEW u \in Askers, asking'[u] \in {"idle", "unlock"}, ask[u].f # 0, ans'[u] # "panic"
        PROVE  ans'[u] = Word(Meaning(text[ask[u].f], ask[u].k))
    BY <1>5, <2>1, <2>2 DEF AnswersRight, Moves
  <2> QED BY <1>1, <2>2 DEF AnswersRight
<1> QED BY <1>9, <1>10, <1>11, <1>12, <1>13, <1>14, <1>15

LEMMA FilterInductive == FilterInv /\ [FilterNext]_filterVars => FilterInv'
<1> SUFFICES ASSUME FilterInv, [FilterNext]_filterVars PROVE FilterInv'
  OBVIOUS
<1>1. CASE SetVerbosity
  BY <1>1, SetKeeps
<1>2. ASSUME NEW t \in Askers, Ask(t) \/ Acquire(t) \/ Finishing(t) PROVE FilterInv'
  <2>1. CASE Ask(t)
    BY <2>1, AskKeeps
  <2>2. CASE Lookup(t)
    BY <2>2, LookupKeeps
  <2>3. CASE LockFilter(t)
    BY <2>3, LockKeeps
  <2>4. CASE Again(t)
    BY <2>4, AgainKeeps
  <2>5. CASE Fill(t)
    BY <2>5, FillKeeps
  <2>6. CASE UnlockFilter(t)
    BY <2>6, UnlockKeeps
  <2> QED BY <1>2, <2>1, <2>2, <2>3, <2>4, <2>5, <2>6 DEF Acquire, Finishing
<1>3. CASE UNCHANGED filterVars
  <2>1. /\ filter' = filter /\ made' = made /\ text' = text /\ c' = c /\ fmu' = fmu
        /\ asking' = asking /\ ask' = ask /\ ans' = ans /\ matched' = matched
    BY <1>3 DEF filterVars
  <2>2. VerbosityType' /\ Asking' /\ Fresh'
    BY <2>1 DEF FilterInv, VerbosityType, Asking, Fresh
  <2>3. CacheRight' /\ Exclusive' /\ RunOnce' /\ AnswersRight'
    BY <2>1 DEF FilterInv, CacheRight, Exclusive, Held, Cached, CacheOf, RunOnce, AnswersRight
  <2> QED BY <2>2, <2>3 DEF FilterInv
<1> QED BY <1>1, <1>2, <1>3 DEF FilterNext, AllAsked

-----------------------------------------------------------------------------
(* An answer is what the text of the filter that was loaded for the        *)
(* question means, whoever of the threads computed and cached it           *)
(* (Logger.ifv, filter.match).                                                     *)
THEOREM AnswersMean == FilterSpec => []AnswersRight
<1>1. FilterInv => AnswersRight
  BY DEF FilterInv
<1> QED BY <1>1, InitHolds, FilterInductive, PTL DEF FilterSpec

(* However many threads miss the cache together, a text that compiles is   *)
(* run once for a place and topics (the second look of filter.match).      *)
THEOREM MatchedAtMostOnce == FilterSpec => []MatchedOnce
<1>1. FilterInv => MatchedOnce
  <2>1. ASSUME RunOnce, NEW f \in Filters, NEW k \in Keys, ~PatternPanics(text[f])
        PROVE  matched[f][k] <= 1
    <3>1. matched[f][k] = 1 \/ matched[f][k] = 0
      BY <2>1 DEF RunOnce
    <3> QED BY <3>1
  <2> QED BY <2>1 DEF FilterInv, MatchedOnce
<1> QED BY <1>1, InitHolds, FilterInductive, PTL DEF FilterSpec
=============================================================================
