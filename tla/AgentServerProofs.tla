------------------------- MODULE AgentServerProofs -------------------------
(***************************************************************************)
(* Proofs about AgentServer for any connections, requests, packets and     *)
(* scenarios: what a ReWriter wrote, what the Agent got of it, what the    *)
(* web server answered, and that the command ends idle.                    *)
(***************************************************************************)
EXTENDS AgentServer, Integers, FiniteSetTheorems, SequenceTheorems, TLAPS

-----------------------------------------------------------------------------
(* The program that logs: what its ReWriter keeps.                         *)
Pieces == [n : 1..MaxEvents, part : {"whole", "cut"}, try : {"first", "second"}]

ClientTypeOK ==
  /\ dialled \in 0..MaxConns /\ writer \in {0, dialled}
  /\ pc \in {"idle", "open", "first", "second"} /\ event \in 0..MaxEvents
  /\ content \in [R!Conns -> Seq(Pieces)]
  /\ acked \in Seq(1..MaxEvents)

(* Only the connection dialled last is written to, only an event that was  *)
(* begun, and never behind one the first attempt cut off.                  *)
ClientFits ==
  /\ pc # "idle" => event # 0
  /\ pc \in {"first", "second"} => writer # 0
  /\ \A c \in R!Conns : c > dialled => content[c] = << >>
  /\ \A c \in R!Conns : \A k \in DOMAIN content[c] :
       /\ content[c][k].n <= event
       /\ pc # "open" /\ c = writer => ~(content[c][k].part = "cut" /\ content[c][k].try = "first")

ClientInv == ClientTypeOK /\ ClientFits /\ NothingBehindCut /\ AckedWhole

-----------------------------------------------------------------------------
(* The server: its connections and the goroutines it counts.               *)
ServerTypeOK ==
  /\ run \in {"running", "stopping", "ended", "crashed"}
  /\ loop \in [Tasks -> {"accept", "wait", "done"}] /\ wg \in [Tasks -> Int]
  /\ gor \in [R!Conns -> {"none", "queued", "read", "close", "done"}]
  /\ why \in [R!Conns -> {"none", "reset", "eof", "failed"}]
  /\ pos \in [R!Conns -> Nat] /\ from \in [R!Conns -> Seq(Nat)]

(* A goroutine is where its connection is, and the Agent has the pieces it *)
(* read, as long as nothing stands behind an event that was cut off.       *)
Reads(c) ==
  /\ pos[c] = Len(from[c]) /\ pos[c] <= Len(content[c])
  /\ \A k \in DOMAIN from[c] : k \in R!WholePieces(c) /\ from[c][k] = content[c][k].n
  /\ why[c] = "eof" => R!WholePieces(c) \subseteq DOMAIN from[c]
StreamFits(c) ==
  /\ c > dialled => gor[c] = "none"
  /\ gor[c] \in {"none", "queued", "read"} => why[c] = "none"
  /\ why[c] = "eof" => c \in closed
  /\ Sound(c) => Reads(c)

(* The goroutines of each task, which its WaitGroup counts while the       *)
(* command runs; none is left when it is gone.                             *)
Reading == {c \in R!Conns : gor[c] \in {"read", "close"}}
Answering == {r \in Requests : W!Active(r)}
Counts(n, S) == IsFiniteSet(S) /\ n = Cardinality(S)
Counted ==
  /\ Alive => Counts(wg["stream"], Reading) /\ Counts(wg["http"], Answering)
  /\ ~Alive => Reading = {} /\ Answering = {}
  /\ \A t \in {"stream", "http"} : Alive /\ loop[t] = "done" => wg[t] = 0

ServerInv == ServerTypeOK /\ (\A c \in R!Conns : StreamFits(c)) /\ Counted

-----------------------------------------------------------------------------
(* The web server: an answer that was begun well, and how far it may be at *)
(* each position.  Nothing is written before the request is known, and a   *)
(* query writes behind the status it began with.                           *)
Positions == {"away", "queued", "head", "body", "query", "close", "drop", "closed", "dropped"}
Answers == Seq(W!Codes \union {"data", "footer", "error"})

Well(r, o) ==
  /\ o \in Answers
  /\ \A k \in DOMAIN o : o[k] \in W!Codes <=> k = 1
  /\ r.path # "files" /\ o # << >> /\ o[1] # "200" =>
       \A k \in DOMAIN o : o[k] \in {"404", "500", "error"}
AnswerAt(position, o) ==
  /\ position \in {"away", "queued", "head", "body"} => o = << >>
  /\ position = "query" => o = << >> \/ o[1] = "200"
  /\ position \in {"close", "closed"} => o # << >>

WebInv ==
  /\ wpc \in [Requests -> Positions] /\ DOMAIN out = Requests
  /\ out = [r \in Requests |-> out[r]]
  /\ \A r \in Requests : Well(r, out[r]) /\ AnswerAt(wpc[r], out[r])

IInv == ClientInv /\ ServerInv /\ WebInv

USE BoundsAssumption

-----------------------------------------------------------------------------
(* A step of the client that writes puts one piece of the event at the end *)
(* of the connection dialled last, which is not closed.                    *)
Puts(p) ==
  /\ pc \in {"first", "second"} /\ writer # 0 /\ writer = dialled /\ writer \notin closed
  /\ p.n = event /\ p.try = pc
  /\ content' = [content EXCEPT ![writer] = Append(@, p)]
  /\ UNCHANGED <<writer, dialled, closed, event>>
  /\ p.part = "cut" /\ p.try = "first" => pc' = "open"
  /\ pc' \in {"open", "idle"}
  /\ acked' = acked \/ (p.part = "whole" /\ acked' = Append(acked, event))

LEMMA PieceType ==
  ASSUME ClientTypeOK, ClientFits, pc \in {"first", "second"}
  PROVE  \A part \in {"whole", "cut"} : [n |-> event, part |-> part, try |-> pc] \in Pieces
  BY DEF ClientTypeOK, ClientFits, Pieces

LEMMA WriteOkPuts ==
  ASSUME ClientTypeOK, ClientFits, pc \in {"first", "second"},
         R!WriteOk, pc' = "idle", acked' = acked \/ acked' = Append(acked, event),
         UNCHANGED <<writer, dialled, closed, event>>
  PROVE  \E p \in Pieces : Puts(p)
  <1> DEFINE p == [n |-> event, part |-> "whole", try |-> pc]
  <1>1. p \in Pieces
    BY PieceType
  <1>2. Puts(p)
    BY DEF R!WriteOk, Puts, ClientTypeOK, ClientFits
  <1> QED
    BY <1>1, <1>2

LEMMA WriteErrPuts ==
  ASSUME ClientTypeOK, ClientFits, pc \in {"first", "second"},
         R!WriteErr, pc' \in {"open", "idle"}, pc = "first" => pc' = "open",
         UNCHANGED <<writer, dialled, closed, event, acked>>
  PROVE  content' = content \/ \E p \in Pieces : Puts(p)
  <1>1. SUFFICES ASSUME NEW part \in {"whole", "cut"}, writer \notin broken \union closed,
                        content' = [content EXCEPT ![writer] =
                           Append(@, [n |-> event, part |-> part, try |-> pc])]
                 PROVE  \E p \in Pieces : Puts(p)
    BY DEF R!WriteErr
  <1> DEFINE p == [n |-> event, part |-> part, try |-> pc]
  <1>2. p \in Pieces
    BY PieceType
  <1>3. Puts(p)
    BY <1>1 DEF Puts, ClientTypeOK, ClientFits
  <1> QED
    BY <1>2, <1>3

(* The step that writes, or one that leaves what was written.              *)
LEMMA ClientWrites ==
  ASSUME ClientTypeOK, ClientFits, R!Next
  PROVE  \/ \E p \in Pieces : Puts(p)
         \/ UNCHANGED <<content, acked>>
  <1>1. CASE R!First
    <2>1. CASE R!WriteOk /\ R!Return /\ R!Ack
      BY <1>1, <2>1, WriteOkPuts DEF R!First, R!Return, R!Ack
    <2>2. CASE R!WriteErr /\ pc' = "open" /\ UNCHANGED acked
      BY <1>1, <2>2, WriteErrPuts DEF R!First
    <2> QED
      BY <1>1, <2>1, <2>2 DEF R!First
  <1>2. CASE R!Second
    <2>1. CASE R!WriteOk /\ R!Ack
      BY <1>2, <2>1, WriteOkPuts DEF R!Second, R!Return, R!Ack
    <2>2. CASE R!WriteErr /\ UNCHANGED acked
      BY <1>2, <2>2, WriteErrPuts DEF R!Second, R!Return
    <2> QED
      BY <1>2, <2>1, <2>2 DEF R!Second
  <1>3. CASE R!Begin \/ R!Open \/ R!Close
    BY <1>3 DEF R!Begin, R!Open, R!Close
  <1> QED
    BY <1>1, <1>2, <1>3 DEF R!Next

(* What the connections hold after a piece was put.                        *)
LEMMA PutContent ==
  ASSUME ClientTypeOK, NEW p \in Pieces, Puts(p)
  PROVE  /\ writer \in R!Conns /\ content' \in [R!Conns -> Seq(Pieces)]
         /\ \A c \in R!Conns \ {writer} : content'[c] = content[c]
         /\ Len(content[writer]) \in Nat
         /\ DOMAIN content'[writer] = DOMAIN content[writer] \union {Len(content[writer]) + 1}
         /\ DOMAIN content[writer] = 1..Len(content[writer])
         /\ Len(content'[writer]) = Len(content[writer]) + 1
         /\ \A k \in DOMAIN content[writer] : content'[writer][k] = content[writer][k]
         /\ content'[writer][Len(content[writer]) + 1] = p
  <1>1. writer \in R!Conns /\ content[writer] \in Seq(Pieces)
    BY DEF ClientTypeOK, Puts, R!Conns
  <1>2. content' = [content EXCEPT ![writer] = Append(content[writer], p)]
    BY DEF Puts
  <1>3. content'[writer] = Append(content[writer], p) /\ Append(content[writer], p) \in Seq(Pieces)
    BY <1>1, <1>2 DEF ClientTypeOK
  <1>4. /\ content' \in [R!Conns -> Seq(Pieces)]
        /\ \A c \in R!Conns \ {writer} : content'[c] = content[c]
    BY <1>1, <1>2, <1>3 DEF ClientTypeOK
  <1>5. /\ Len(content'[writer]) = Len(content[writer]) + 1 /\ Len(content[writer]) \in Nat
        /\ DOMAIN content[writer] = 1..Len(content[writer])
        /\ DOMAIN content'[writer] = 1..Len(content'[writer])
        /\ \A k \in DOMAIN content[writer] : content'[writer][k] = content[writer][k]
        /\ content'[writer][Len(content[writer]) + 1] = p
    BY <1>1, <1>3
  <1> QED
    BY <1>1, <1>4, <1>5

LEMMA ClientTypeStep ==
  ASSUME ClientTypeOK, ClientFits, R!Next
  PROVE  ClientTypeOK'
  <1>1. /\ dialled' \in 0..MaxConns /\ writer' \in {0, dialled'}
        /\ pc' \in {"idle", "open", "first", "second"} /\ event' \in 0..MaxEvents
    BY DEF R!Next, R!Begin, R!First, R!Open, R!Second, R!Close, R!Return, R!DialFailed, ClientTypeOK
  <1>2. content' \in [R!Conns -> Seq(Pieces)] /\ acked' \in Seq(1..MaxEvents)
    <2>1. CASE UNCHANGED <<content, acked>>
      BY <2>1 DEF ClientTypeOK
    <2>2. ASSUME NEW p \in Pieces, Puts(p)
          PROVE  content' \in [R!Conns -> Seq(Pieces)] /\ acked' \in Seq(1..MaxEvents)
      <3>1. event \in 1..MaxEvents
        BY <2>2 DEF Puts, ClientTypeOK, ClientFits
      <3>2. acked' \in Seq(1..MaxEvents)
        <4>1. acked \in Seq(1..MaxEvents) /\ Append(acked, event) \in Seq(1..MaxEvents)
          BY <3>1 DEF ClientTypeOK
        <4> QED
          BY <2>2, <4>1 DEF Puts
      <3> QED
        BY <2>2, <3>2, PutContent
    <2> QED
      BY <2>1, <2>2, ClientWrites
  <1> QED
    BY <1>1, <1>2 DEF ClientTypeOK

(* Pieces are numbered as they are put.                                    *)
LEMMA PieceNumber ==
  ASSUME ClientTypeOK, NEW c \in R!Conns, NEW k \in DOMAIN content[c]
  PROVE  content[c][k] \in Pieces /\ k \in Nat /\ content[c][k].n \in Nat
  <1>1. content[c] \in Seq(Pieces)
    BY DEF ClientTypeOK
  <1>2. content[c][k] \in Pieces /\ k \in Nat
    BY <1>1
  <1> QED
    BY <1>2 DEF Pieces

LEMMA ClientFitsStep ==
  ASSUME ClientTypeOK, ClientFits, R!Next
  PROVE  ClientFits'
  <1>1. /\ pc' # "idle" => event' # 0
        /\ pc' \in {"first", "second"} => writer' # 0
    BY DEF R!Next, R!Begin, R!First, R!Open, R!Second, R!Close, R!Return, ClientTypeOK, ClientFits
  <1>2. CASE UNCHANGED <<content, acked>>
    <2>1. event \in Nat /\ event' \in Nat /\ event <= event'
      BY DEF R!Next, R!Begin, R!First, R!Open, R!Second, R!Close, ClientTypeOK
    <2>2. dialled \in Nat /\ dialled' \in Nat /\ dialled <= dialled'
      BY DEF R!Next, R!Begin, R!First, R!Open, R!Second, R!Close, ClientTypeOK
    <2>3. \/ writer' = writer /\ pc # "open"
          \/ writer' = 0
          \/ writer' = dialled + 1
      BY <1>2 DEF R!Next, R!Begin, R!First, R!Open, R!Second, R!Close, R!Return, R!DialFailed, ClientTypeOK
    <2>4. \A c \in R!Conns : c > dialled' => content'[c] = << >>
      BY <1>2, <2>2 DEF ClientFits, R!Conns
    <2>5. ASSUME NEW c \in R!Conns, NEW k \in DOMAIN content[c]
          PROVE  content[c][k].n <= event'
      BY <2>1, PieceNumber DEF ClientFits
    <2>6. ASSUME NEW c \in R!Conns, NEW k \in DOMAIN content[c], pc' # "open", c = writer'
          PROVE  ~(content[c][k].part = "cut" /\ content[c][k].try = "first")
      <3>1. c <= dialled
        BY <2>2 DEF ClientFits, R!Conns
      <3>2. writer' = writer /\ pc # "open"
        BY <2>2, <2>3, <2>6, <3>1 DEF R!Conns
      <3> QED
        BY <2>6, <3>2 DEF ClientFits
    <2> QED
      BY <1>1, <1>2, <2>4, <2>5, <2>6 DEF ClientFits
  <1>3. ASSUME NEW p \in Pieces, Puts(p)
        PROVE  ClientFits'
    <2>1. /\ writer' = writer /\ dialled' = dialled /\ event' = event
          /\ p.n = event /\ event \in Nat /\ pc # "open" /\ writer = dialled
      BY <1>3 DEF Puts, ClientTypeOK
    <2>2. \A c \in R!Conns : c > dialled' => content'[c] = << >>
      <3> SUFFICES ASSUME NEW c \in R!Conns, c > dialled' PROVE content'[c] = << >>
        OBVIOUS
      <3>1. c # writer
        BY <2>1 DEF ClientTypeOK, R!Conns
      <3>2. content'[c] = content[c]
        BY <1>3, <3>1, PutContent
      <3> QED
        BY <2>1, <3>2 DEF ClientFits
    <2>3. ASSUME NEW c \in R!Conns, NEW k \in DOMAIN content'[c]
          PROVE  /\ content'[c][k].n <= event
                 /\ pc' # "open" /\ c = writer =>
                      ~(content'[c][k].part = "cut" /\ content'[c][k].try = "first")
      <3>1. CASE c # writer
        BY <1>3, <3>1, PutContent DEF ClientFits
      <3>2. CASE c = writer /\ k \in DOMAIN content[writer]
        <4>1. content'[c][k] = content[c][k]
          BY <1>3, <3>2, PutContent
        <4> QED
          BY <2>1, <3>2, <4>1 DEF ClientFits
      <3>3. CASE c = writer /\ k = Len(content[writer]) + 1
        <4>1. content'[c][k] = p
          BY <1>3, <3>3, PutContent
        <4> QED
          BY <1>3, <2>1, <4>1 DEF Puts
      <3> QED
        BY <1>3, <2>3, <3>1, <3>2, <3>3, PutContent
    <2> QED
      BY <1>1, <2>1, <2>2, <2>3 DEF ClientFits
  <1> QED
    BY <1>2, <1>3, ClientWrites

LEMMA CutStep ==
  ASSUME ClientTypeOK, ClientFits, NothingBehindCut, R!Next
  PROVE  NothingBehindCut'
  <1>1. CASE UNCHANGED <<content, acked>>
    BY <1>1 DEF NothingBehindCut, R!NothingBehindCut
  <1>2. ASSUME NEW p \in Pieces, Puts(p)
        PROVE  NothingBehindCut'
    <2> SUFFICES ASSUME NEW c \in R!Conns, NEW k \in DOMAIN content'[c],
                        content'[c][k].part = "cut", content'[c][k].try = "first"
                 PROVE  k = Len(content'[c])
      BY DEF NothingBehindCut, R!NothingBehindCut
    <2>1. CASE c # writer
      BY <1>2, <2>1, PutContent DEF NothingBehindCut, R!NothingBehindCut
    <2>2. CASE c = writer
      <3>1. k \notin DOMAIN content[c]
        BY <1>2, <2>2, PutContent DEF ClientFits, Puts
      <3> QED
        BY <1>2, <2>2, <3>1, PutContent
    <2> QED
      BY <2>1, <2>2
  <1> QED
    BY <1>1, <1>2, ClientWrites

LEMMA AckedStep ==
  ASSUME ClientTypeOK, ClientFits, AckedWhole, R!Next
  PROVE  AckedWhole'
  <1>1. CASE UNCHANGED <<content, acked>>
    BY <1>1 DEF AckedWhole, R!AckedWhole, R!WholePieces
  <1>2. ASSUME NEW p \in Pieces, Puts(p)
        PROVE  AckedWhole'
    <2> DEFINE last == Len(content[writer]) + 1
    <2>1. ASSUME NEW c \in R!Conns
          PROVE  /\ R!WholePieces(c) \subseteq R!WholePieces(c)'
                 /\ \A k \in R!WholePieces(c) : content'[c][k] = content[c][k]
                 /\ \A k \in R!WholePieces(c)' :
                      k \in R!WholePieces(c) \/ (c = writer /\ k = last /\ content'[c][k] = p)
      BY <1>2, PutContent DEF R!WholePieces
    <2>2. ASSUME NEW a \in Range(acked')
          PROVE  \E c \in R!Conns : \E k \in R!WholePieces(c)' : content'[c][k].n = a
      <3>1. CASE a \in Range(acked)
        <4>1. PICK c \in R!Conns : \E k \in R!WholePieces(c) : content[c][k].n = a
          BY <3>1 DEF AckedWhole, R!AckedWhole, Range, R!Range
        <4>2. PICK k \in R!WholePieces(c) : content[c][k].n = a
          BY <4>1
        <4>3. k \in R!WholePieces(c)' /\ content'[c][k].n = a
          BY <2>1, <4>2
        <4> QED
          BY <4>3
      <3>2. CASE a \notin Range(acked)
        <4>1. acked' = Append(acked, event) /\ p.part = "whole"
          BY <1>2, <2>2, <3>2 DEF Puts
        <4>2. acked \in Seq(1..MaxEvents) /\ acked' \in Seq(Nat)
          BY <4>1 DEF ClientTypeOK
        <4>3. a = event
          <5>1. PICK i \in DOMAIN acked' : a = acked'[i]
            BY <2>2 DEF Range
          <5>2. i \notin DOMAIN acked
            BY <3>2, <4>1, <4>2, <5>1 DEF Range
          <5> QED
            BY <4>1, <4>2, <5>1, <5>2
        <4>4. PICK c \in R!Conns : c = writer
          BY <1>2, PutContent
        <4>5. content'[c][last] = p /\ last \in DOMAIN content'[c]
          BY <1>2, <4>4, PutContent
        <4>6. last \in R!WholePieces(c)' /\ content'[c][last].n = event
          BY <1>2, <4>1, <4>5 DEF R!WholePieces, Puts
        <4> QED
          BY <4>3, <4>6
      <3> QED
        BY <3>1, <3>2
    <2>3. ASSUME NEW c \in R!Conns, NEW d \in R!Conns,
                 NEW j \in R!WholePieces(c)', NEW k \in R!WholePieces(d)',
                 c < d \/ (c = d /\ j < k)
          PROVE  content'[c][j].n <= content'[d][k].n
      <3>1. /\ writer = dialled /\ p.n = event /\ event \in Nat /\ dialled \in Nat
            /\ ClientTypeOK' /\ ClientFits'
            /\ event' = event
        BY <1>2, ClientTypeStep, ClientFitsStep DEF Puts, ClientTypeOK
      <3>2. CASE j \in R!WholePieces(c) /\ k \in R!WholePieces(d)
        BY <2>1, <2>3, <3>2 DEF AckedWhole, R!AckedWhole
      <3>3. CASE d = writer /\ k = last /\ content'[d][k] = p
        <4>1. j \in DOMAIN content'[c]
          BY DEF R!WholePieces
        <4>2. content'[c][j].n <= event'
          BY <3>1, <4>1 DEF ClientFits
        <4> QED
          BY <3>1, <3>3, <4>2
      <3>4. CASE c = writer /\ j = last /\ k \in R!WholePieces(d)
        <4>1. d <= dialled /\ k \in DOMAIN content[d]
          BY <3>1, <3>4 DEF ClientFits, R!WholePieces, R!Conns
        <4>2. c = d /\ last < k
          BY <2>3, <3>1, <3>4, <4>1 DEF R!Conns
        <4> QED
          BY <1>2, <3>4, <4>1, <4>2, PutContent
      <3> QED
        BY <2>1, <3>2, <3>3, <3>4
    <2> QED
      BY <2>2, <2>3 DEF AckedWhole, R!AckedWhole, Range, R!Range
  <1> QED
    BY <1>1, <1>2, ClientWrites

LEMMA ClientStep ==
  ASSUME ClientInv, R!Next
  PROVE  ClientInv'
  BY ClientTypeStep, ClientFitsStep, CutStep, AckedStep DEF ClientInv

-----------------------------------------------------------------------------
(* What the operators of the web server make of an answer.                 *)
LEMMA StatusWell ==
  ASSUME NEW r, NEW o, Well(r, o), NEW code \in W!Codes
  PROVE  /\ Well(r, W!Status(o, code)) /\ W!Status(o, code) # << >>
         /\ o # << >> => W!Status(o, code) = o
         /\ o = << >> => W!Status(o, code)[1] = code
  <1>1. << code >> \in Answers /\ Len(<< code >>) = 1 /\ << code >>[1] = code
    BY DEF Answers
  <1>2. Well(r, << code >>) /\ << code >> # << >>
    BY <1>1 DEF Well, W!Codes
  <1> QED
    BY <1>1, <1>2 DEF W!Status

LEMMA WriteWell ==
  ASSUME NEW r, NEW o, Well(r, o), NEW x \in {"data", "footer", "error"},
         x = "error" \/ o = << >> \/ o[1] = "200"
  PROVE  /\ Well(r, W!Write(o, x)) /\ W!Write(o, x) # << >>
         /\ o = << >> \/ o[1] = "200" => W!Write(o, x)[1] = "200"
  <1> DEFINE s == W!Status(o, "200")
  <1>1. Well(r, s) /\ s # << >> /\ (o = << >> \/ o[1] = "200" => s[1] = "200")
        /\ (x = "error" \/ s[1] = "200")
    BY StatusWell DEF W!Codes
  <1> HIDE DEF s
  <1>2. s \in Answers /\ Append(s, x) \in Answers
    BY <1>1 DEF Well, Answers
  <1>3. /\ Len(s) \in Nat \ {0} /\ DOMAIN s = 1..Len(s) /\ DOMAIN Append(s, x) = 1..(Len(s) + 1)
        /\ \A k \in 1..Len(s) : Append(s, x)[k] = s[k]
        /\ Append(s, x)[Len(s) + 1] = x
    BY <1>1, <1>2 DEF Answers
  <1>4. Well(r, Append(s, x)) /\ Append(s, x) # << >> /\ Append(s, x)[1] = s[1]
    BY <1>1, <1>2, <1>3 DEF Well, W!Codes
  <1> QED
    BY <1>1, <1>4 DEF W!Write, s

LEMMA AnswerWell ==
  ASSUME NEW r, NEW o, Well(r, o)
  PROVE  /\ Well(r, W!Answer(o)) /\ W!Answer(o) # << >>
         /\ Well(r, W!AnswerError(o)) /\ W!AnswerError(o) # << >>
  <1>1. Well(r, W!Status(o, "500"))
    BY StatusWell DEF W!Codes
  <1> QED
    BY <1>1, StatusWell, WriteWell DEF W!Answer, W!AnswerError, W!Codes

(* A step that takes one connection to a position with an answer that fits *)
(* it keeps the invariant.                                                 *)
Moves(r, position, o) ==
  /\ wpc' = [wpc EXCEPT ![r] = position]
  /\ out' = [out EXCEPT ![r] = o]
Fits(r, position, o) == position \in Positions /\ Well(r, o) /\ AnswerAt(position, o)

LEMMA MovesWeb ==
  ASSUME WebInv, NEW r \in Requests, NEW position, NEW o,
         Moves(r, position, o), Fits(r, position, o)
  PROVE  WebInv'
  <1>1. /\ wpc' \in [Requests -> Positions] /\ DOMAIN out' = Requests
        /\ out' = [q \in Requests |-> out'[q]]
    BY DEF Moves, Fits, WebInv
  <1>2. wpc'[r] = position /\ out'[r] = o
    BY DEF Moves, WebInv
  <1>3. \A q \in Requests \ {r} : wpc'[q] = wpc[q] /\ out'[q] = out[q]
    BY DEF Moves, WebInv
  <1> QED
    BY <1>1, <1>2, <1>3 DEF Fits, WebInv

LEMMA WebSame ==
  ASSUME WebInv, NEW r \in Requests, out' = out
  PROVE  \A position : W!Goto(r, position) => Moves(r, position, out[r])
  BY DEF W!Goto, Moves, WebInv

(* The steps within a request.                                             *)
Inside == {"head", "body", "query", "close", "drop"}
LEMMA WebInside ==
  ASSUME WebInv, NEW r \in Requests,
         W!WebClient(r) \/ W!WebWaits(r) \/ W!WebServes(r)
  PROVE  \/ UNCHANGED <<wpc, out>>
         \/ \E position \in Inside, o \in Answers :
              wpc[r] \in Inside /\ Moves(r, position, o) /\ Fits(r, position, o)
  <1>1. Well(r, out[r]) /\ AnswerAt(wpc[r], out[r]) /\ out[r] \in Answers
    BY DEF WebInv, Well
  <1>2. CASE W!WebClient(r) \/ W!Discard(r)
    BY <1>2 DEF W!WebClient, W!HangUp, W!SendBody, W!Discard
  <1>3. CASE W!ReadHead(r) \/ W!HeadFails(r)
    <2>1. PICK position \in {"body", "drop"} : W!Goto(r, position) /\ out' = out /\ wpc[r] = "head"
      BY <1>3 DEF W!ReadHead, W!HeadFails
    <2>2. Fits(r, position, out[r]) /\ Moves(r, position, out[r])
      BY <1>1, <2>1, WebSame DEF Fits, Positions, AnswerAt
    <2> QED
      BY <1>1, <2>1, <2>2 DEF Inside
  <1>4. CASE W!Query(r)
    <2> DEFINE o == W!Write(out[r], "data")
    <2>1. wpc[r] = "query" /\ out' = [out EXCEPT ![r] = o] /\ wpc' = wpc
      BY <1>4 DEF W!Query
    <2>2. Well(r, o) /\ o[1] = "200"
      BY <1>1, <2>1, WriteWell DEF AnswerAt
    <2>3. Fits(r, "query", o) /\ Moves(r, "query", o) /\ o \in Answers
      BY <2>1, <2>2 DEF Fits, Positions, AnswerAt, Moves, WebInv, Well
    <2> QED
      BY <2>1, <2>3 DEF Inside
  <1>5. ASSUME NEW o, W!Reply(r, o), Well(r, o), o # << >>, wpc[r] \in Inside
        PROVE  \E position \in Inside, a \in Answers :
                 wpc[r] \in Inside /\ Moves(r, position, a) /\ Fits(r, position, a)
    <2>1. Fits(r, "close", o) /\ Moves(r, "close", o) /\ o \in Answers
      BY <1>5 DEF Fits, Positions, AnswerAt, Moves, W!Reply, W!Goto, Well
    <2> QED
      BY <1>5, <2>1 DEF Inside
  <1>6. CASE W!ServeBody(r)
    <2>1. wpc[r] = "body" /\ wpc[r] \in Inside
      BY <1>6 DEF W!ServeBody, Inside
    <2>2. ASSUME r.path = "files", NEW answer \in {<< "200", "data" >>, << "404", "data" >>},
                 W!Reply(r, W!Answer(answer))
          PROVE  \E position \in Inside, a \in Answers :
                   wpc[r] \in Inside /\ Moves(r, position, a) /\ Fits(r, position, a)
      <3>1. Well(r, answer)
        <4>1. PICK code \in {"200", "404"} : answer = << code, "data" >>
          BY <2>2
        <4>2. << code, "data" >> \in Answers
          BY DEF Answers, W!Codes
        <4>3. Len(answer) = 2 /\ DOMAIN answer = 1..2 /\ answer[1] = code /\ answer[2] = "data"
          BY <4>1
        <4> QED
          BY <2>2, <4>1, <4>2, <4>3 DEF Well, W!Codes
      <3> QED
        BY <1>5, <2>1, <2>2, <3>1, AnswerWell
    <2>3. CASE W!Reply(r, W!AnswerError(out[r]))
      BY <1>1, <1>5, <2>1, <2>3, AnswerWell
    <2>4. CASE W!Goto(r, "query") /\ out' = out
      <3>1. Fits(r, "query", out[r]) /\ Moves(r, "query", out[r])
        BY <1>1, <2>1, <2>4, WebSame DEF Fits, Positions, AnswerAt
      <3> QED
        BY <1>1, <2>1, <3>1 DEF Inside
    <2> QED
      BY <1>6, <2>2, <2>3, <2>4 DEF W!ServeBody
  <1>7. CASE W!BodyFails(r)
    BY <1>1, <1>5, <1>7, AnswerWell DEF W!BodyFails, Inside
  <1>8. CASE W!QueryEnds(r)
    <2>1. PICK o : /\ o = IF r.html THEN W!Write(out[r], "footer") ELSE out[r]
                   /\ W!Reply(r, W!Answer(o)) \/ W!Reply(r, W!AnswerError(o))
                   /\ wpc[r] = "query"
      BY <1>8 DEF W!QueryEnds
    <2>2. Well(r, o)
      BY <1>1, <2>1, WriteWell DEF AnswerAt
    <2> QED
      BY <1>5, <2>1, <2>2, AnswerWell DEF Inside
  <1> QED
    BY <1>2, <1>3, <1>4, <1>6, <1>7, <1>8 DEF W!WebWaits, W!WebServes

(* The connections come and go, and may be dropped with the process.       *)
LEMMA WebCome ==
  ASSUME WebInv, NEW r \in Requests, W!Connect(r) \/ W!AcceptWeb(r)
  PROVE  WebInv'
  <1>1. PICK position \in {"queued", "head"} :
          W!Goto(r, position) /\ out' = out /\ wpc[r] \in {"away", "queued"}
    BY DEF W!Connect, W!AcceptWeb
  <1>2. Well(r, out[r]) /\ AnswerAt(wpc[r], out[r])
    BY DEF WebInv
  <1>3. Fits(r, position, out[r]) /\ Moves(r, position, out[r])
    BY <1>1, <1>2, WebSame DEF Fits, Positions, AnswerAt
  <1> QED
    BY <1>3, MovesWeb

LEMMA WebGo ==
  ASSUME WebInv, NEW r \in Requests, W!CloseWeb(r)
  PROVE  WebInv'
  <1>1. PICK position \in {"closed", "dropped"} :
          /\ W!Goto(r, position) /\ out' = out
          /\ position = "closed" => wpc[r] = "close"
    BY DEF W!CloseWeb
  <1>2. Well(r, out[r]) /\ AnswerAt(wpc[r], out[r])
    BY DEF WebInv
  <1>3. Fits(r, position, out[r]) /\ Moves(r, position, out[r])
    BY <1>1, <1>2, WebSame DEF Fits, Positions, AnswerAt
  <1> QED
    BY <1>3, MovesWeb

LEMMA WebInsideStep ==
  ASSUME WebInv, NEW r \in Requests,
         W!WebClient(r) \/ W!WebWaits(r) \/ W!WebServes(r)
  PROVE  WebInv'
  <1>1. CASE UNCHANGED <<wpc, out>>
    BY <1>1 DEF WebInv
  <1> QED
    BY <1>1, WebInside, MovesWeb

LEMMA WebExit ==
  ASSUME WebInv, NEW how, Exit(how)
  PROVE  WebInv'
  <1>1. /\ out' = out /\ wpc' \in [Requests -> Positions]
        /\ \A r \in Requests : wpc'[r] = wpc[r] \/ wpc'[r] = "dropped"
    BY DEF Exit, WebInv, Positions
  <1> QED
    BY <1>1 DEF WebInv, AnswerAt

-----------------------------------------------------------------------------
(* Steps of the client only add to what a connection holds, and nothing to *)
(* one that is closed.                                                     *)
LEMMA ClientAdds ==
  ASSUME ClientInv, R!Next
  PROVE  /\ closed \subseteq closed'
         /\ \A c \in R!Conns :
              /\ Len(content[c]) \in Nat /\ Len(content'[c]) \in Nat
              /\ DOMAIN content[c] = 1..Len(content[c])
              /\ DOMAIN content'[c] = 1..Len(content'[c])
              /\ Len(content[c]) <= Len(content'[c])
              /\ \A k \in DOMAIN content[c] : content'[c][k] = content[c][k]
              /\ c \in closed => content'[c] = content[c]
  <1>1. closed \subseteq closed'
    BY DEF R!Next, R!Begin, R!First, R!Open, R!Second, R!Close, R!CloseConn
  <1>2. ClientTypeOK /\ ClientTypeOK'
    BY ClientTypeStep DEF ClientInv
  <1>3. \A c \in R!Conns : content[c] \in Seq(Pieces) /\ content'[c] \in Seq(Pieces)
    BY <1>2 DEF ClientTypeOK
  <1>4. \A c \in R!Conns :
          /\ Len(content[c]) \in Nat /\ Len(content'[c]) \in Nat
          /\ DOMAIN content[c] = 1..Len(content[c])
          /\ DOMAIN content'[c] = 1..Len(content'[c])
    BY <1>3
  <1>5. ASSUME NEW c \in R!Conns
        PROVE  /\ Len(content[c]) <= Len(content'[c])
               /\ \A k \in DOMAIN content[c] : content'[c][k] = content[c][k]
               /\ c \in closed => content'[c] = content[c]
    <2>1. CASE UNCHANGED <<content, acked>>
      BY <1>4, <2>1
    <2>2. ASSUME NEW p \in Pieces, Puts(p)
          PROVE  /\ Len(content[c]) <= Len(content'[c])
                 /\ \A k \in DOMAIN content[c] : content'[c][k] = content[c][k]
                 /\ c \in closed => content'[c] = content[c]
      <3>1. CASE c = writer
        BY <1>2, <1>4, <2>2, <3>1, PutContent DEF Puts
      <3>2. CASE c # writer
        BY <1>2, <1>4, <2>2, <3>2, PutContent
      <3> QED
        BY <3>1, <3>2
    <2> QED
      BY <2>1, <2>2, ClientWrites DEF ClientInv
  <1> QED
    BY <1>1, <1>4, <1>5

(* A goroutine that does not move keeps what it has while its connection   *)
(* only grows.                                                             *)
LEMMA StreamKept ==
  ASSUME NEW c \in R!Conns, StreamFits(c), dialled \in Int, dialled' \in Int,
         dialled <= dialled' \/ c <= dialled',
         c > dialled' => gor'[c] = "none",
         pos'[c] = pos[c], from'[c] = from[c], why'[c] = why[c],
         gor'[c] \in {"none", "queued", "read"} => gor[c] \in {"none", "queued", "read"},
         closed \subseteq closed',
         Len(content[c]) \in Nat, Len(content'[c]) \in Nat,
         DOMAIN content[c] = 1..Len(content[c]), DOMAIN content'[c] = 1..Len(content'[c]),
         Len(content[c]) <= Len(content'[c]),
         \A k \in DOMAIN content[c] : content'[c][k] = content[c][k],
         c \in closed => content'[c] = content[c], pos[c] \in Nat
  PROVE  StreamFits(c)'
  <1>1. Sound(c)' => Sound(c)
    BY DEF Sound
  <1>2. ASSUME Reads(c) PROVE Reads(c)'
    <2>1. \A k \in R!WholePieces(c) : k \in R!WholePieces(c)' /\ content'[c][k] = content[c][k]
      BY DEF R!WholePieces
    <2>2. why[c] = "eof" => R!WholePieces(c)' = R!WholePieces(c)
      BY DEF StreamFits, R!WholePieces
    <2> QED
      BY <1>2, <2>1, <2>2 DEF Reads
  <1> QED
    BY <1>1, <1>2 DEF StreamFits

(* What every step does that leaves the content and the closed connections *)
(* alone, as the steps of the server do.                                   *)
LEMMA ContentTyped ==
  ASSUME ClientInv, NEW c \in R!Conns
  PROVE  /\ content[c] \in Seq(Pieces) /\ Len(content[c]) \in Nat
         /\ DOMAIN content[c] = 1..Len(content[c]) /\ dialled \in Int /\ c \in Nat
  <1>1. content[c] \in Seq(Pieces) /\ dialled \in Int /\ c \in Nat
    BY DEF ClientInv, ClientTypeOK, R!Conns
  <1> QED
    BY <1>1

LEMMA StreamSame ==
  ASSUME ClientInv, ServerInv, NEW c \in R!Conns, UNCHANGED <<content, closed, dialled>>,
         pos'[c] = pos[c], from'[c] = from[c],
         gor'[c] = gor[c] \/ (gor[c] # "none" /\ gor'[c] \in {"close", "done"})
           \/ (gor[c] = "queued" /\ gor'[c] = "read"),
         why'[c] = why[c] \/ (why'[c] \in {"reset", "failed"} /\ gor'[c] \in {"close", "done"})
  PROVE  StreamFits(c)'
  <1>1. /\ StreamFits(c) /\ pos[c] \in Nat
        /\ gor[c] \in {"none", "queued", "read", "close", "done"}
    BY DEF ServerInv, ServerTypeOK
  <1>2. CASE why'[c] = why[c]
    <2>1. c > dialled' => gor'[c] = "none"
      BY <1>1 DEF StreamFits
    <2>2. gor'[c] \in {"none", "queued", "read"} => gor[c] \in {"none", "queued", "read"}
      BY <1>1
    <2> QED
      BY <1>1, <1>2, <2>1, <2>2, ContentTyped, StreamKept
  <1>3. CASE why'[c] \in {"reset", "failed"} /\ gor'[c] \in {"close", "done"}
    <2>1. c > dialled' => gor'[c] = "none"
      BY <1>1, <1>3 DEF StreamFits
    <2>2. Sound(c)' => Reads(c)'
      BY <1>1, <1>3 DEF StreamFits, Reads, Sound, R!WholePieces
    <2> QED
      BY <1>3, <2>1, <2>2 DEF StreamFits
  <1> QED
    BY <1>2, <1>3

-----------------------------------------------------------------------------
(* Counting: a set that gains or loses one element.                        *)
LEMMA CountAdd ==
  ASSUME NEW n, NEW S, Counts(n, S), NEW x, x \notin S
  PROVE  Counts(n + 1, S \union {x})
  BY FS_AddElement DEF Counts

LEMMA CountRemove ==
  ASSUME NEW n, NEW S, Counts(n, S), NEW x \in S
  PROVE  Counts(n - 1, S \ {x}) /\ n # 0
  BY FS_RemoveElement, FS_EmptySet, FS_CardinalityType DEF Counts

LEMMA CountNone == Counts(0, {})
  BY FS_EmptySet DEF Counts

LEMMA CountZero ==
  ASSUME NEW S, Counts(0, S)
  PROVE  S = {}
  BY FS_EmptySet DEF Counts

(* Steps that move no goroutine and no group keep the count.               *)
LEMMA CountedKept ==
  ASSUME Counted, Reading' = Reading, Answering' = Answering,
         UNCHANGED <<wg, run>>,
         \A t \in {"stream", "http"} : Alive /\ loop'[t] = "done" => loop[t] = "done" \/ wg[t] = 0
  PROVE  Counted'
  BY DEF Counted, Alive

LEMMA AnsweringSame ==
  ASSUME UNCHANGED wpc
  PROVE  Answering' = Answering
  BY DEF Answering, W!Active

LEMMA ReadingSame ==
  ASSUME \A c \in R!Conns : gor'[c] = gor[c] \/ {gor[c], gor'[c]} \subseteq {"none", "queued", "done"}
                             \/ {gor[c], gor'[c]} \subseteq {"read", "close"}
  PROVE  Reading' = Reading
  BY DEF Reading

-----------------------------------------------------------------------------
(* The invariant of the server, step by step.                              *)
LEMMA ServerClient ==
  ASSUME ClientInv, ServerInv, Client
  PROVE  ServerInv'
  <1>1. R!Next /\ UNCHANGED <<web, why, pos, from, pk, control, faults>>
    BY DEF Client
  <1>2. ClientInv' /\ dialled \in Int /\ dialled' \in Int /\ dialled <= dialled'
        /\ dialled' \in 0..MaxConns
    <2>1. dialled <= dialled'
      BY <1>1 DEF R!Next, R!Begin, R!First, R!Open, R!Second, R!Close, ClientInv, ClientTypeOK
    <2> QED
      BY <1>1, <2>1, ClientStep DEF ClientInv, ClientTypeOK
  <1>3. CASE dialled' = dialled
    <2>1. gor' = gor
      BY <1>3 DEF Client
    <2>2. ServerTypeOK' /\ Counted'
      <3>1. Reading' = Reading /\ Answering' = Answering
        BY <1>1, <2>1 DEF Reading, Answering, W!Active, web
      <3> QED
        BY <1>1, <2>1, <3>1, CountedKept DEF ServerInv, ServerTypeOK, control
    <2>3. \A c \in R!Conns : c > dialled' => gor'[c] = "none"
      BY <1>3, <2>1 DEF ServerInv, StreamFits
    <2>4. \A c \in R!Conns : StreamFits(c)'
      BY <1>1, <1>2, <2>1, <2>3, ClientAdds, StreamKept DEF ServerInv, ServerTypeOK
    <2> QED
      BY <2>2, <2>4 DEF ServerInv
  <1>4. CASE dialled' # dialled
    <2>1. /\ dialled' = dialled + 1 /\ dialled' \in R!Conns
          /\ gor' = [gor EXCEPT ![dialled'] = "queued"]
      <3>1. dialled' = dialled + 1
        BY <1>1, <1>4 DEF R!Next, R!Begin, R!First, R!Open, R!Second, R!Close
      <3>2. dialled' \in R!Conns
        BY <1>2, <3>1 DEF ClientInv, ClientTypeOK, R!Conns
      <3>3. gor' = [gor EXCEPT ![dialled'] = "queued"]
        BY <1>4 DEF Client
      <3> QED
        BY <3>1, <3>2, <3>3
    <2>2. gor[dialled'] = "none" /\ why[dialled'] = "none"
      BY <1>2, <2>1 DEF ServerInv, StreamFits
    <2>3. /\ gor'[dialled'] = "queued"
          /\ \A c \in R!Conns \ {dialled'} : gor'[c] = gor[c]
      BY <2>1 DEF ServerInv, ServerTypeOK
    <2>4. ServerTypeOK' /\ Counted'
      <3>1. Reading' = Reading /\ Answering' = Answering
        BY <1>1, <2>2, <2>3 DEF Reading, Answering, W!Active, web
      <3>2. ServerTypeOK'
        BY <1>1, <2>1 DEF ServerInv, ServerTypeOK, control
      <3> QED
        BY <1>1, <3>1, <3>2, CountedKept DEF ServerInv, control
    <2>5. ASSUME NEW c \in R!Conns PROVE StreamFits(c)'
      <3>1. c > dialled' => gor'[c] = "none"
        BY <1>2, <2>1, <2>3 DEF ServerInv, StreamFits, R!Conns
      <3>2. gor'[c] \in {"none", "queued", "read"} => gor[c] \in {"none", "queued", "read"}
        BY <2>2, <2>3
      <3> QED
        BY <1>1, <1>2, <3>1, <3>2, ClientAdds, StreamKept DEF ServerInv, ServerTypeOK
    <2> QED
      BY <2>4, <2>5 DEF ServerInv
  <1> QED
    BY <1>3, <1>4

(* Steps of the server that leave the client's connections as they are.    *)
(* The goroutine takes one whole event, or one cut off with what follows.  *)
Takes(c, pieces, n) ==
  /\ UNCHANGED <<gor, why>> /\ pos[c] < Len(content[c])
  /\ pos' = [pos EXCEPT ![c] = @ + pieces]
  /\ from' = [from EXCEPT ![c] = Append(@, n)]
  /\ pieces = 1 => WholeEvent(c) /\ n = Next1(c).n
  /\ pieces = 2 => ~WholeEvent(c) /\ Behind(c)

LEMMA ServerAccept ==
  ASSUME ClientInv, ServerInv, NEW c \in R!Conns, Accept(c)
  PROVE  ServerInv'
  <1>1. /\ gor[c] = "queued" /\ gor' = [gor EXCEPT ![c] = "read"]
        /\ run = "running" /\ loop["stream"] = "accept"
        /\ wg' = [wg EXCEPT !["stream"] = @ + 1]
        /\ UNCHANGED <<client, web, why, pos, from, pk, run, loop>>
    BY DEF Accept, Listening, Add
  <1>2. gor'[c] = "read" /\ \A d \in R!Conns \ {c} : gor'[d] = gor[d]
    BY <1>1 DEF ServerInv, ServerTypeOK
  <1>3. ServerTypeOK'
    BY <1>1 DEF ServerInv, ServerTypeOK, Tasks
  <1>4. \A d \in R!Conns : StreamFits(d)'
    BY <1>1, <1>2, StreamSame DEF client
  <1>5. Counted'
    <2>1. Reading' = Reading \union {c} /\ c \notin Reading
      BY <1>1, <1>2 DEF Reading
    <2>2. Answering' = Answering
      BY <1>1, AnsweringSame DEF web
    <2>3. wg'["stream"] = wg["stream"] + 1 /\ wg'["http"] = wg["http"]
      BY <1>1 DEF ServerInv, ServerTypeOK, Tasks
    <2> QED
      BY <1>1, <2>1, <2>2, <2>3, CountAdd DEF ServerInv, Counted, Alive
  <1> QED
    BY <1>3, <1>4, <1>5 DEF ServerInv

LEMMA Extended ==
  ASSUME NEW s \in Seq(Nat), NEW n
  PROVE  /\ Len(Append(s, n)) = Len(s) + 1 /\ DOMAIN Append(s, n) = 1..(Len(s) + 1)
         /\ DOMAIN s = 1..Len(s) /\ Len(s) \in Nat
         /\ \A k \in DOMAIN s : Append(s, n)[k] = s[k]
         /\ Append(s, n)[Len(s) + 1] = n
  OBVIOUS

LEMMA ServerServe ==
  ASSUME ClientInv, ServerInv, NEW c \in R!Conns, Alive, ServeEvent(c) \/ ServeEnd(c)
  PROVE  ServerInv'
  <1>1. gor[c] = "read" /\ UNCHANGED <<client, web, pk, control>>
    BY DEF ServeEvent, ServeEnd
  <1>2. /\ pos[c] \in Nat /\ from[c] \in Seq(Nat) /\ content[c] \in Seq(Pieces)
        /\ Len(content[c]) \in Nat /\ DOMAIN content[c] = 1..Len(content[c])
        /\ why[c] = "none" /\ StreamFits(c)
    BY <1>1, ContentTyped DEF ServerInv, ServerTypeOK, StreamFits
  <1>3. ASSUME NEW reason \in {"failed", "reset", "eof"}, Leaves(c, reason), UNCHANGED <<pos, from>>,
               reason = "eof" => c \in closed /\
                 (pos[c] < Len(content[c]) => ~WholeEvent(c) /\ ~Behind(c))
        PROVE  ServerInv'
    <2>1. /\ gor'[c] = "close" /\ why'[c] = reason
          /\ \A d \in R!Conns \ {c} : gor'[d] = gor[d] /\ why'[d] = why[d]
          /\ gor' \in [R!Conns -> {"none", "queued", "read", "close", "done"}]
          /\ why' \in [R!Conns -> {"none", "reset", "eof", "failed"}]
      BY <1>3 DEF Leaves, ServerInv, ServerTypeOK
    <2>2. ServerTypeOK'
      BY <1>1, <1>3, <2>1 DEF ServerInv, ServerTypeOK, control
    <2>3. Counted'
      BY <1>1, <2>1, CountedKept, AnsweringSame, ReadingSame DEF ServerInv, control, web
    <2>4. ASSUME NEW d \in R!Conns, d # c \/ reason # "eof"
          PROVE  StreamFits(d)'
      BY <1>1, <1>3, <2>1, <2>4, StreamSame DEF client
    <2>5. CASE reason = "eof"
      <3>1. ASSUME Sound(c) PROVE R!WholePieces(c) \subseteq DOMAIN from[c]
        <4>1. Reads(c)
          BY <1>2, <3>1 DEF StreamFits
        <4>2. SUFFICES ASSUME NEW k \in R!WholePieces(c) PROVE k \in DOMAIN from[c]
          OBVIOUS
        <4>3. k \in 1..Len(content[c]) /\ content[c][k].part = "whole"
          BY <1>2 DEF R!WholePieces
        <4>4. k <= pos[c]
          BY <1>2, <1>3, <2>5, <4>3 DEF WholeEvent, Behind, Next1
        <4> QED
          BY <1>2, <4>1, <4>3, <4>4 DEF Reads
      <3>2. StreamFits(c)'
        BY <1>1, <1>2, <1>3, <2>1, <2>5, <3>1 DEF client, StreamFits, Sound, Reads, R!WholePieces
      <3> QED
        BY <2>2, <2>3, <2>4, <3>2 DEF ServerInv
    <2> QED
      BY <2>2, <2>3, <2>4, <2>5 DEF ServerInv
  <1>4. ASSUME NEW pieces \in {1, 2}, NEW n \in Nat, Takes(c, pieces, n)
        PROVE  ServerInv'
    <2>1. /\ pos'[c] = pos[c] + pieces /\ from'[c] = Append(from[c], n)
          /\ \A d \in R!Conns \ {c} : pos'[d] = pos[d] /\ from'[d] = from[d]
          /\ pos' \in [R!Conns -> Nat] /\ from' \in [R!Conns -> Seq(Nat)]
      BY <1>4 DEF Takes, ServerInv, ServerTypeOK
    <2>2. ServerTypeOK'
      BY <1>1, <1>4, <2>1 DEF Takes, ServerInv, ServerTypeOK, control
    <2>3. Counted'
      BY <1>1, <1>4, CountedKept, AnsweringSame, ReadingSame DEF Takes, ServerInv, control, web
    <2>4. \A d \in R!Conns \ {c} : StreamFits(d)'
      BY <1>1, <1>4, <2>1, StreamSame DEF Takes, client
    <2>5. ASSUME Sound(c) PROVE Reads(c)'
      <3>1. Reads(c)
        BY <1>2, <2>5 DEF StreamFits
      <3>2. pieces = 1
        <4>1. SUFFICES ASSUME pieces = 2 PROVE FALSE
          OBVIOUS
        <4>2. pos[c] + 1 \in DOMAIN content[c] /\ content[c][pos[c] + 1] \in Pieces
          BY <1>2, <1>4 DEF Takes
        <4>3. content[c][pos[c] + 1].part = "cut" /\ pos[c] + 1 < Len(content[c])
          <5>1. Next1(c).part # "whole" /\ Behind(c)
            BY <1>4, <4>1 DEF Takes, WholeEvent
          <5>2. content[c][pos[c] + 1].part \in {"whole", "cut"}
            BY <4>2 DEF Pieces
          <5> QED BY <5>1, <5>2 DEF Behind, Next1
        <4> QED
          BY <1>2, <2>5, <4>2, <4>3 DEF Sound
      <3>3. pos[c] + 1 \in R!WholePieces(c) /\ n = content[c][pos[c] + 1].n
        <4>1. Next1(c).part = "whole" /\ n = Next1(c).n
          BY <1>4, <3>2 DEF Takes, WholeEvent
        <4>2. pos[c] + 1 \in DOMAIN content[c]
          BY <1>2, <1>4 DEF Takes
        <4> QED BY <4>1, <4>2 DEF Next1, R!WholePieces
      <3>4. /\ Len(from'[c]) = Len(from[c]) + 1 /\ DOMAIN from'[c] = 1..(Len(from[c]) + 1)
            /\ DOMAIN from[c] = 1..Len(from[c]) /\ Len(from[c]) \in Nat
            /\ \A k \in DOMAIN from[c] : from'[c][k] = from[c][k]
            /\ from'[c][Len(from[c]) + 1] = n
        <4> DEFINE s == from[c]  t == Append(s, n)
        <4>1. /\ Len(t) = Len(s) + 1 /\ DOMAIN t = 1..(Len(s) + 1)
              /\ DOMAIN s = 1..Len(s) /\ Len(s) \in Nat
              /\ \A k \in DOMAIN s : t[k] = s[k]
              /\ t[Len(s) + 1] = n
          <5>1. s \in Seq(Nat)
            BY <1>2
          <5> HIDE DEF s
          <5> QED BY <5>1, Extended
        <4>2. from'[c] = t
          BY <2>1
        <4> HIDE DEF t
        <4> QED BY <4>1, <4>2
      <3> QED
        BY <1>1, <1>2, <1>4, <2>1, <3>1, <3>2, <3>3, <3>4 DEF Takes, Reads, R!WholePieces, client
    <2>6. StreamFits(c)'
      BY <1>1, <1>2, <1>4, <2>5 DEF Takes, StreamFits, Sound, client
    <2> QED
      BY <2>2, <2>3, <2>4, <2>6 DEF ServerInv
  <1>5. CASE ServeEvent(c)
    <2>1. pos[c] < Len(content[c]) /\ (WholeEvent(c) => Next1(c).n \in Nat) /\ Garbled \in Nat
      <3>1. pos[c] < Len(content[c])
        BY <1>5 DEF ServeEvent
      <3>2. Next1(c) \in Pieces
        BY <1>2, <3>1 DEF Next1
      <3> QED
        BY <3>1, <3>2 DEF Pieces, Garbled
    <2>2. CASE WholeEvent(c)
      <3>1. CASE /\ pos' = [pos EXCEPT ![c] = @ + 1]
                 /\ from' = [from EXCEPT ![c] = Append(@, Next1(c).n)]
                 /\ UNCHANGED <<gor, why, faults>>
        <4>1. Takes(c, 1, Next1(c).n)
          BY <2>1, <2>2, <3>1 DEF Takes
        <4> QED
          BY <1>4, <2>1, <2>2, <4>1
      <3>2. CASE Leaves(c, "failed") /\ UNCHANGED <<pos, from>>
        BY <1>3, <3>2
      <3> QED
        BY <1>5, <2>2, <3>1, <3>2 DEF ServeEvent
    <2>3. CASE ~WholeEvent(c)
      <3>1. CASE /\ pos' = [pos EXCEPT ![c] = @ + 2]
                 /\ from' = [from EXCEPT ![c] = Append(@, Garbled)]
                 /\ UNCHANGED <<gor, why>> /\ Behind(c)
        <4>1. Takes(c, 2, Garbled)
          BY <2>1, <2>3, <3>1 DEF Takes
        <4> QED
          BY <1>4, <2>1, <4>1
      <3>2. CASE Leaves(c, "failed") /\ UNCHANGED <<pos, from>>
        BY <1>3, <3>2
      <3> QED
        BY <1>5, <2>3, <3>1, <3>2 DEF ServeEvent
    <2> QED
      BY <2>2, <2>3
  <1>6. CASE ServeEnd(c)
    BY <1>3, <1>6 DEF ServeEnd
  <1> QED
    BY <1>5, <1>6

(* Steps that change no connection of the client. *)
LEMMA StreamsSame ==
  ASSUME ClientInv, ServerInv, UNCHANGED <<content, closed, dialled, gor, why, pos, from>>
  PROVE  \A c \in R!Conns : StreamFits(c)'
  BY StreamSame

LEMMA ClientSame ==
  ASSUME ClientInv, UNCHANGED <<writer, dialled, content, pc, event, acked>>
  PROVE  ClientInv'
  <1>1. ClientTypeOK' /\ ClientFits'
    BY DEF ClientInv, ClientTypeOK, ClientFits
  <1>2. NothingBehindCut'
    BY DEF ClientInv, NothingBehindCut, R!NothingBehindCut
  <1>3. AckedWhole'
    BY DEF ClientInv, AckedWhole, R!AckedWhole, R!WholePieces
  <1> QED
    BY <1>1, <1>2, <1>3 DEF ClientInv

LEMMA ServerClose ==
  ASSUME ClientInv, ServerInv, NEW c \in R!Conns, Alive, ServeClose(c)
  PROVE  ServerInv'
  <1>1. /\ gor[c] = "close" /\ gor' = [gor EXCEPT ![c] = "done"]
        /\ wg' = [wg EXCEPT !["stream"] = @ - 1]
        /\ UNCHANGED <<content, closed, dialled, web, why, pos, from, run, loop>>
    BY DEF ServeClose, Done
  <1>2. gor'[c] = "done" /\ \A d \in R!Conns \ {c} : gor'[d] = gor[d]
    BY <1>1 DEF ServerInv, ServerTypeOK
  <1>3. ServerTypeOK'
    BY <1>1 DEF ServerInv, ServerTypeOK, Tasks
  <1>4. \A d \in R!Conns : StreamFits(d)'
    BY <1>1, <1>2, StreamSame
  <1>5. Counted'
    <2>1. Reading' = Reading \ {c} /\ c \in Reading
      BY <1>1, <1>2 DEF Reading
    <2>2. Answering' = Answering
      BY <1>1, AnsweringSame DEF web
    <2>3. wg'["stream"] = wg["stream"] - 1 /\ wg'["http"] = wg["http"]
      BY <1>1 DEF ServerInv, ServerTypeOK, Tasks
    <2> QED
      BY <1>1, <2>1, <2>2, <2>3, CountRemove DEF ServerInv, Counted, Alive
  <1> QED
    BY <1>3, <1>4, <1>5 DEF ServerInv

LEMMA ServerWebAccept ==
  ASSUME ClientInv, ServerInv, WebInv, NEW r \in Requests, WebAccept(r)
  PROVE  ServerInv'
  <1>1. /\ wpc[r] = "queued" /\ wpc' = [wpc EXCEPT ![r] = "head"]
        /\ run = "running" /\ loop["http"] = "accept"
        /\ wg' = [wg EXCEPT !["http"] = @ + 1]
        /\ UNCHANGED <<client, streams, run, loop>>
    BY DEF WebAccept, Listening, Add, WebUnchanged, W!AcceptWeb, W!Goto
  <1>2. wpc'[r] = "head" /\ \A q \in Requests \ {r} : wpc'[q] = wpc[q]
    BY <1>1 DEF WebInv
  <1>3. ServerTypeOK' /\ \A c \in R!Conns : StreamFits(c)'
    BY <1>1, StreamsSame DEF ServerInv, ServerTypeOK, Tasks, client, streams
  <1>4. Counted'
    <2>1. Answering' = Answering \union {r} /\ r \notin Answering
      BY <1>1, <1>2 DEF Answering, W!Active
    <2>2. Reading' = Reading
      BY <1>1 DEF Reading, streams
    <2>3. wg'["http"] = wg["http"] + 1 /\ wg'["stream"] = wg["stream"]
      BY <1>1 DEF ServerInv, ServerTypeOK, Tasks
    <2> QED
      BY <1>1, <2>1, <2>2, <2>3, CountAdd DEF ServerInv, Counted, Alive
  <1> QED
    BY <1>3, <1>4 DEF ServerInv

LEMMA ServerWebClose ==
  ASSUME ClientInv, ServerInv, WebInv, NEW r \in Requests, Alive,
         W!CloseWeb(r), Done("http"), WebUnchanged
  PROVE  ServerInv'
  <1>1. PICK position \in {"closed", "dropped"} :
          /\ wpc[r] \in {"close", "drop"} /\ wpc' = [wpc EXCEPT ![r] = position]
          /\ wg' = [wg EXCEPT !["http"] = @ - 1]
          /\ UNCHANGED <<client, streams, run, loop>>
    BY DEF Done, WebUnchanged, W!CloseWeb, W!Goto
  <1>2. wpc'[r] = position /\ \A q \in Requests \ {r} : wpc'[q] = wpc[q]
    BY <1>1 DEF WebInv
  <1>3. ServerTypeOK' /\ \A c \in R!Conns : StreamFits(c)'
    BY <1>1, StreamsSame DEF ServerInv, ServerTypeOK, Tasks, client, streams
  <1>4. Counted'
    <2>1. Answering' = Answering \ {r} /\ r \in Answering
      BY <1>1, <1>2 DEF Answering, W!Active
    <2>2. Reading' = Reading
      BY <1>1 DEF Reading, streams
    <2>3. wg'["http"] = wg["http"] - 1 /\ wg'["stream"] = wg["stream"]
      BY <1>1 DEF ServerInv, ServerTypeOK, Tasks
    <2> QED
      BY <1>1, <2>1, <2>2, <2>3, CountRemove DEF ServerInv, Counted, Alive
  <1> QED
    BY <1>3, <1>4 DEF ServerInv

(* Within a request no goroutine of the web server comes or goes.          *)
LEMMA ServerWebInside ==
  ASSUME ClientInv, ServerInv, WebInv, NEW r \in Requests,
         W!Connect(r) \/ W!WebClient(r) \/ W!WebWaits(r) \/ W!WebServes(r),
         WebUnchanged, UNCHANGED wg
  PROVE  ServerInv'
  <1>1. Answering' = Answering
    <2>1. CASE W!Connect(r)
      <3>1. wpc[r] = "away" /\ wpc' = [wpc EXCEPT ![r] = "queued"]
        BY <2>1 DEF W!Connect, W!Goto
      <3>2. wpc'[r] = "queued" /\ \A q \in Requests \ {r} : wpc'[q] = wpc[q]
        BY <3>1 DEF WebInv
      <3> QED
        BY <3>1, <3>2 DEF Answering, W!Active
    <2>2. CASE UNCHANGED <<wpc, out>>
      BY <2>2, AnsweringSame
    <2>3. ASSUME NEW position \in Inside, NEW o, wpc[r] \in Inside, Moves(r, position, o)
          PROVE  Answering' = Answering
      <3>1. wpc'[r] = position /\ \A q \in Requests \ {r} : wpc'[q] = wpc[q]
        BY <2>3 DEF WebInv, Moves
      <3> QED
        BY <2>3, <3>1 DEF Answering, W!Active, Inside
    <2> QED
      BY <2>1, <2>2, <2>3, WebInside
  <1>2. UNCHANGED <<client, streams, run, loop>>
    BY DEF WebUnchanged
  <1>3. ServerTypeOK' /\ \A c \in R!Conns : StreamFits(c)'
    BY <1>2, StreamsSame DEF ServerInv, ServerTypeOK, client, streams
  <1>4. Reading' = Reading
    BY <1>2 DEF Reading, streams
  <1> QED
    BY <1>1, <1>2, <1>3, <1>4, CountedKept DEF ServerInv

(* The process goes: nothing is left to serve.                             *)
LEMMA ServerExit ==
  ASSUME ClientInv, ServerInv, WebInv, NEW how \in {"ended", "crashed"}, Exit(how)
  PROVE  ServerInv'
  <1>1. /\ run' = how /\ UNCHANGED <<content, closed, dialled, pos, from, loop, wg>>
        /\ gor' = [c \in R!Conns |-> IF Lost(c) THEN "done" ELSE gor[c]]
        /\ why' = [c \in R!Conns |-> IF Lost(c) /\ why[c] = "none" THEN "reset" ELSE why[c]]
        /\ wpc' = [r \in Requests |-> IF wpc[r] \in {"away", "closed"} THEN wpc[r] ELSE "dropped"]
    BY DEF Exit
  <1>2. \A c \in R!Conns :
          /\ gor'[c] = IF gor[c] \in {"queued", "read", "close"} THEN "done" ELSE gor[c]
          /\ why'[c] = IF gor[c] \in {"queued", "read", "close"} /\ why[c] = "none"
                       THEN "reset" ELSE why[c]
    BY <1>1 DEF Lost
  <1>3. ServerTypeOK'
    <2>1. gor' \in [R!Conns -> {"none", "queued", "read", "close", "done"}]
      BY <1>1 DEF ServerInv, ServerTypeOK
    <2>2. why' \in [R!Conns -> {"none", "reset", "eof", "failed"}]
      BY <1>1 DEF ServerInv, ServerTypeOK
    <2> QED
      BY <1>1, <2>1, <2>2 DEF ServerInv, ServerTypeOK
  <1>4. \A c \in R!Conns : StreamFits(c)'
    BY <1>1, <1>2, StreamSame
  <1>5. Reading' = {} /\ Answering' = {}
    BY <1>1, <1>2 DEF Reading, Answering, W!Active
  <1>6. Counted'
    BY <1>1, <1>5 DEF Counted, Alive
  <1> QED
    BY <1>3, <1>4, <1>6 DEF ServerInv

LEMMA ServerStart ==
  ASSUME ClientInv, ServerInv, Start
  PROVE  ServerInv'
  <1>1. /\ ~Alive /\ run' = "running" /\ loop' = Started /\ wg' = [t \in Tasks |-> 0]
        /\ UNCHANGED <<client, web, streams>>
    BY DEF Start
  <1>2. ServerTypeOK' /\ \A c \in R!Conns : StreamFits(c)'
    BY <1>1, StreamsSame DEF ServerInv, ServerTypeOK, Started, client, streams
  <1>3. Reading' = {} /\ Answering' = {}
    BY <1>1 DEF ServerInv, Counted, Reading, Answering, W!Active, web, streams
  <1>4. Counted'
    BY <1>1, <1>3, CountNone DEF Counted, Alive, Tasks
  <1> QED
    BY <1>2, <1>4 DEF ServerInv

(* A task returns once the goroutines it waits for are done.               *)
LEMMA ServerGroup ==
  ASSUME ClientInv, ServerInv, Stop \/ \E t \in Tasks : Leave(t) \/ Wait(t)
  PROVE  ServerInv'
  <1>1. /\ UNCHANGED <<client, web, streams, wg>>
        /\ run' \in {"running", "stopping"} /\ Alive /\ Alive'
    BY DEF Stop, Leave, Wait, Alive, ServerInv, ServerTypeOK
  <1>2. \A c \in R!Conns : StreamFits(c)'
    BY <1>1, StreamsSame DEF client, streams
  <1>3. loop' \in [Tasks -> {"accept", "wait", "done"}]
    BY DEF Stop, Leave, Wait, ServerInv, ServerTypeOK
  <1>4. \A t \in {"stream", "http"} : loop'[t] = "done" => wg[t] = 0
    BY <1>1 DEF Stop, Leave, Wait, ServerInv, ServerTypeOK, Counted, Tasks
  <1>5. Reading' = Reading /\ Answering' = Answering
    BY <1>1, AnsweringSame DEF Reading, web, streams
  <1> QED
    BY <1>1, <1>2, <1>3, <1>4, <1>5 DEF ServerInv, ServerTypeOK, Counted, streams

(* Packets reach the Agent, are lost, or end the process.                  *)
LEMMA PacketStep ==
  ASSUME IInv, NEW p \in Packets, SendPacket(p) \/ ReadFrom(p)
  PROVE  IInv'
  <1>1. CASE Exit("crashed")
    <2>1. UNCHANGED <<writer, dialled, content, pc, event, acked>>
      BY <1>1 DEF Exit
    <2> QED
      BY <1>1, <2>1, ClientSame, ServerExit, WebExit DEF IInv
  <1>2. CASE UNCHANGED <<client, web, streams, control>>
    <2>1. ClientInv' /\ WebInv'
      BY <1>2, ClientSame DEF IInv, client, web, WebInv
    <2>2. \A c \in R!Conns : StreamFits(c)'
      BY <1>2, StreamsSame DEF IInv, client, streams
    <2>3. ServerTypeOK' /\ Counted'
      BY <1>2 DEF IInv, ServerInv, ServerTypeOK, Counted, Alive, Reading, Answering, W!Active,
                  client, web, streams, control
    <2> QED
      BY <2>1, <2>2, <2>3 DEF IInv, ServerInv
  <1> QED
    BY <1>1, <1>2 DEF SendPacket, ReadFrom

LEMMA WebStep ==
  ASSUME IInv, NEW r \in Requests,
         WebConnect(r) \/ WebAccept(r) \/ WebGoes(r) \/ WebServes(r)
  PROVE  IInv'
  <1>1. WebUnchanged /\ ClientInv'
    BY ClientSame DEF IInv, WebConnect, WebAccept, WebGoes, WebServes, WebUnchanged, client
  <1>2. ServerInv'
    BY <1>1, ServerWebAccept, ServerWebClose, ServerWebInside
    DEF IInv, WebConnect, WebGoes, WebServes
  <1>3. WebInv'
    BY WebCome, WebGo, WebInsideStep DEF IInv, WebConnect, WebAccept, WebGoes, WebServes
  <1> QED
    BY <1>1, <1>2, <1>3 DEF IInv

LEMMA StreamStep ==
  ASSUME IInv, NEW c \in R!Conns, Accept(c) \/ Serve(c)
  PROVE  IInv'
  <1>1. UNCHANGED <<writer, dialled, content, pc, event, acked, web>>
    BY DEF Accept, Serve, ServeEvent, ServeEnd, ServeClose, client
  <1>2. ClientInv' /\ WebInv'
    BY <1>1, ClientSame DEF IInv, web, WebInv
  <1>3. ServerInv'
    BY ServerAccept, ServerServe, ServerClose DEF IInv, Serve
  <1> QED
    BY <1>2, <1>3 DEF IInv

LEMMA ControlStep ==
  ASSUME IInv, \/ Stop \/ End \/ Crash \/ Start
               \/ \E c \in R!Conns : Panic(c)
               \/ \E t \in Tasks : Leave(t) \/ Wait(t)
  PROVE  IInv'
  <1>1. CASE End \/ Crash \/ \E c \in R!Conns : Panic(c)
    <2>1. PICK how \in {"ended", "crashed"} : Exit(how)
      BY <1>1 DEF End, Crash, Panic
    <2>2. UNCHANGED <<writer, dialled, content, pc, event, acked>>
      BY <2>1 DEF Exit
    <2> QED
      BY <2>1, <2>2, ClientSame, ServerExit, WebExit DEF IInv
  <1>2. CASE Stop \/ Start \/ \E t \in Tasks : Leave(t) \/ Wait(t)
    <2>1. UNCHANGED <<client, web>>
      BY <1>2 DEF Stop, Start, Leave, Wait
    <2>2. ClientInv' /\ WebInv'
      BY <2>1, ClientSame DEF IInv, client, web, WebInv
    <2>3. ServerInv'
      BY <1>2, ServerStart, ServerGroup DEF IInv
    <2> QED
      BY <2>2, <2>3 DEF IInv
  <1> QED
    BY <1>1, <1>2

LEMMA NextIInv == IInv /\ [Next]_vars => IInv'
  <1> SUFFICES ASSUME IInv, [Next]_vars PROVE IInv'
    OBVIOUS
  <1>1. CASE Client
    <2>1. ClientInv' /\ WebInv'
      BY <1>1, ClientStep DEF IInv, Client, web, WebInv
    <2> QED
      BY <1>1, <2>1, ServerClient DEF IInv
  <1>2. CASE Terminated \/ UNCHANGED vars
    <2>1. UNCHANGED <<client, web, streams, control>>
      BY <1>2 DEF Terminated, vars
    <2>2. ClientInv' /\ WebInv'
      BY <2>1, ClientSame DEF IInv, client, web, WebInv
    <2>3. \A c \in R!Conns : StreamFits(c)'
      BY <2>1, StreamsSame DEF IInv, client, streams
    <2>4. ServerTypeOK' /\ Counted'
      BY <2>1 DEF IInv, ServerInv, ServerTypeOK, Counted, Alive, Reading, Answering, W!Active,
                  client, web, streams, control
    <2> QED
      BY <2>2, <2>3, <2>4 DEF IInv, ServerInv
  <1> QED
    BY <1>1, <1>2, StreamStep, WebStep, PacketStep, ControlStep DEF Next

LEMMA InitIInv == Init => IInv
  <1> SUFFICES ASSUME Init PROVE IInv
    OBVIOUS
  <1>1. ClientInv
    <2>1. /\ writer = 0 /\ dialled = 0 /\ pc = "idle" /\ event = 0 /\ acked = << >>
          /\ content = [c \in R!Conns |-> << >>]
      BY DEF Init, R!Init
    <2>2. \A c \in R!Conns : content[c] = << >> /\ DOMAIN content[c] = {}
      BY <2>1
    <2>3. ClientTypeOK
      BY <2>1 DEF ClientTypeOK
    <2>4. ClientFits /\ NothingBehindCut
      BY <2>1, <2>2 DEF ClientFits, NothingBehindCut, R!NothingBehindCut
    <2>5. AckedWhole
      BY <2>1, <2>2 DEF AckedWhole, R!AckedWhole, R!WholePieces, R!Range
    <2> QED
      BY <2>3, <2>4, <2>5 DEF ClientInv
  <1>2. WebInv
    <2>1. \A r \in Requests : Well(r, << >>) /\ AnswerAt("away", << >>)
      BY DEF Well, AnswerAt, Answers
    <2> QED
      BY <2>1 DEF Init, W!WebInit, WebInv, Positions
  <1>3. ServerInv
    <2>1. /\ run = "running" /\ loop = Started /\ wg = [t \in Tasks |-> 0]
          /\ gor = [c \in R!Conns |-> "none"] /\ why = [c \in R!Conns |-> "none"]
          /\ pos = [c \in R!Conns |-> 0] /\ from = [c \in R!Conns |-> << >>]
          /\ content = [c \in R!Conns |-> << >>]
          /\ wpc = [r \in Requests |-> "away"]
      BY DEF Init, R!Init, W!WebInit
    <2>2. ServerTypeOK
      BY <2>1 DEF ServerTypeOK, Started
    <2>3. \A c \in R!Conns : StreamFits(c)
      BY <2>1 DEF StreamFits, Reads, Sound, R!WholePieces
    <2>4. Reading = {} /\ Answering = {}
      BY <2>1 DEF Reading, Answering, W!Active
    <2>5. Counted
      BY <2>1, <2>4, CountNone DEF Counted, Alive, Tasks
    <2> QED
      BY <2>2, <2>3, <2>5 DEF ServerInv
  <1> QED
    BY <1>1, <1>2, <1>3 DEF IInv

LEMMA Inductive == Spec => []IInv
  BY InitIInv, NextIInv, PTL DEF Spec

-----------------------------------------------------------------------------
(* ReWriter writes nothing behind an event that its first attempt cut off: *)
(* whoever reads a connection can cut it up to the point where it failed.  *)
THEOREM CutIsLast == Spec => []NothingBehindCut
  <1>1. IInv => NothingBehindCut
    BY DEF IInv, ClientInv
  <1> QED
    BY <1>1, Inductive, PTL

(* An event that ReWriter reports as written is whole in some connection,  *)
(* and events come in order, however often it dials anew.                  *)
THEOREM AckedIsWhole == Spec => []AckedWhole
  <1>1. IInv => AckedWhole
    BY DEF IInv, ClientInv
  <1> QED
    BY <1>1, Inductive, PTL

(* The Agent gets the events of a connection one by one, whole and in      *)
(* order, and all of them when the connection is read to its end, however  *)
(* the command is stopped, crashes and is started again.                   *)
THEOREM StoredIsWhole == Spec => []StoredWhole
  <1>1. IInv => StoredWhole
    <2> SUFFICES ASSUME IInv, NEW c \in R!Conns, Sound(c)
                 PROVE  /\ \A k \in DOMAIN from[c] :
                             k \in R!WholePieces(c) /\ from[c][k] = content[c][k].n
                        /\ why[c] = "eof" => R!WholePieces(c) \subseteq DOMAIN from[c]
      BY DEF StoredWhole
    <2> QED
      BY DEF IInv, ServerInv, StreamFits, Reads
  <1> QED
    BY <1>1, Inductive, PTL

(* A request is answered with one status line in front of everything else, *)
(* also when Query fails in the middle, the client is gone or the command  *)
(* stops, and an answer that says there is none carries no events.         *)
THEOREM AnswersOnce == Spec => []AnsweredOnce
  <1>1. IInv => AnsweredOnce
    <2> SUFFICES ASSUME IInv, NEW r \in Requests
                 PROVE  /\ \A k \in DOMAIN out[r] : out[r][k] \in W!Codes <=> k = 1
                        /\ wpc[r] \in {"close", "closed"} => out[r] # << >>
                        /\ r.path # "files" /\ out[r] # << >> /\ out[r][1] # "200" =>
                             W!ToSet(out[r]) \subseteq {"404", "500", "error"}
      BY DEF AnsweredOnce, W!AnsweredOnce
    <2> QED
      BY DEF IInv, WebInv, Well, AnswerAt, W!ToSet
  <1> QED
    BY <1>1, Inductive, PTL

(* The command returns only when every goroutine of its connections is     *)
(* done: each WaitGroup counts just the goroutines of its task.            *)
THEOREM ReturnsIdle == Spec => EndsIdle
  <1>1. IInv /\ [Next]_vars =>
          (run' = "ended" /\ run # "ended" =>
             /\ \A c \in R!Conns : gor[c] \notin {"read", "close"}
             /\ \A r \in Requests : ~W!Active(r))
    <2> SUFFICES ASSUME IInv, [Next]_vars, run' = "ended", run # "ended"
                 PROVE  Reading = {} /\ Answering = {}
      BY DEF Reading, Answering
    <2>1. End
      BY DEF Next, Client, Accept, Serve, ServeEvent, ServeEnd, ServeClose, WebConnect, WebAccept,
             WebGoes, WebServes, WebUnchanged, SendPacket, ReadFrom, Exit, Stop, Leave, Wait,
             Crash, Panic, Start, Terminated, vars, control
    <2>2. Alive /\ loop["stream"] = "done" /\ loop["http"] = "done"
      BY <2>1 DEF End, Tasks
    <2>3. wg["stream"] = 0 /\ wg["http"] = 0
      BY <2>2 DEF IInv, ServerInv, Counted
    <2> QED
      BY <2>2, <2>3, CountZero DEF IInv, ServerInv, Counted
  <1> QED
    BY <1>1, Inductive, PTL DEF Spec, EndsIdle
=============================================================================
