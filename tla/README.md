# A verification of tlog

tlog is a logging library and a few programs around it. This directory holds
TLA+ modules translated from its Go source, configurations that check them with
TLC on small instances, and theorems proved with TLAPS for all values of the
constants. `PROJECT.json` ties every definition to the lines it models, every
property to a plausible bug (a mutant) that breaks it, and lists the hazards.

Contents: [the system](#the-system), [modules](#modules), [runs](#runs),
[fairness](#fairness), [proofs](#proofs), [findings](#findings),
[what is not modelled](#what-is-not-modelled), [plan](#plan).

## The system

Bytes flow like this; the names in brackets are the modules.

    slog.Handler [Encoding] --+
    goroutines -> Logger, Span [Logger, EventLog] -> io.Writer
                    | If, V [Verbosity]               |
                    | AppendLabels [Labels]           +-> rotating.File [Rotating]
                    | AppendValue [Encoding]          +-> ReWriter [ReWriter] -> connection
                                                      +-> MultiWriter -> ConsoleWriter,
                                                          converters [Outputs, KeyRenamer] -> files
    connection -> agentRun [AgentServer] -> tlwire.Reader [WireReader] -> agent.Agent [Agent, EventStore] -> files
    http connection -> web server [WebServer] -> agent.Agent
    files -> ReReader -> tlwire.Reader -> Head/TailWriter -> output   [Cat]

| component | state | operations | what is hard | what makes it correct |
|---|---|---|---|---|
| Logger, Span (`tlog.go`) | mutex, one event buffer, labels, writer | NewSpan, Start, Spawn, Finish, Printw, Event, SetLabels, Write | all calls build in one buffer; user code runs under the lock and may panic; spans take id and time before the lock; labels are rebuilt in place | events whole, each call at most once, with the labels in force; spans start first; stamps ordered; calls return |
| verbosity filter (`verbosity_filter.go`) | atomic pointer to a filter; its cache, RWMutex | SetVerbosity, If, V | double-checked cache; replacement while asked; a pattern that panics under the mutex | answers are what the text means, matched once, always given |
| key-values, labels, ids (`wire.go`, `labels.go`, `id.go`) | none kept | AppendKVs, AppendLabels | keys and values out of step; in-place rewriting in a gap that is guessed from the number of arguments | one tag per pair, no byte overwritten before it is read |
| rotating.File (`rotating`) | current file, number, size; single flight; directory, LATEST | Write, Rotate, Close, removeOld | cleanups race with rotations and each other; restart from file names; errors half-way | the current file stays, numbers are not reused, retention, LATEST never dangles |
| agent (`agent`) | streams with a file, an offset and an encoder; subscriptions | Write, Subscribe, Unsubscribe | what the encoder refers to must be in the file; padding by truncation; failures half-way | acknowledged events stay and can be decoded, blocks stand alone |
| tlwire.Reader (`tlwire/reader.go`) | buffer, positions | ReadOne, Read, WriteTo | the stream is cut anywhere, errors between | every event whole, none lost |
| ReWriter, window writers, DeLabels, closers, MultiWriter, SandwichWriter (`tlio`) | the target, rings, last label | Write, Flush, Close | a write that fails after it went through; closing once | nothing behind a cut, what is acknowledged is whole, no leak |
| ReReader, cat (`tlio/readers.go`, `cmd/tlog/tlogcmd`) | readers by name, watches | add, change, interrupt | a write between reading and waiting; truncation; merged changes | nothing stays unnoticed, events in order and whole |
| agent command, web server (`cmd`, `web`) | listeners, a goroutine per connection counted by a WaitGroup, a group of tasks | accept, serve, query, stop, crash, start again | a stop next to a busy connection; a read that races with the answer; streams that end anywhere | what was acknowledged to a client is stored or its connection broke; each request is answered once; a stop ends and cuts nothing off |
| ConsoleWriter, converters (`console.go`, `convert`) | labels and widths kept between events | Write | a batch that fails in the middle; text lost after its labels were remembered | what is acknowledged is shown in every branch; labels and pages stay readable |
| encoder, decoder, dumper (`tlwire`), slog Handler (`ext/tlslog`), Rewriter (`convert`) | visited pointers; prefix and depth of derived handlers; a key held back | AppendValue, Skip, Handle, WithAttrs, WithGroup, Rewrite | self references and shared values; groups to close; keys and label tags to put back | an event says what was logged; a rewritten one differs only in what the rules name |
| tlflag, adapters (`ext`), low | none or wrappers | Open*, one call per event | a failure after some files are open | each handle closed once, stdout never |

## Modules

Each module has the component's state as VARIABLES, one action per step that
others can see between, and its mutants next to what they change.

* **EventLog** is what the Logger promises its callers: a call takes effect at
  one instant between invocation and return, where it appends one complete
  event with the labels in force, or replaces the labels, or (panic, error) does
  nothing; setting labels may tear them.
* **Logger** is `tlog.go`: `mu` the mutex, `b` and `ls` the buffers `l.b` and
  `l.ls`, `out` what the writer got, `started` `Span.StartedAt`. A call is
  `Begin` (entry), `NewSpan` (id and time, no lock), `Lock`, `BuildHead`,
  `BuildPairs` (user code: may panic, having appended or not), `BuildTail`,
  `Write` (may fail), `WriteLabels` (may tear), `Unlock` (deferred). A part of
  an event is a record, not bytes. Span ids are random in the code and distinct
  here; `event` (Event of a Logger or a Span) writes no time stamp. It refines
  EventLog (`E`, `ImplementsEventLog`); the mapping is
  `log <- out, labels <- ls, op <- call` and a phase read off `pc`.
* **LoggerProofs**: theorems about Logger. **MCLogger**: its instance.
* **Rotating** is `rotating/file.go`: `disk`, `fsize`, `ctime`, `latest` are the
  file system, `format, num, w, size, start` the fields of `File`, `single` the
  flag `removeSingleflight`, `cpc[b]`, `since[b]`, `todo[b]` the goroutine of
  `removeOld` started for file `b`. A file is its number; `NameLess` and
  `ParseName` say what string order and Sscanf make of it, overflow of the width
  included. The mutex is implicit: `pc` is its only holder. `Restart` is a crash.
  A failed open leaves `Nil` (the opener of `tlflag`) or `Bad`, the nil `*os.File`
  that the default `openFile` returns and that `File.Write` takes for a writer.
* **RotatingProofs**, **MCRotating**: theorems and instances.
* **Agent** is `agent/agent.go` and `query.go`: `disk[name]` the chunks in a
  file and its size, `fil`, `hist`, `boff` a stream (its file, what its encoder
  has seen since a Reset, the offset in the block). A payload is a number and a
  size; what a chunk needs for decoding is the sequence of payloads it refers
  back to. Actions follow `Write`: `Receive`, `NewFile`, `Block` (padding),
  `Store`; each may fail after doing a part. In `Restart` the process dies, within
  the write of a chunk, of which a part is left, or behind it, with the chunk in
  the file and no answer given. **MCAgent**: its instance.
  Agent refines **EventStore**, what it promises: a payload acknowledged is in
  one file behind those acknowledged before, and stays readable until the file
  is spoiled (a failed write, a second opening); one stored when the process died
  is there without an answer. The mapping reads `kept` off the
  chunks that can be decoded, `answered` off `acked`. **AgentProofs**: theorems
  about both.
* **Codec** is the encoding of values as bytes (external) and the recursive
  `Skip` of `tlwire/reader.go` over real tags (container, length, break). Values
  are layered, up to `MaxDepth` inside of each other, with lengths below 2^31;
  skip and its loop over elements are one function of the place they are called
  for (`Places`), so that both can be proved about.
  **WireReader** is the rest of that file: the buffer `b`, the position, and the
  source that gives pieces of any size, so that a cut may fall inside of a tag or
  its length.
* **Encoding** is `encoder_value.go` and `struct.go` (`AppendRaw` walks a value,
  `visited` are the addresses it is inside of) and the Handler of `tlslog`:
  `handlers` are those derived so far, with `prefix` and `depth`, `event` what
  `Handle` wrote, if it was called last. Calls inside of each other are a table by levels, up to
  `MaxDepth` of them, over the values that occur (`GoValues`, `Attrs`: with every
  value and group in them). The meaning of a record is stated beside it as a tree
  (`Tree`, `Meant`), which knows objects and not addresses. Fields may be omitted
  as zero values (`Zero`: zero numbers, empty texts, nils, structs of such), a func
  only when its field has no tag, and WithGroup of an empty name is no group.
* **KeyRenamer** is `convert.Rewriter` with a KeyRenamer, fed with what Encoding
  writes: `Rewrite` works on bytes, as the code does, with its calls inside of each
  other as a table by levels; `Rulings` says on trees, at the paths they are at,
  which rule is for a pair, what it should become, and whether the code keeps to
  that (`KeptStep`). Every key of a map is read as a text, as the code reads it
  (`Element`), whatever its tag. **KeyRenamerProofs**: the theorem about it.
* **Labels** is AppendKVs and AppendLabels of `wire.go`: a cell of the buffer
  `b` is one byte of some value, `r` and `w` are how far it is read and written.
* **Wire** puts WireReader, Encoding with KeyRenamer, and Labels side by side,
  with variables of their own; **WireProofs** has the theorems about the reader,
  the encoding and the labels. In **MCWire** the initial state chooses which of the
  three runs.
* **ReWriter** is `tlio.ReWriter` with the dial function of
  `ext/tlflag.openwurl`: `Writer`, `Closer`, connections and what each peer got.
* **WebServer** is `web/server.go`: one action per thing HandleConn,
  HandleRequest and the discarding goroutine can do, `wpc` where a connection is,
  `out` its answer as status lines and pieces.
* **AgentServer** is `agentRun` of the command, composed of ReWriter as the
  program that logs (`Client` is `R!Next` with a connection that has a server),
  WebServer (`W`), and of what EventStore promises: `from[c]` is what the Agent
  acknowledged to connection `c`. `loop` are the tasks of the group, `wg` their
  WaitGroups, `gor` and `why` the goroutines of connections. A cut event may panic
  the decoder of the Agent (`Panic`), which ends the process; a datagram longer
  than the buffer is cut, and may be stored so, fail or panic, too. No property
  speaks of datagrams. **AgentServerProofs**:
  theorems about it and the two it is composed of. **MCAgentServer** has the
  scenarios.
* **Verbosity** is `verbosity_filter.go`: filters are objects with a text, a
  cache and a mutex; `Ask` loads the pointer, then `Lookup` (RLock),
  `LockFilter`, `Again`, `Fill`, `UnlockFilter`. A text is a sequence of rules (select or unselect,
  places, topics); the syntax is left out. Its theorems are in
  **LoggerProofs**, beside those of the Logger it belongs to; **MCVerbosity** is its
  instance.
* **Cat** is `cat` of the command over `ReReader`, an abstraction of
  tlwire.Reader (WireReader has the details) and HeadWriter and TailWriter:
  `queue`, `dirW`, `fileW` are inotify, whose changes may be merged; `rd` the
  readers; a file is a sequence of half events; `head` and `tail` are `Off` when
  the flag is not given. **CatProofs**: theorems; **MCCat**: its instances.
* **Outputs** is `OpenWriter` and `OpenReader` of `ext/tlflag/flag.go` with
  `MultiWriter` and the converters. `ws` is the MultiWriter: a branch has its
  format, its handle and what its converter keeps between batches (`lastls` of
  ConsoleWriter; `rows`, `headed`, `left` for `bb`, `last` and `b` of Web).
  Histories are `dropped`, the batches whose text a failed write lost, and `cut`,
  that console lines were cut off. A handle is named by who opened it (the
  standard streams, branch `i`, the reader), `closes` counts its closes.
  `OpenNext`, `OpenFail`, `OpenDone`
  are the loop of OpenWriter, `Write` and `Close` the whole MultiWriter call,
  branch after branch; nobody can see between, callers hold the Logger's mutex.
  A write fails in a branch at the opening of its file, in the file just opened,
  or once, so that what ConsoleWriter dumps of the event gets through (`Faults`).
  What a converter refuses or panics on is a table per converter (`Refused`,
  `Panics`), read off its Write and ConvertValue. **OutputsProofs**, **MCOutputs**:
  theorems and its instance.

## Runs

| run | module, cfg | shows |
|---|---|---|
| logger_calls | MCLogger, LoggerCalls | all Logger properties, the refinement and liveness |
| rotating_keep | MCRotating, RotatingKeep | what stays on disk, numbers, link |
| rotating_live | MCRotating, RotatingLive | cleanups end, a writer comes back, young files stay |
| rotating_over | MCRotating, RotatingOver | violation: more files than MaxTotalFiles stay |
| agent | MCAgent, Agent | files, blocks, subscriptions, and that Agent implements EventStore |
| wire | MCWire, Wire | framing under any cuts and errors; records encoded as meant and rewritten as ruled; labels |
| wire_reader_self_ref | MCWire, WireReaderSelfRef | violation: SelfRef is rejected |
| delivery | MCAgentServer, Delivery | from the ReWriter of a program to the Agent, with web clients, packets, stops and crashes |
| verbosity | MCVerbosity, Verbosity | answers, cache, liveness |
| cat | MCCat, Cat | up to date when waiting, in order, everything shown |
| cat_tail | MCCat, CatTail | violation: --tail prints everything |
| outputs | MCOutputs, Outputs | handles, and what each branch shows of what was acknowledged |

Bounds, and why they are enough:

* *Logger*: two goroutines, three calls, two label sets, two instants, all kinds
  but `event`, which takes the steps of `message` and has no stamp for
  `StampsOrdered` to compare; the theorems are about it, too. Three calls make a
  parent, a child and an event of another goroutine, or a label change around a
  panicking call. The theorems hold for any number.
* *Rotating*: four numbers in RotatingKeep are two rotations past the first
  surplus file, so a cleanup can be overtaken by two others; the directory is
  empty or holds files 1 and 2; one fault of any kind at any step; events of two
  sizes, so that files differ in size and both limits decide. RotatingLive has
  three numbers, limits of one on every age and a clock that goes from 0 to 2:
  files are too young, then old enough, and a File that is not full becomes due by
  its age (an age equal to a limit is left to `YoungStay`, which is about all).
  One open may fail, with either nil. `WriterRecovers` says of every File, also
  with the default opener, that once its last file is full it gets a working
  writer, and of one without a writer that it gets one or is `Stranded`: on the
  typed nil of the default opener, with a size and an age that ask for no
  rotation, every Write fails until the program calls Rotate or Close. A failed
  first open leaves that, since neither limit counts while the size is 0.
  `Wide` is out of reach, as in the theorems.
* *Agent*: four payloads fill a file of one and a half blocks (FileSize 6,
  BlockSize 4) and go on in the next; two stamps in two partitions; two label
  sets; one failure or restart; two subscriptions, so that either can be
  cancelled while the other goes on.
* *Wire*: two events of every shape, pieces of up to 8 bytes (some events are
  longer, some shorter), one fault: a second event shows bytes left over from
  the first; `MaxDepth` is above the depth of any of them, and of calls of
  AppendRaw. Values with a ring of
  pointers, a shared object, an embedded struct, a pointer to a first field; two
  derivations of handlers, so that a group is in a group, and siblings share a
  prefix, then one record, which is the last step since Handle changes no handler; rules at a key and behind its tag, one above the other. All lists of
  up to four arguments: four are two pairs with keys, or more pairs than the gap
  has room for.
* *Delivery*: one scenario at a time. Three events over two connections and no
  fault but failing writes; two events with a crash, stops and a second start;
  each request alone and the one in html beside an event; a datagram that fits
  and one that does not. Two connections are enough for a retried event to reach
  the server before or after the end of the first.
* *Verbosity*: two goroutines, two filters, three questions; texts in which the
  second rule takes back the first at one place or for one topic.
* *Cat*: one file that grows to two whole events, in four writes of halves, and
  one that only starts an event, or either alone; one truncation, which counts as
  a write; no window, or one of one event: two events are shown in order, or the
  second is behind the window, whatever pieces they are read in, while the other
  file changes. Larger windows and `--head 0` are covered by the theorem.
* *Outputs*: every place and every format occurs in some list, next to others
  that fail or panic; three batches: one that sets a state, one that fails, one
  that shows what is left of it; one fault, of every kind.

Deadlock is checked everywhere; where the bounds stop a program, a stuttering
action named `Terminated`, `Stopped`, `Finished` or (Labels) `Returned` says so, and it is enabled only then.

## Fairness

* Logger, Verbosity: goroutines that can run do (weak fairness of `Step`, of
  `Finishing`), and whoever waits for a mutex that is free again and again gets it:
  Go's `sync.Mutex` hands over to a waiter that starved for a millisecond, and
  `sync.RWMutex` blocks new readers once a writer waits, hence strong fairness of
  `Lock` and `Acquire`. No call has to be made.
* Rotating: weak fairness of the holder of the mutex, of every cleaner, and of
  `BeginWrite`: `WriterRecovers` speaks of a program that keeps logging.
* AgentServer: weak fairness of `Serves`, all that goroutines of the server can do
  without somebody else: accept, read what is there, end, answer, close, wait.
  Each has a bounded number of such steps before it waits again, so one condition
  for all of them is as good as one for each. Nobody has to log, to hang up, to
  stop the command or to start it, and no read has to fail.
* Cat: weak fairness of cat itself. Nobody has to change a file, interrupt or
  fail.

## Proofs

Proved, for all constants that satisfy the named assumptions of the modules:

* **Logger**: `TypeCorrect`, `LockDiscipline`, `WholeEvents`, `Refinement`,
  `SpansStartFirst`, `StampsInOrder`.
  `EventsWhole` is not inductive: that what is written is whole depends on what
  the buffer holds at every position of the lock holder. `IInv` adds
  `BufferFits(t)` (at "pairs" the buffer is exactly the header of the call, at
  "tail" it has its pairs, at "write" it is a whole event), `CallFits(t)` (what a
  call may be at a position), and `StartedPast` (no span started in the future,
  or an elapsed time would be negative). A thread outside of the lock says
  nothing of the buffer, so `LockHeld` is what lets the steps of one thread leave
  the facts of the others alone (`HolderUnique`, `OthersFit`). There is a lemma
  per action. The refinement follows from `IInv`: `Write` maps to `Emit` because
  the buffer is whole, a failed one to `Lose`, `WriteLabels` to `SetLabels` or
  `Tear`, the steps inside of the lock to stutters. `SpansStartFirst` and
  `StampsInOrder` add what the log holds of a span at each position of the call
  that made it, and that no stamp in the log of a goroutine or a span is ahead of
  the one its next event will get.
* **Rotating**: `TypeCorrect`, `CurrentFileKept`, `LinkSound`, `NumbersFresh`,
  `SingleFlight`, `LimitsKept`, `YoungStay`, as long as numbers fit the width of
  the pattern (`MaxNum < Wide`; beyond it they are false, by string order).
  `IInv` says that the writer has the newest number (`WriterNewest`), that a
  cleanup and all it is going to remove are older than its own rotation, which is
  not newer than the writer (`CleanersPast`), that the newest file ever used is
  still on disk (`NewestKept`), so that a restart reads the right number, and is
  not above `num` (`NumAhead`), and where the link may point at each step
  (`LinkKept`). Retention needs `KeepInv` on top of it: files change in the order
  of their numbers (`Aged`), so all a cleanup picks are older than the one its
  walk stopped at (`OldPicked`); what it has not picked of the files before its
  own fits the limits (`EnoughPicked`, from the smallest file left, where the
  walk did not stop), and that stays true because only the writer's file grows
  and it is not before any cleanup's; when the cleanup ends all it picked is gone
  (`Retained`). Sums of sizes are compared by `TotalOrdered`. That non-empty sets
  of numbers have a smallest and a largest member is proved by well-founded
  induction.
* **Verbosity**: `MatchIsMeaning`, `AnswersMean`, `MatchedAtMostOnce`. The loop
  over the rules of a text computes what the text means: after n rules its answer
  is that of the last of them that applies (`Upto`; the first n that differs
  would contradict one round of the loop). `FilterInv` then says that a cache holds
  meanings only, that the mutex of a filter is held from the second look into the
  cache to its release, and that an entry is missing until it is filled, so a
  pattern is run at most once.
* **Cat**: `WaitsUpToDate`, `PrintsInOrder`. Files and the directory are watched
  before they are listed and opened (`Watched`), so a file that is not read to
  its end is still to be added, is being read, or has a change queued (`Listed`,
  `Unread`); a merge of queued changes drops none but repetitions. A reader holds
  half an event at most (`Reads`), so what it passes on are the next whole events
  (`ReadsEvents`), and a window passes their first ones (`Prints`).
* **Agent**: `AckedStay`, `ChunksDecode`, `BlocksStandAlone`, `SubscriptionsStay`,
  and `StoreImplemented`, the refinement of EventStore. `IInv` ties three places
  together: the offset in a stream is the end of its file, what its encoder has
  seen is what the chunks of the current block give to a reader (`InBlock`), and
  no two streams have the same clean file (`Apart`). While a payload is between
  the encoder and the file the encoder is ahead by that payload (`Pending`). A
  clean file is one that saw no failed write and no second opening; the others
  map to files EventStore calls spoiled. `Receive` and `Block` map to stutters,
  `NewFile` to the creation of a file or to spoiling the one opened again,
  `Store` to a stored payload, or a spoiled file when it fails, and `Restart` to a
  stored payload without an answer when the chunk was in the file, to a spoiled
  file when a part of it was, or to a stutter. Since an unanswered payload counts,
  too, `IInv` also says that no payload is in two clean files (`OneFile`) and that
  chunks are of payloads before the one being written.
* **ReWriter, WebServer, AgentServer**: `CutIsLast`, `AckedIsWhole`,
  `StoredIsWhole`, `AnswersOnce`, `ReturnsIdle`. The client (`ClientFits`) writes
  to the last connection only, so a cut piece is behind all that was whole there.
  What the Agent has of a connection is the whole pieces up to the position read
  (`StreamFits`), as long as nothing follows a cut (`Sound`). `Counted` says that
  every WaitGroup is the number of goroutines of its kind, which is why the
  command returns with none of them running. A connection of the web server may
  write a status only before anything else (`Well`, `AnswerAt`).
* **Outputs**: `HandlesSafe`, `AcceptedIsShown`, `LabelsAreReadable`,
  `PagesWellFormed`. `HandleInv` says whose handle a branch may hold (`Placed`),
  that the handles known are exactly the held ones (`Held`), and how often each was
  closed; two branches never hold the same file, so Close counts one for each.
  `SoundInv` takes a branch by itself until it is closed: `Sound` ties the text it
  wrote and the rows its converter still holds to the batches given (`InOrder`,
  `AllShown`, `Reads` for what a reader of console labels believes, `Page` for text
  and rows of a page put together, so that a header waiting in `bb` counts), and
  `Over` is what is left of it after the footer. One lemma per converter says what
  it hands on; the loop of ConsoleWriter over a batch is a recursive function,
  whose values are built up by least counterexamples (`ConsoleBuilt`).
* **Codec**: `SkipFrames`, `DecoderFrames`: in any buffer, from the first byte of
  any value, skip answers with the end of the value if it is there and asks for
  more if it is not; only the Reader may refuse a value, and only one with a
  special it does not know (`Refusable`). That the recursive definitions mean
  something comes first: `Encode` by the depth of values (`EncodeIs`), skip by the
  bytes left, since each call is for a later place or, from the loop, for the value
  at the same place (`Rank`, `SkipIs`). Then one lemma per kind of value, with what
  readTag makes of each header (`HeaderRead`, down to the digits of a length in
  `DigitsWorth`) and the loop by the elements left (`LoopFrames`), and all values by
  their layers (`ValuesFrame`).
* **WireReader**: `NothingIsLost`, `EventsAreFramed`, for any events; the reader
  uses of skip what `SkipFrames` says. `Reading` says that the buffer is the
  stream from the start of some event already returned to where the source is,
  and that the reader stands at the start of the next one; `GoesOn` that more
  keeps that for any number of bytes, `FindsNext` that what lies between the
  position and the answer of skip is the next event. Both rest on where events
  begin in a stream (`UptoIsPart`, `EventIsPart`): concatenation (`FlattenSeq`)
  adds one event behind those before it, again by least counterexamples.
* **Labels**: `LabelsAreMade`, for any list of arguments in which every pair has
  its key. While pairs are made, they lie one behind the other after the gap
  (`Laid`: there are offsets where each ends, and the buffer holds them there),
  and two arguments were taken for each but maybe the last (`PairsCounted`), so
  the gap has a cell for every pair. While they are moved (`Moving`), the first p
  are what they should become, the others untouched, and the write position is at
  least as many cells behind the read position as pairs are left: a tag more per
  pair never writes over what is unread, and when all are read p is their number.
  Nothing is said of lists with a pair that has no key, as in the code.
* **Encoding**: `RecordsAreEncoded`, for any heap, values, attributes and labels,
  nested up to any `MaxDepth`. The tables of levels come first: that each is a
  function of the one below (`RawsAre` and its like). `Level` is the claim about
  the calls of one level, for any bytes in front and whatever the addresses
  visited, as long as they are those of the pointers around the value (`Ats`): what
  is appended is the encoding of its tree, and the set visited is what it was, so
  that the next element or field starts with it again (`EachPuts`). It is proved
  by the smallest level that fails (`Levels`); `AttrLevel` is the same for
  attributes, where the pairs a named group announces are counted (`AllPairsLen`).
  The invariant `EncInv` says of every handler (`HandlerFits`), for any pairs put
  inside: its prefix, those pairs and a Break per level of `depth` are the
  encoding of the pairs it was derived with around them, so deriving moves one
  operation from the outside of the pairs to the prefix (`NestedAppend`). As in the
  run, it speaks of values in which one address is one object and of named groups
  that have the pairs they announce (`Plain`).
* **KeyRenamer**: `RecordsAreRewritten`, for any rules. By `RecordsAreEncoded` the
  event is the encoding of a tree, so what is to be shown is about bytes of trees:
  `Rewrote` says of a call for a value that stands somewhere in the event, at any
  path and with any bytes in front, that it puts behind them the key held back, as
  it is, and the encoding of what the rules make of the value, and stands right
  behind the value in what it reads. A key is held back from the pair to its value,
  through any label tags (`Held`, `HeldBytes`), which is why the claim has to speak
  of both and no call can be looked at alone. It is proved by the smallest level
  that fails (`RewriteLevels`), with one lemma per kind of value (`ScalarCase`,
  `LabelCase`, `ArrayCase`, `MapCase`) and one for a rule that fits
  (`RuleApplied`); the loop over elements adds what each of them gives, whether
  they are counted or end with a Break (`LoopOver`), and `DecoderFrames` says that
  Skip passes exactly one value. What is left out is what `KeptStep` excludes: a
  map with a key that is no text is one of these cases, unless a rule takes the
  pair it is in as a whole.

Assumptions on constants are those the code justifies: sizes are positive
numbers, texts are sequences of rules, `Nil`, `None`, `Off` are no values of the
data they stand beside, events are values. TLC evaluates them in the runs.

Only model-checked is liveness (`EveryCallReturns`, `CleanupEnds`,
`WriterRecovers`, `EventuallyStored`, `StopEnds`, `EveryAskReturns`,
`EverythingShown`), which is out of this prover's reach.

Every safety property of a passing run is stated by one of the theorems above.
Type invariants and `SingleCleaner` are proved and are in no run.

## Findings

* rotating: a cleanup that loses the single flight is dropped, and the surplus
  files of its rotation stay (`AtMostMaxTotalFiles`, against the comment of
  `MaxTotalFiles`).
* tlwire.Reader rejects the special SelfRef its own encoder emits
  (`NeverBadFormat`, against the definition in `wire.go`).
* `tlog cat --tail n` prints everything (`TailKeepsLast`, against the flag's
  description).

Other behaviour that no text of the repository speaks of is recorded as a
hazard with a note, and the properties say which histories they leave out:

* a truncation and a write merged into one change stay unseen by `cat --follow`
  until the next one; a file created while its directory is being listed is
  printed twice (`truncated`, `added`);
* a failed second attempt of ReWriter is not repaired (`Sound`), and the next
  event goes behind the part it left;
* files of the agent that saw a failure, or were opened twice in a second, are
  not protected (`dirty`, `reused`); in Rotating see `numLost`, `stale`, `lost`;
* AppendLabels overruns its gap when three or more pairs have no key of their
  own; it may panic or return torn labels (`keyed`);
* a pointer to the first field of a struct it is reached from counts as a self
  reference (`Apart`), a map or slice that contains itself is walked for ever, a
  nil `*time.Time` panics;
* a named slog group announces as many pairs as it has attributes, also when some
  are left out or inlined (`Counted`);
* Rewriter drops the tags of array elements, and leaves the count of a map as it
  was when a rule removes a pair; it reads every key of a map with Bytes
  (`rewriter.go:107`), so it misparses the maps with integer or other keys that the
  encoder writes for Go maps, whether a rule names them or not (`KeptStep`);
* a File with the default opener whose first open failed never opens another
  (`Stranded`);
* `Reader.Read` answers len(p), not the length of the event it copied;
* the goroutine of HandleConn may read the body of a request away from its
  handler, which then waits until the client or the server ends the connection;
* `listen` refuses the tcp listeners agentRun has a case for, and a stopped agent
  waits for clients that stay connected (`HungUp`);
* in Outputs: files of a compressed rotating file stay open, because
  SandwichWriter is no io.Closer; a reader that cannot seek is left open; Dumper
  loses, without an error, an event with a value it cannot print; after a batch
  was refused, a row of a web page may carry pairs of another event.

## What is not modelled

`PROJECT.json` lists every component with its reason. In short: formatting and
layout of text (ids, numbers, times, columns), encodings of numbers and strings
(an external library), the compressor (its history is modelled, its output is a
size), the ClickHouse exporter (one append to a driver's columns under a mutex),
gin and http adapters that turn one call into one, contexts, links to the
runtime, examples. DeLabels and RingWriter have no caller in the repository. In
Rotating the pattern syntax is reduced to the width of the number; in Cat removed
files and directories created later are left out; in Agent a payload of several
events goes as one. In Outputs the padding of console and logfmt columns is left
out, and rotation and redialling are those of Rotating and ReWriter. In
AgentServer the group (an external library) stops as soon as it is told to, or
after a task failed, or does not; http headers and query values are left out. In
KeyRenamer rules are matched by equal paths, fallbacks and nested rewriters are
left out. In Encoding a record has one attribute, which may be a group; a
LogValuer that resolves to a group (`slog.go:126-138` reads the kind before it
resolves, and encodes the group as a list) and fields with an IsZero method of
their own are left out.

## Plan

Models left: the rest of the `tlio` writers, and abstract specifications for
Rotating (a log that keeps a suffix) and WireReader (a byte stream cut into
events), which Cat could stand on.
