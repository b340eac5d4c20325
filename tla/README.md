# A verification development for dharc

dharc is a server that learns from a video stream ("fabric"), a small RPC protocol over
ZeroMQ, and clients that feed it frames from a camera or a movie and show what it predicts.
Its repository is guarded by a gate (`tools/all-tests.py`, run by `.travis.yml`) whose largest
part is a copy of the style checker cpplint, changed locally to count tabs.
This directory holds TLA+ models of that program, the TLC runs that check them on small
instances, and proofs, checked by TLAPS, that some of what the runs show holds for every
instance. Paths below are relative to the repository.

## 1. The system

### Components, state, operations

| component | state | operations | who calls it |
|---|---|---|---|
| **Region** `fabric/src/region.cpp` | per unit: `inputs`, `outputs`, `links` (floats), no lock | `write` scatters an image, `process` runs `processUnit` on every unit (OpenMP over columns), `reform` gathers an image | the RPC thread (`write`, `reform`), the process thread (`process`) |
| **Fabric** `fabric/src/fabric.cpp` | static `regions__`, tick counter | `initialise` makes the region and starts two detached threads, `write2D`, `reform2D`, `getRegion` | RPC handlers; `main` |
| **Server loop** `fabric/src/main.cpp` | one REP socket, one request at a time | poll, receive (until it works), dispatch, send (until it works); SIGINT exits at once | clients, through ZeroMQ |
| **Dispatch** `fabric/src/rpc.cpp`, `rpc_commands.hpp` | none | `process_msg` selects `nop`, `version`, `write2d`, `reform2d`; an unknown number is `nop` | the server loop |
| **RPC client** `common/src/rpc.cpp`, `rpc.hpp` | one REQ socket | constructor (connect, version check), `send` (500 polls of 10 ms, then `exit(1)`) | `Sense` |
| **Packer** `rpc_packer.hpp` | none | binary form of arguments and results | both sides |
| **Sense** `sense/common` | an `Rpc` | `write2D`, `reform2D` | camera, movie |
| **Camera** `sense/camera/src/main.cpp` | V4L2 buffers, frame, display buffer | wait for a frame, requeue, reform, copy, write, show | - |
| **Movie** `sense/movie/src/main.cpp` | SDL surface and mutex, frame | VLC callbacks `lock`/`unlock`, display loop, teardown | VLC, SDL |
| **cpplint** `tools/cpplint.py` | globals: filters and their backup, suppressions, line length, error counts; per file: cleansed lines, stack of blocks and its copies, include lists, function | `main`, `ProcessConfigOverrides`, `ProcessFile`, `ProcessFileData`, then `ProcessLine` for every line | the gate; people |
| **Gate** `tools/all-tests.py`, `unit-tests.py`, `system-tests.py` | an exit code each | run the test programs, a server, cppcheck and cpplint, combine the codes | `.travis.yml` |
| **Labels, Node, Tail, Lock, Parser** `common/` | two maps; a 64-bit word; a hashed vector; a flag; a stream position | see the sources | little of it is still called |
| **Element, Patch** `fabric/includes` | energies and dendrites of one element; an array of them | `integrate`, `learn`, `forward`; `process` with OpenMP phases | tests only; Patch does not compile |
| **Monitor, Architect** | - | - | not built: they use commands and headers that no longer exist |

### Interaction

A client blocks in `send`; its request waits in its own ZeroMQ pipe until a server takes it.
The server executes requests one after the other, so `Region::write` and `Region::reform`
never overlap each other. They do overlap `Region::process`, which runs for ever on its own
thread and team: those three share the floats of the units with no lock or atomic. Between
passes the team joins (the implicit barrier of `omp parallel for`).

### What is hard

* the RPC thread overwrites `inputs` while workers read them, twice each (region.cpp:194, 246);
* `reform` tests an output and reads it again (region.cpp:157-159);
* exclusive use of units rests on the loop partition and the join alone;
* three independent index formulas must agree (region.cpp:94, 95, 144-150);
* learning adds and subtracts without clamps, and slots compete through a running factor;
* the server may stop between receive, execute and send; requests survive in client pipes;
* client timeouts race with replies; every zmq error restores all polls;
* `exit` runs destructors of static objects that detached threads still use;
* the movie client makes remote calls with a mutex held, the camera requeues a buffer
  before it reads it;
* cpplint understands C++ with line-by-line patterns: comments, strings and raw strings are
  taken out by separate passes, blocks and branches of `#if` are kept on stacks that are copied
  and put back, and the same questions (where a bracket ends, which block a line is in) are
  answered by more than one piece of code;
* its filters, suppressions and line length are globals that outlive the file they were set for,
  on several ways out of `ProcessFile`.

`PROJECT.json` lists each hazard at its line, with the properties that are about it or the
reason why there is none yet.

### What makes each component correct

Region: pixels land where they are looked for; no unit is updated twice at once; no slot is
skipped by a pass; reads never go back in time; a slot's output is published only after its
links; the last frame reaches every unit. Numerics: everything stays in [0, 1]; better
matches respond more; a full response silences the rest; learning is local to active inputs
and newly active slots. RPC: calls are atomic, executed at most once, answered by their own
reply, and end; the server is not held up by clients that left. Camera: what is sent is
the frame taken or the next, no frame taken is dropped, quitting ends it. Movie: only whole
predictions are shown, the server is sent whole pictures and predicts them unseen, nothing is
freed in use, quitting ends it. cpplint: braces that are code are the ones it counts, both
scans agree on pairs of brackets, its stack is as deep as the braces of the first branches,
includes are judged by what really comes before them, one file leaves nothing behind for the
next, and every run ends. Gate: it succeeds only if everything it called did.

## 2. Modules

| module | models |
|---|---|
| `RegionGeometry` | the index arithmetic of `write` and `reform`, and the order of nested loops |
| `Region` | RPC thread, process thread and OpenMP team on the units, every access to a shared float a step |
| `RegionProofs` | scatter and gather are inverse for every size; type correctness, exclusive units, frames land in place, links settled; passes complete; how old what the threads read of each other may be |
| `Unit` | the numbers of `processUnit`: matching, competition, learning, in fixed point |
| `UnitProofs` | type correctness without clamps, the best match is loudest, a winner silences all, learning is local |
| `Rpc` | client class, server loop, restarts of both, ZeroMQ between them |
| `RpcSpec` | what a caller is promised: atomic at-most-once calls |
| `RpcProofs` | type correctness, at-most-once, replies answer their call, the refinement of `RpcSpec` |
| `Camera` | main loop, V4L2 buffer refilled by the driver, remote calls |
| `CameraProofs` | type correctness, what is sent spans two frames, none taken is dropped |
| `Movie` | VLC's video thread, the main thread, the SDL mutex and surface, remote calls, teardown |
| `MovieProofs` | type correctness, whole predictions on the screen, whole pictures to the server, nothing freed in use |
| `LintText` | raw strings, comments and strings taken out of the lines (`CleansedLines`) |
| `LintBrackets` | the forward and the backward scan for the other end of an expression |
| `LintBlocks` | the heads, braces and ends of blocks: what `NestingState.Update` does to its stack |
| `LintNesting` | `NestingState`: the stack, the copies for branches, the line left to consume |
| `LintNestingSpec` | what `UpdatePreprocessor` promises: the stack of a reader of first branches |
| `LintIncludes` | `_IncludeState` and `CheckIncludeLine` |
| `LintFunctions` | `_FunctionState` and `CheckForFunctionLengths` |
| `LintGuard` | `CheckForHeaderGuard` |
| `LintReport` | filters, `NOLINT`, verbosity, what `Error` prints and counts |
| `Lint` | the driver, from the command line to the exit status; composes the `Lint` modules above |
| `Gate` | the three scripts, which run `Lint` as their last command |
| `LintReader` | a reader of C++ that knows, token by token, which braces are code: what cleansing is compared with |
| `LintProperties` | the properties of both |
| `LintTextProofs` | for every text: what the recursive functions of `LintText` return, that both scans of `LintBrackets` agree, and that cleansing leaves the braces that `LintReader` reads as code |
| `LintProofs` | type correctness, progress, braces left by cleansing, pairs of brackets, filters restored, honest gate, the refinement of `LintNestingSpec`, the order of includes |
| `LintPathProofs` | the ways through `#if`, `#else` and `#endif`: the depth of the stack of blocks, and which includes are found again |
| `MCRegion`, `MCUnit`, `MCRpc`, `MCCamera`, `MCMovie`, `MCLint` | the constants of the runs |

Definitions named `X_Something` and marked "Mutant" just above a definition `X` are wrong
versions of it that no module uses: each belongs to a property that fails if `X` is
replaced by it, which shows that the property depends on that code.

### Region

`inputs[u][k]` is not a number but where the number came from: the frame and pixel that was
copied. `outputs[u][j]` is the pass that stored it and whether it exceeds 0.0001;
`links[u][<<i, j>>]` the pass that last learned it. `processUnit` is a loop of single steps:
`Collect` reads one input for one link (region.cpp:191-201), `Mismatch`, `Renew` and `Match`
take a slot (221-230), `Learn` changes one link (239-256), `Activate` stores the output
(264), `Leave` goes to the next row. Slots and links are taken in any order, which includes
the sorted one. Whether a slot matches is left open, except that a slot whose inputs were all
still 0 cannot; `Unit` looks into that choice. `write` and `reform` are loops of single steps
as well. The data races are modelled as interleavings of whole 32-bit loads and stores, which
is what the default build (no optimisation, x86-64) emits for these accesses.
`base`, `rbase` and `basis` are history variables: the number of complete frames (or the pass)
when a worker (or a reform) began, and the frames the last finished `processUnit` read.

Bounds: `MaxFrame` (frames written; the writer stops there, the rest goes on) and `MaxPass`
(pass numbers stay at the bound once it is reached, so passes never stop; what a property
says about pass numbers is checked up to the bound).

`reform` reads an output twice, to count it and to add it (region.cpp:158-160), with the passes
going on in between. A pixel of `image` is the set of its terms, each with its slot and both
readings; the numbers they make up are left out. `ReformRegular` relates the two readings to each
other, to the pass in which the call began, and those of one pixel to those of the next.

### Camera

`at` is where main is: the events, `select`, the two halves of `read_frame`, the remote calls
around the pixel copy, the display. There is one buffer (camera main.cpp:90-130, 206-213); its
`status` is that of the V4L2 interface: `queued` with the driver, which stores the next frame
pixel by pixel (`Fill`), `done`, or `ours` between `DQBUF` and `QBUF`. `Queue` gives it back
before `Copy` reads it, so the driver and the copy interleave. `select` may announce a buffer
that is not there (the `EAGAIN` of read_frame, whose result main ignores). A remote call is
atomic, as `RpcSpec` promises, or never answered: `exit` then waits for ever in the destructor
of the ZeroMQ context, whose socket stays open (rpc.cpp:17, 64).
Bounds: `Size` pixels, `MaxFrames` frames, after which the camera stalls.

### Movie

`video` is where VLC's thread is in `lock`, the drawing VLC does, and `unlock`; `main` where the
main thread is in its loop and teardown. A pixel of the surface is what it shows: a picture of
the movie, the black `Convert` leaves (movie main.cpp:65), a prediction. `region` and `rdata` are
numbers of pictures: the last one sent, and the last one known when the prediction was made.
The keys are `escape` and `other`; return and space change only the video mode and an unused
counter. `GiveUp` leaves the mutex held: the main thread then waits for ever, which the
liveness property excepts and `PROJECT.json` lists as a hazard.
Bounds: `Size`, `Length` (pictures of the movie), `MaxEvents` (events of the user).

### Unit

One unit, its inputs rewritten between passes. A float of [0, 1] is a multiple of `1/ONE` and
products are truncated towards zero; `rate` is larger than `kLearnRate` so that learning moves
a strength by at least one multiple. The initial strengths are a function `Falloff` of the
distance (region.cpp:53-75). For the server's 5 x 5 units the float expression
`(x / outsize) * insize` is exactly `x`, which `Distance2` uses.
A pass is a loop of single steps: `Begin`, then `Depolarise` one link at a time, `Restrict`, then
the slots from the best match down (`Mismatch`, `Renew`, or `Match` followed by `Learn` one link at
a time and `Activate`), `End`. The sums are variables because the loops of the code make them
(region.cpp:191-201, 239-256). std::sort leaves ties in any order: `Best` and `Learn` allow them
all. `was` is a history variable, the unit before the pass.

### Rpc

A client is `ready`, `waiting` in `send` or `gone`; `Rejoin` runs the program again on a new
connection (`session`). ZeroMQ is external and modelled by three facts the code relies on:
a request stays in the client's pipe until a server takes it (`Take`), it is not sent twice,
and a reply goes to the connection of its request or nowhere (`Send`). The sockets set no
linger time, so a request outlives the disconnect of a client that gives up (rpc.cpp:62) and
may be executed later; it is gone only if the user kills the old process (`Rejoin`).
`Exit` is SIGINT: the server may stop at any point, losing its queue, the request in service
and any subset of the replies in transit. `StartFails` is a server that ends before it can be
reached, over an argument it does not know (main.cpp:36-39) or a port that is taken (48). Errors thrown by poll, receive and send on the server are retried with no
change of state and so are stuttering steps; an error that is thrown while the client
polls, receives, or disconnects after the last poll restores its polls (`PollError`).
`runs` is the bag of all executions, also of requests whose client has given up or was started
again; `result` is what a client that still waits may be told. `region` is the last write executed since the start: what a reform may
depend on.

`RpcSpec` is the promise. The refinement (`KeepsPromise`) maps a waiting client to "called"
or "answered" by whether its call was executed, and requests whose sender left to `abandoned`.

Bounds: `Retries` (500 in the code), `MaxCalls` per process, `MaxSessions`, `MaxStarts`,
`MaxErrors`. These runs do not check deadlock: when the bounds are used up, or every client
has exited for good, nothing more happens.

### Lint

A run of cpplint is a deterministic program over data, so its inputs are the nondeterminism:
`Jobs` is a set of runs (options, files with their text, configurations), one of which the
initial state picks. A line is a sequence of tokens: the words, marks and brackets that some
pattern of the modelled checks tells apart, the names and headers being model values, and
tabs for the indentation, as the local change of `GetIndentLevel` (cpplint.py:1644) counts
them. A scan for the other end of a bracket reads the lines with
a token for their ends, since it looks for operators on one line only and stops where a line ends
with nothing open. A header carries what classification asks of a name; `order` is its alphabetical place.

The steps follow the program (`phase`): `arguments`, `next` (file), `config` (one directory at
a time, from the inside out), `override`, `open` (which cleanses the text), `ifndef` and
`endif` (the guard of a header, whose `NOLINT` comments are parsed before the lines are),
`lines`, `exit`. A line is several steps, `step` and `todo` being the local state of
`NestingState.Update`: the head of a namespace or class, then one brace or semicolon at a time,
then the checks of the line. Every error goes through `Report`, which looks at suppressions,
verbosity and filters in that order and counts what it prints.

`pp` is the stack of copies for `#if`. `LintNestingSpec` is a reader that keeps a stack, and
ignores what comes after an `#else` until its `#endif`; the refinement maps its stack to the
copy kept at the outermost `#else`, or to the stack if there is none.

The properties compare what the program finds line by line with definitions that look at the
whole file: the reader of `LintReader` goes over it once, token by token, and knows which braces
are code (`BracesAreCode`, for texts in which the program does not warn that it may give up and the
reader is never "odd"; see below); `OnPath`
and `Depth` say which lines count for the braces before a line (`DepthIsBraces`); `Stretch` which
includes stand between two directives (`IncludeOrder`, for texts without a directive after a word
for inline assembly: no line of inline assembly is checked, so a directive there is one for
`NestingState` and does not begin a new section of includes); `OnOnePath` which lines one choice of
branches can see both of (`DuplicateOnPath`). Nothing in a run waits, so that `Progresses`, by
which every step brings down a lexicographic measure of what is left, together with the absence
of deadlock, says that it ends; no fairness is needed for that.

The reader is odd for good after what the passes, each over whole lines, do not claim to
understand: a string, or a comment with code before it, that goes on after the end of its line;
the mark of a raw string in a comment, a string or another raw string; code after the end of a
comment of several lines; marks or braces in the string of an `#include`, which is kept; several
raw strings of which the last goes on to the next line; a line of a raw string that begins a
comment. An earlier statement of `BracesAreCode` left out the last four; the attempt to prove it
showed that it was false for texts longer than those of the runs. This one is proved
(`BracesFound`); before that it was checked for every text of up to five tokens of the nine that
matter and on some seven hundred thousand random ones of up to fourteen.

The model was also compared with the program itself: on some two thousand random texts made of
the model's tokens the two print the same errors in the modelled categories.

Left out: escapes, character constants and the delimiters of raw strings, which are data of
`CollapseStrings` and `CleanseRawStrings`; the checks of one line (see below).

### Gate

`gate` is the command that runs. What a test program or cppcheck returns, and whether the server
starts, is a choice; cpplint is the modelled run. `system-tests.py` fails only if the server cannot
be started, since its only test is commented out.

## 3. Runs

| run | instance | shows |
|---|---|---|
| `region_team` | 2 workers, 2 x 2 units of one pixel, 1 frame, 2 passes | `TypeOK`, `ExclusiveUnit`, `PassesComplete` |
| `region_unit` | 1 worker, one unit of 1 x 2 pixels, 2 frames, passes 0 to 2, reforms | `FrameLandsInPlace`, `CollectRegular`, `ActiveLinksSettled`, `ReformRegular`, `UnitsMoveForward` |
| `region_live` | 2 workers, 2 units, 2 frames, fair | `FrameReachesUnits` |
| `region_one_frame` | 1 worker, one unit of two inputs | `UnitSeesOneFrame` fails |
| `unit` | 2 x 1 inputs, 2 slots, four input levels, `ONE` = 10 | `TypeOK`, `BestMatchLoudest`, `WinnerTakesAll`, `LearningIsLocal` |
| `rpc` | 2 clients, 2 processes each with 2 calls, 2 server starts | `TypeOK`, `AtMostOnce`, `ReplyAnswersCall`, `OneCopy`, `KeepsPromise` |
| `rpc_live` | 2 clients with 2 calls, 1 zmq error each, fair | `CallEnds`, `InboxDrains` |
| `camera` | 3 frames of 3 pixels, fair | `TypeOK`, `SentSpansTwo`, `NoFrameDropped`, `QuitEnds` |
| `movie` | 2 pictures of 2 pixels, 3 events, fair | `TypeOK`, `ScreenIsWhole`, `SentWholeAfterPrediction`, `FreedWhenUnused`, `QuitReturns` |
| `movie_escape` | 1 picture, 2 events, fair | `EscapeQuits` fails |
| `lint` | twenty families of runs, see below | `TypeOK`, `BracesAreCode`, `BracketsPair`, `FirstBranch`, `DepthIsBraces`, `IncludeOrder`, `DuplicateOnPath`, `FiltersRestored`, `SameVerdict`, `GateHonest`, `Progresses` |
| `lint_config` | the family of configurations | `NestedLengthWins` fails |

Why the bounds are enough: workers touch disjoint units, so two of them and two columns show
what a team can do to itself, and one worker with two inputs, two slots and two frames shows
every order of a read and a write of the same float; three pass numbers tell "this pass", "the
one before" and "older" apart. In the RPC layer two processes of one client, one restart and a
second client give late replies, abandoned requests and requests that outlive a server; a
third call would meet the same states again because a socket holds one request at a time.
Two clients are interchangeable, so `rpc` is checked up to their permutation; the runs with
liveness properties use no symmetry. Three pixels and three frames give the camera
a pixel before, at and after the place where the driver overtakes the copy, in each of two
successive copies; two pictures of two pixels give the movie a prediction of a known picture
and loops that can be caught half way, and three events a key that is overwritten and a quit.

The families of `lint` vary one thing each and all of its values: three or four marks of comments
and strings with a brace in and after them; three brackets, operators or ends of lines between parentheses; three
lines of heads and ends of blocks; four lines of braces and conditionals; ends of classes and
namespaces; four includes in a row, around an `#if` with an `#else`, in nested `#if`, and around inline
assembly with a directive in it; functions of
up to five lines; two lines with `NOLINT` comments; headers with 256 guards, each read twice; the
same header included twice by different files; two options of the command line; configurations in
three directories and three files; lists of three files; bytes that are not text; the gate. Each
hazard is an order of two or three such things, which is why three or four suffice: a raw string
in a comment in a string, a brace before and in and after a branch, an error between two includes.
The constants `ShortNamespace` (10 lines in the code), `NormalTrigger` and `TestTrigger` (250 and
400), and `TopLines` (11, where the copyright is looked for) are scaled down so that short texts reach
them; `LineLength` is 80, which short texts reach through `--linelength`.

The three violations are disagreements between the code and what it says of itself:

* fabric.hpp:32 calls the class threadsafe. A write that overlaps a pass gives a unit computed
  from parts of two frames (region.cpp:96 against 194).
* movie main.cpp:198 lists "escape (quit)". Every key event of a turn overwrites `action`
  (207) and the switch looks at the last one only, so an escape followed by another key in
  the same turn is lost.
* cpplint.py:160 says a configuration has effect "unless overridden by a nested configuration
  file". For the line length it is the outermost file that wins (6103), and the value stays for
  later files without a configuration.

### Fairness

`Region`: a call that was begun goes on, the process thread starts the next pass, no worker
stops (weak fairness each): the threads are only ever preempted, and the loops have no
waiting in them but the join. Clients owe nothing. `Rpc`: a client in `send` goes on polling
and a running server goes on with its loop (weak fairness); ZeroMQ queues fairly between
connections, so a connection with a request is served in the end although others are served
in between (strong fairness of `Recv`). No fairness on calls, starts, exits or restarts.
`CallEnds` does not use the server's fairness; it holds of a client whose zmq errors end
(`MaxErrors`), since each of them restores its polls. `Camera`: main goes on (weak fairness), while
the camera and the user owe nothing; `select` returns within two seconds. `Movie`: both threads
go on (weak fairness). That says of the mutex only that a thread gets it if it stays free; the
movie ends, and then it does for the main thread.

## 4. Proofs

Assumptions are those named in the modules: sizes, retries and bounds are positive or natural
numbers.

* **Geometry.** `DivMod` and `DivModBound` say that a row-major index and its quotient and
  remainder determine each other; `GatherInvertsScatter` and `EveryPixelWritten` follow for
  every region and unit size.
* **Region.** `Inside` (a worker outside `processUnit` has empty tables, a slot is learned
  only after all links are collected) makes `TypeOK` inductive. `ColumnOwned` (a column is
  held by one worker and then not offered) gives `ExclusiveUnit`: exclusive units alone are
  not inductive, since a column offered twice would break them one step later. `Landed` (every
  iteration of the write that is done has put its pixel in place) gives `FrameLandsInPlace`
  with the geometry theorems. `Settled` (the links a worker is done with carry the number of the
  pass, those of a slot nobody learns carry one number) gives `ActiveLinksSettled`; it rests on
  `ColumnOwned`, since a second worker in the unit could publish the slot in between.
* **Freshness.** `Renewed` says which slots the pass has been through (`Done`: the column was
  handed out, and the worker in it is below the unit, or in it with the slot stored) and gives
  `PassesComplete`: when the team has joined every slot is done. For `ReformRegular`, `Owing` adds
  that a slot the pass has not been through is of an earlier pass, so that whoever stores an
  output replaces an older one (`OutputsAdvance`), and `Gathered` relates every term of the image
  and what was just tested to the slot they were read from (`Past`): they are what it holds or of an
  earlier pass, and no term is newer than what is tested next. `Recent` (no input is older than the last
  complete frame) needs that write reaches every input (`EveryInputWritten`) at the step where
  it returns; with `Collected` (links are read in the order of the loops) it gives
  `CollectRegular`. `Renewing` ties what a unit was last computed from to its inputs and to what
  a worker has read of it since: each old frame has an input all of whose reads are as new, each
  read has an old frame that is no newer. At the end of `processUnit` that is `UnitsMoveForward`.
* **RPC.** `Lockstep` locates every message and counts every execution, of requests whose
  client has given up as well: a request in a pipe, in the inbox or in service was not executed and
  is in no second place, one that was not issued (`Issued`) was not executed, a reply that its client
  waits for is to one that was executed once. It gives `AtMostOnce` and `ReplyAnswersCall`. `InService` (the request in service is one, and a reply about to be sent is
  to it) adds `OneCopy`. For `KeepsPromise`, `OnePlace` (a request that was not executed is in a
  pipe, in the inbox or in service, not in two of them; it follows from `Lockstep`) makes the set `abandoned` change by one
  request at a time; then a call, a return, an execution, a client that gives up or comes back
  and a server that loses requests are each a step of `RpcSpec`, and every other step leaves the
  mapped state alone. The proof is of the safety part, which is all that `RpcSpec` states.
* **Unit.** The numbers come first: truncated products of numbers of [0, 1] stay there and are
  monotone, what learning adds fits above a strength and what it takes is no more than it
  (`LearnedType`, which is where `rate <= linklimit` is used). `Staged` (which slots are left at
  each stage) makes `TypeOK` inductive. `Ordered` gives `BestMatchLoudest`: a slot that is done was
  at least as good as any that is left, and its output is still no less than what its match would
  be worth now, after the factor has come down. `Won` (an output above 0 has lowered the factor, a
  full one has brought it to 0) gives `WinnerTakesAll`, since a full response needs a full factor.
  `Local` adds to `LearningIsLocal` that a slot which learns will be active: links that change
  before the output is stored do so for an output above 0.
* **Camera.** `SentSpansTwo` needs to know what the buffer holds at every place of main: before
  `fill` the next frame, from `fill` on the last one (`Stream`), how that relates to `base`,
  and what the copy has taken so far (`Copied`). From the same invariant come `NoFrameDropped` and `TypeOK`.
* **Movie.** `Holding` ties the mutex to the places of the two threads; with it `SurfaceOK`
  says what each pixel of the surface shows at each place of the video thread, `LoopsOK` and
  its neighbours what the loops have done so far. The three safety properties and `TypeOK` follow.
* **Text.** `LintTextProofs` proves by induction what the recursive functions of `LintText` return
  for every line. The library's induction theorems take an operator, which no installed prover can
  instantiate; but a recursive function is a `CHOOSE` in the logic, and induction over a *set* of
  numbers needs no operator: `LeastOf` finds the first number for which a fact fails, `Induction`
  is its contrapositive, `Recursion` shows that a function which fits the equation exists. From
  these follow that raw strings, comments and strings taken out of a text leave as many lines, each
  a sequence of tokens. For `BracketsPair`, a stack without its angle brackets (`Bare`) is what both
  scans agree on: each scan is a `Walk` over bare stacks, a walk read backwards with the brackets
  exchanged (`Flip`) is a walk again, and a walk has one place only where its stack is empty again
  for the first time (`ScansAgree`).
* **Braces.** `BracesFound` sets the reader, which goes over a file once, against the passes of
  cpplint, each of which goes over what the one before has left. Each pass is shown to take out only what the reader would
  have passed over: a reader that forgets the token before (`Passes`) reads a line without its raw
  strings as the reader reads the line (`Without raw strings`); a line whose strings were emptied
  leads it to the same mode with the same braces, until it is odd (`Strings`); of a line without
  comments it is left with all braces (`Comments`, where `StrictMoves` says what one token does).
  What joins these is that reading is a fold: reading two texts one after the other is reading
  them joined, and two folds over one text keep a relation that every token keeps (`Together`).
  `BracesLeft` is then one induction over the lines of the file: `Agree` ties the mode of the
  reader before each line to the two recursions of the program, the ends of comments of several
  lines and whether a raw string is open. That the reader is never odd and the program gave no warning is needed
  at the places where the two would go different ways. `CleansedInv` (the copies are those of the
  file at hand, from its opening to its last line) carries the lemma to the states of a run.
* **Lint.** `FiltersInv` (while a file is looked at, the backup is the list of filters given on
  the command line) gives `FiltersRestored`: the filters themselves say nothing in between.
  `HonestInv` (the code so far is 0 just if nothing failed so far, and cpplint exits with 0 only
  if it printed nothing) gives `GateHonest`. For `FirstBranch`, every step is one of the reader of first
  branches or leaves its stack alone; `NestInv` (the stack of copies is one, and if some branch
  is an `#else` there is a first) makes the mapped stack well defined. `ShapeInv` (what every phase
  and step leaves to do is of the right length, and the copies of the text have as many lines)
  makes each component of the measure a natural number, or -1 at the end (`Less` is the
  lexicographic order on them); then each action brings it down, which is `Progresses`.
  `TypeInv`, type correctness, is made of `ShapeInv`, the types of the blocks and their copies,
  `IncludesInv` (there is a list of includes, not empty, which replacing the last one keeps),
  `ErrorsInv` (counts, suppressions and what was printed) and `OptionsInv`. The attempt to prove it
  showed that the model called the check of an include line with a line that was none: cpplint.py
  matches its pattern again, on the line with its strings (4637), and so does the model now.
* **Includes.** `IncludeOrder` is about what was printed and about the text; the program has
  only `section` in between. `SectionInv` says that the section tells which kinds of headers were
  recorded since the last directive that was checked, `RecordedInv` and `PrintedInv` that nothing was recorded or
  printed of lines to come, `AssemblyInv` that without a word for it no block, current or kept, is
  inline assembly, so that every directive is checked. The attempt to prove the property
  without that restriction failed: two includes with inline assembly around a directive between
  them are one section to cpplint. TLC confirms it with the family of inline assembly.

* **Ways through the directives.** `DepthInv` relates every copy that `UpdatePreprocessor` keeps
  to the braces of the lines its branch can see (`PathText`); of a line that is half read it counts
  what is no longer in `todo`. Each piece of a line (the head of a
  namespace or class, a brace, a semicolon) changes depth and text alike, and an `#else` or
  `#endif` changes the path in the same way as it changes the stack. For `DuplicateOnPath` two
  invariants are needed. `EntriesInv` says what each list of includes may hold: lines that were
  recorded and that one way still leads from. `HeadersInv` says what it must hold: of a header that
  was included at level 0 an entry is there still, although an entry can be replaced by one of the
  same name and lists are emptied by `#else`. The proof showed that two headers are the
  same for `FindHeader` if their names are, so that `SameHeader` compares names.

What the proofs assume of the texts: `TokensAssumption` (marks and brackets are strings),
`LintAssumption` (every run of `Jobs` has the shape of a command line, files and configurations)
`HeaderAssumption` (the alphabetical place of a header is a number) and `ThirdPartyAssumption`
(what the pattern of third-party headers matches depends on the name). TLC evaluates them on
the runs.

Only model-checked: the liveness properties (the prover has no rule for fairness here), and
`SameVerdict` of `Lint`. It compares two files of one run, the second of which starts after any
number of steps on the first: its invariant has to hold the whole state of the first reading
next to the second.

## 5. Not modelled

* **cpplint's checks of one line** (spacing, casts, macros, language rules) and
  `CheckForIncludeWhatYouUse`: patterns over a line or over the text that keep nothing from one line
  to the next. A property of such a check would be its pattern again.
* **Wire format** (`rpc_packer.hpp`, types of replies, version number): an encoding without state.
  Requests are model values, delivered whole.
* **End of the server** (`exit`, or a return from `main`, under detached threads): what the
  destructors of static objects do to the threads is undefined behaviour, listed as a hazard. `Rpc`
  has the end itself, `Exit` and `StartFails`.
* **Labels, Node, Tail, Lock, Parser**: `common/CMakeLists.txt` builds `rpc.cpp` only. Of these
  only `Node` reaches a program, as an included type.
* **Element** is used by `Patch` and by tests, **Patch** does not compile, **Monitor** and
  **Architect** use commands and headers that no longer exist.
* libVLC, SDL, V4L2 and ZeroMQ are external and modelled by how the code uses them.

What would come next: the two clients over the detailed RPC layer in place of the promise proved of
it; and a reading of one file as a function of its text, from which `SameVerdict` would follow.
