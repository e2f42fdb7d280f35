# A TLA+ model of the eyoung intrusion prevention engine

eyoung loads *signature files*, compiles the C code in them with a JIT, and
lets protocol decoders report *events* to it; a signature is a sequence of
events with patterns and conditions, and its code decides what happens when the
sequence has been seen. The modules here model the engine (how signatures and
libraries are loaded and linked, how works, that is connections, and events
live and die, how patterns are searched and how detection remembers what has
matched), the allocators and the hash table below it, and the POP3, HTTP and
HTML decoders above it. TLC checks the modules on small instances; TLAPS proves, for
every instance, the safety properties of detection, the pattern search, works, loading,
linking, the allocators, the table, and the three decoders.

Paths are relative to the repository.

## The system

| part | state it keeps | operations | modelled by |
|---|---|---|---|
| loading (`libengine/engine.c`, `ey_parser.c`, `gram.y`, `ey_signature.c`, `ey_event.c`, `ey_compiler.c`) | event array with a list of rhs items per event, signature hash and list, item counter, prefix and postfix arrays, file name hash, the prologue of the file under way | `ey_engine_load`, the grammar's actions, `do_prefix_postfix`, giving up a file | `Load` (partly) |
| import (`libengine/ey_import.c`, `ey_elf.c`) | hash of open libraries, memory of their names | `%import`, `ey_attach_library` | `Import`, `Load` (partly) |
| functions and linking (`ey_engine.c`, `ey_signature.c`, `ey_work.c`, `ey_event.c`) | lists of file init and finit functions, hooks of works and events | `ey_add_*`, `ey_set_*`, prologue options, `do_link`, `ey_signature_finit` | `Link` (partly) |
| detection (`ey_runtime.c`, `ey_bitmap.c`) | per work: state bitmap and pattern bitmap; per call: the verdict | `ey_engine_work_detect_data`, `ey_engine_work_detect_event` | `Rules`, `Detect`, `Progress` |
| works and events (`ey_runtime.c`, `ey_work.c`) | work list (engine lock), bitmaps, local allocator, preprocessor state | create, destroy, events, engine teardown | `Work` |
| pattern search (`ey_preprocessor*.c`, `libmatch/libmatch.c`, what it uses of `acsmx2.c`) | Aho-Corasick automaton, its state per work and direction | load and compile patterns, search a piece of data | `Acsm`, `Preprocessor` |
| slab (`libmemory/ey_slab.c`) | pages with free lists, two page lists, counters, a flag per item | `ey_zalloc`, `ey_zfree`, `ey_zclear` | `Slab` |
| sized slab (`libmemory/ey_fslab.c`) | a slab and a list of larger blocks | `ey_fzalloc`, `ey_fzrealloc`, `ey_fzfree`, `ey_fzclear`, `ey_fzfinit` | `Fslab` |
| hash table (`libmemory/ey_hash.c`) | lines with a lock each, a count with a limit | find, insert, remove, remove_all | `HashTable`, `Table` (partly) |
| POP3 decoder and its signatures (`libdecoder/pop3`) | lexer and parser per direction, queue of requests, list of pairs, protocol state | `pop3_decode_data`, checks of `pop3.ey` | `Pop3Parse`, `Pop3Detect`, `Pop3Session` |
| HTTP decoder (`libdecoder/http`), decompression (`libz/ey_zlib.c`) | per direction: lexer, parser, length, chunked flag, content fields, unpacker; lists of requests and transactions | `http_decode_data` | `HttpStream`, `HttpSession` |
| HTML decoder and its check (`libdecoder/html`) | lexer with the text saved between pieces, parser's stack, tree of nodes, count of reductions; score of a template | `html_decode_data`, `html_work_destroy`, `xss_training`, `xss_check` | `HtmlLex`, `HtmlParse`, `HtmlSession`, `HtmlTree` |
| third party: `libjit` (TinyCC), the rest of `libmatch/acsmx2.c` (Snort) and of `libz` (zlib), `libdecoder/sql`, `include/ey_queue.h` | | | not modelled |

How they interact. `ey_engine_load` parses the files one after the other; the
grammar calls the event and signature tables and attaches libraries; when all
files are parsed, `ey_load_post_action` links functions, fills the arrays and
compiles the patterns. Afterwards the tables do not change. A decoder creates a
work per connection, hands raw data to the pattern search and then parses it,
and the actions of its grammar report events. Every event is created, detected
and destroyed before the next. Works of different connections run on different
threads and share only the allocators and the work list.

What is hard in this code: an alternative is matched over many events, in two
bitmaps that must agree; patterns and tokens are cut anywhere by the pieces in
which data comes; failure ladders of gotos with many rungs; memory that is
handed out again with what its last user left; keys of hash tables that are
addresses; functions registered by several parties before, while and after
names are linked; allocators that handle flags outside their lock or have a list
without one; decoders that must pair what two peers send and carry framing from
message to message. `PROJECT.json` lists each hazard with its line and the
properties that cover it.

What makes each part correct, in short: detection remembers alternatives from
their beginning, completes the earliest, and forgets all of it; the search
finds what is in the data however it is cut; a work leaves nothing behind
whichever step fails, and takes nothing over from another; the tables list every
item once and in order; a function that may be called has an address; an item of
the slab is in one place, a larger block on one list or in one hand; a hash table
is a set with a limit for all threads that use it; an answer is paired with its
request; a message leaves nothing behind for the next; a page becomes the tree that its writer
meant, wherever it is cut, and all of it is freed.

## Modules

### The engine

`Rules` has the signature data base as constants: how many rhs items, which
alternative and event each belongs to, which have a pattern, a Condition, an
Action. `TablesFit` and `ListsComplete` of `Load` show that loading produces
tables that `Rules` may take for granted.

`Detect` extends `Rules` with the state of one work. `state` and `pp` are the
bitmaps as sets of numbers. A call of `ey_runtime_detect_event` is
`DetectEvent`, then one step per iteration of the loop of
`do_bottom_half_detect` (one action for each way an iteration ends: the four
`continue`s that skip, `Remember`, and `Complete`), then `Return`. Conditions,
Actions and preprocessors are code of the signature files: they may answer
anything, so the model has both outcomes. `Search` is a pattern search that may
set any bits of items with patterns. Bits that `ey_bitmap_create` does not clear
(`Uncleared`) start with any value.

`Progress` is what detection promises without bitmaps and loops: every
alternative advances one item at a time, at most one completes in a call, and
starts again from nothing. `Implements` is the refinement, with `reached` as
the highest remembered item of every alternative.

`Acsm` is the search as an algorithm: patterns are put into a tree of states
(`Tree`, from the last pattern to the first), states get the state to fall back to and the
patterns that end there in the order of a queue (`BuildNFA`), fallbacks are compiled
into full rows (`ConvertNFAToDFA`, `ConvListToFull`), and a search follows the rows from
where the last one stopped (`Visited`). Each loop of the code is a recursive function whose
value at k is the state after k rounds; `words`, the letters that lead to a state, is for
properties only. `Preprocessor` composes it with `Detect`: `acsm` is what
`simple_load_finish` compiles, `DetectData` searches one piece of one side's data and sets
the bits that the real search sets, and `last` keeps the state for each side.

`Work` extends `Rules` with the works of an engine. Every rung of the ladder of
`ey_runtime_create` is a value of `pc`; a failing step goes to the label that
the code goes to, so creation that fails and destruction share their actions
(`DetectFinit`, `UserFinit`, `PreFinit`, `FreeAll`) as the code shares their
order. `held` and `open` record what has been allocated and which stages have
been initialised; `mem` has the bits of every bitmap buffer, allocated or not.
Detection in a work is one step that may do whatever `Detect` may do to the
bitmaps. `EngineDestroy`, `Remove` and `FreeSlabs` are `ey_work_finit`.

`Load` has the load loop. A file is a name, imports, events, and signatures; every
action of the grammar that changes a table is an action, in the order in which
the parser calls them. `Import` has the table of libraries and the memory in which the
names of files and libraries stand (`text`, `used`): both hashes take the address of a
name for its key and keep a pointer to memory that goes with the file.
`FileDone` and `Abort` free the prologue; `crashed` says that an event's name was
freed twice, where the slab stops the program. `Fails` stands for everything that
ends a load for a reason not modelled in detail. `ItemsFor` are the items of a
signature that wait for an event, in the order in which they join its list.

`Link` has the lists of file functions and the hooks of works and events, each
with or without an address, and `do_link` as steps: init functions run in the
middle of it and register more. `LinkOwner` is the work or one event of the
final loop, with its `continue`s (`PassedOver`).

### Memory

`Slab` has the pages of one slab, their free lists and counts, the two page
lists, the counters, and the flag of every item. What happens under the lock is
one step; the flag tests of `ey_zalloc` and `ey_zfree` outside it are steps of
their own. The flags survive the free of their page, as memory does.
The order of lists is left open, which admits every order the code may produce.

`Fslab` extends it with the list of larger blocks, which has no lock: linking and
unlinking are two steps each, between which other threads act. A reallocation is an
allocation, the copy and a free of the old block, between which other threads act
too; `old` and `new` are its two blocks, and only a thread that is not inside one
(`Ready`) begins another call. Where the code would
follow a stale list, race on the list or unlink a block that is not on it,
anything may happen: the model stops with the reason in `fate`.

`HashTable` has the lines of one table with their locks, the count, the entries
that the slab has given and what stands in them. The search of a line is one
step with the acquisition of its lock; the count, the link, the unlink and the
free are steps of their own, because other lines, the limit and the slab see
them. `ey_hash_remove` and `ey_hash_remove_all` share the steps from the count
on, `at` tells them apart. A finder that has let go of the line reads its entry
later (`FindReturn`). `Table` is the promise: a set of values with unique keys
and a limit, every call in one moment. In the mapping a value belongs to the
table from the moment it is counted to the moment it is counted out.

### Decoders

The sessions of POP3 and HTTP have honest peers as environment: they send lines and bodies in
pieces, as pipelined as they like, and a step delivers one piece, which may be cut
within a token. A greedy parser (an option of the decoders) keeps a token that ends
where the data ends for the next call.

`Pop3Parse` has the tokens of the server's lexer by start condition and what the push
parser does with each; `Pop3Detect` the tables of the protocol state;
`Pop3Session` the session: `requests` is `request_list`, `cmds` is `cmd_list`,
`AddCommand` pairs an answer with the oldest request in the middle of its first line,
and the signatures of `pop3.ey` that keep or use state run with it. A server sends an
answer in the pieces of `Rest`: the rest of its first line, then the lines of the body
(`LinesTo`), then the dot.

`HttpStream` has one direction as a function from a stream and a piece to a stream:
the start conditions, the fields of the body, the parts handed to the unpacker
(`ey_zlib.c`) and what it answers. `HttpSession` has the two streams, `request_list`
and the transactions. A message is sent in the pieces of a head, of the body in its
framing, and of what follows it; peers are honest (`SessionAssumption`): a body has the
length that its head declares, and no chunk is empty but the last.

`HtmlLex` is the longest match at the beginning of a buffer, by start condition,
over the nine kinds of characters that the lexer's patterns tell apart; a match says
whether the scanner ran into the end of the buffer. `HtmlParse` has the push parser
(`Push`: a token, and the reductions that come with it) and the tree: a frame of
`frames` is a tag that is open, with the list of the nodes within it, and `live` are the
nodes that have been allocated and not freed. `HtmlSession` feeds both: `Feed` is
`html_scan_stream` with a piece, `Eat`, `Token` and `PutBack` are rules of the lexer,
`Suspend` is `save_stream_context`, `EndOfInput` ends the last piece, `Destroy` is
`html_work_destroy`. A `job` is a page, which is cut anywhere and decoded greedily or
not, or a check: a training and an `xss_check` of one template, each a work of its own
with a fresh `reduced_count`. The environment is a writer of pages (`Written`), whose items
say what tree is meant; `Ordinary` is what it sees to: a text has no `<`, a value not its
own quote, a comment not its own end. A template is a page with places for arguments in its texts
and values (`FilledPage`); filled, it need not be an ordinary page, which is what a check is for.
`HtmlTree` has no behaviour: it says where in a page a parser is, for the proofs.

### Others

`MC*.tla` give constants for TLC; `MCPreprocessor` extends `MCDetect` with
patterns. `DetectProof`, `WorkProof`, `LoadProof` (with `Link`), `SlabProof` (both
allocators), `HashProof`, `Pop3Proof`, `HttpProof` and `HtmlProof` (with the
definitions in `HtmlTree`) hold theorems and proofs. Operators marked
"Mutant" are plausible mistakes in the operator that follows them, used to see
that each property can fail.

## Runs

| run | instance | distinct states | what it shows |
|---|---|---|---|
| `detect` | 7 items in 4 alternatives over 2 events, 4 tables of 3 patterns, 3 pieces of data | 190 584 | order of progress, agreement of bitmaps, first match, refinement of `Progress`, termination; the search follows the text of each side and reports only what is there |
| `patterns_missed` | the same | violation | a pattern in the data is not reported |
| `work` | 2 works, 4 buffers, 7 items | 259 536 | finalisers match, nothing is left, no patterns of another work, teardown ends |
| `work_stale_bit` | the same with 8 items, memory clear at first (`ClearSpec`) | violation | a pattern bit leaks between works |
| `slab` | 2 pages of 4 items, 2 larger blocks, 3 threads, sizes below, at and above an item | 133 919 (symmetry) | items apart, pages on the right lists, no abort, larger blocks accounted for, blocks under reallocation kept |
| `load` | 5 lists of up to 2 files, 3 events, 2 libraries, 5 cells | 60 370 | complete ordered lists, arrays, unique numbers, libraries known, when a failed file stops the program |
| `load_names` | the same | violation | a file refused as parsed that was not |
| `link` | 1 event, 2 names of hooks, 3 init and 2 finit functions | 530 370 | init and finit functions in order, hooks bound, first registration stays, loading ends |
| `hash` | 2 threads, 4 values, 3 keys, 2 lines, 3 entries, limit 1 | 293 875 (symmetry) | entries accounted for, finds right until removed, refinement of `Table` |
| `pop3` | 3 requests of 4 codes, 6 bodies, greedy or not | 2 979 684 | queue in order, pairs as meant, session and alarms true, refusals known |
| `http` | 2 requests, 1 interim response, 4 requests and 8 responses to choose from, output buffer of 2 | 2 607 434 | framing clean, bodies as sent, transactions as meant, refusals known |
| `html` | 10 pages of up to 9 items, in pieces of any length, greedy or not; 3 templates with 2 arguments, 4 trainings, 49 checks each; a statement of at most 19 characters | 88 315 | pages become the trees that are written, nodes accounted for, checks raise no false alarm |

Bounds and why they suffice:

* `detect`: the first alternative has three items, two of them on the same
  event, so one call can carry it forward by more than one item; two
  alternatives end on the same event and compete; patterns, Conditions and
  Actions are on first, middle and last items. The patterns, over two letters,
  begin alike, overlap themselves, fall back over two states, and contain, end in
  or equal one another, and one is empty; pieces of one and of three letters cut them
  anywhere. The theorems drop the bounds.
* `work`: two works are what it takes for one to get the buffers of another.
  The items before the last alternative only count: with 7 the last bit is in
  a byte that is cleared, with 8 it is not (8 is the first number for which it
  is not). In `work` the uncleared memory may hold anything at first, as memory from
  malloc does; `work_stale_bit` starts with clear memory, so that what a work finds
  there was left by another work. The theorems drop the bounds.
* `slab`: `MIN_PAGE_ITEMS` is 4; two pages are on two lists or on one; three
  threads meet in `ey_zalloc` and `ey_zfree` at once, two on the list of larger
  blocks. The constraint `OneAtATime` of `MCSlab` bounds the run: one thread
  reallocates at a time, with no more than a page and an item in use, and at most
  one block of exactly an item's size is out. `Fslab` has none of these bounds, nor
  have the theorems, which are about `FSpec`. Pages, slots, chunks and threads are interchangeable, all
  properties of the run are invariants, so symmetry is sound.
* `load`: `Step = 1` (32 in the code) makes the array grow with items on
  its lists; one list of files repeats a number, one a file, one an event within a
  file, one uses an event that no file defines, two files import one library.
  Five cells on two lines are enough for a name to be overwritten by
  another on the same line and on another one. `NumbersUnique` also covers the repeated file.
* `link`: the names "hs", "is" and "fs" are static. The constraint `TwoHooks`
  bounds the used hooks to two of five: for one hook to stand in the way of
  another takes two, and the state space without it is far beyond a run. The
  constraint only cuts off registrations, never the end of a load under way,
  so it does not hide a violation of `LoadEnds`. The theorems drop the bounds.
* `hash`: two values share a key (conflict), two keys a line (a search that
  passes an entry by), two lines let two threads be inside at once, and a limit
  of 1 lets them compete for the last place. One filter of
  `ey_hash_remove_all` matches on both lines. With three entries one is left for a
  third call while two are in hands. `Limit` is at least 8192 in the code, which
  nothing but the comparison reads. Symmetry is sound: the properties are
  invariants and a refinement without liveness, and treat the permuted constants
  alike. The theorems drop the bounds.
* `pop3`: the codes are those that move the session (PASS, QUIT), one with a
  multi-line answer (LIST) and UNKNOWN; the bodies are none, ordinary, with blank
  lines, with a line that reads as a status line, and with a dotted line. Three
  requests let a third be in the queue while a second is being paired.
* `http`: messages without body, by length, by chunks (also with a length),
  packed, with a trailer, an extension, an extra line, closed by the end of the
  connection, and a head without its body (as of HEAD). The encodings compress and
  identity, which the decoder ignores, are left as none. Two messages in a
  direction are what it takes for one to leave something to the next.
* `html`: the pages nest two and three deep and have siblings, texts that look like
  other things, comments that nearly end, meta data, values of each form (also empty),
  a void tag, tags that are not closed, and one closing tag too many. Every cut of
  every page into any number of pieces is explored, empty pieces included. The templates
  put an argument into a text, into a value in quotes and in the open, and within
  a text; `MaxHtml` is 8192 in the code and 20 here, so that some statements do not fit.

`CHECK_DEADLOCK FALSE` is set where the system stops: an engine that is gone
(`work`, `link`), a load that is over (`load`), an allocator that is gone (`slab`)
and sessions that end (`pop3`, `http`, `html`). In `detect` and `hash` deadlock is checked.

Fairness. `Detect`, also under `Preprocessor`: once called, the loop runs on
(`WF_vars(Iterate \/ Return)`): it is one function on one thread that waits for
nothing; calls are never obliged. `Work`: only `ey_work_finit` is obliged to go
on, and it waits for no other thread. `Link`: `do_link` goes on provided that
file init functions return, and the loop of `ey_signature_finit` goes on. The
others state none; their properties are safety, spin locks promise no turn and
peers may stop at any moment.

## What the decoders' models show

The exceptions in the properties of `Pop3Session` and `HttpSession` are what the
code makes of honest peers. Each is needed: TLC finds a violation without it.

POP3 (`PairedAsMeant`, `SessionTrue`, `AlarmsJust`, `RefusalsKnown`):

* A greedy parser lags by a token, so an answer may be decoded before the
  request it answers, and is then paired with none.
* A multi-line answer is refused if its body is empty, has a blank line after another line,
  or begins, blank lines aside, with a line that reads as a status line or as a dot;
  after blank lines such a status line may also be taken for the next answer.
* Signature 6 (weak password) stands before signature 8, which moves the state: after
  its match the state stays where it was, and later checks are made against it.
* A pipelined command is checked against the state before the answers to its
  predecessors, so a client that does not wait raises alarms.

HTTP (`BodiesAsSent`, `TransactionsAsMeant`, `RefusalsKnown`):

* An interim (1xx) response makes the transaction of its request, the final one that
  of the next; an answer that is complete before its request has none.
* A declared length is waited for although no body comes with the answer to a HEAD
  or a 304: the next message is taken for the body.
* A body that only the end of the connection delimits is not seen as a body.
* An extra empty line after a request is token -1, which ends the input: the rest of the
  call is dropped, and pending requests are forgotten by the next.
* A chunk's size that an extension follows without a space is refused.
* A chunked message that is cut off between two chunks counts as complete before it
  is refused; one that is cut off within data is accepted in silence.
* A part of a packed body that gives no output, or output that fills the buffer to the last
  byte, is an error, so whether an honest body is decoded depends on the cuts;
  gzip bodies are refused or hang.

HTML (`TreeAsWritten`, `NodesAccounted`, `PlainArgumentsClean`):

* The parser does not compare names: any closing tag ends the innermost tag. A tag that
  is written to have nothing within it (`<br/>`, `<img ...>`) is open for the parser, and what
  follows it comes to be within it; a closing tag without one that is open is an error,
  as is a value in the open that is empty.
* Decoding stops the program if a piece begins with a value in the open, or, for a
  greedy parser, if the piece before ended with its first character: the lexer puts a
  character back where the buffer has no room (`html.l:482`). The pieces of ten bytes
  in `testsuite/decode.c` may do so.
* A work that is destroyed in the middle of its page leaves the nodes of the parser's
  stack allocated until the decoder goes; after an error they are freed.
* A check compares counts of reductions. An argument changes the count, and raises an
  alarm, if it is the whole of a text and is empty, if as a value in the open it has
  white space or begins with a quote, or if it has the quote of its value; so does a statement of 8192
  characters or more. When decoding fails, `do_parse` forgets the work
  (`xss_detect.c:141`).

## Theorems

Assumptions are those of `Rules` (`RulesAssumption`, `ParsingOrder`: items are
numbered in parsing order, alternatives do not interleave), `Work`
(`WorkAssumption`), `Acsm` and `Preprocessor` (`AlphabetAssumption`,
`PatternsAssumption`: patterns and data are of letters, and an empty piece is not searched), `Load` (`LoadAssumption`: what the grammar makes of a file; a list of
files is not empty), `Import` (`ImportAssumption`: every cell has a line), `Link`
(`LinkAssumption`), `Slab` (`SlabAssumption`: at least
four items on a page), `Fslab` (`FslabAssumption`), `HashTable` (`HashAssumption`:
every key has a line, the limit is positive), `Pop3Session`
(`ConstantsAssumption`), `HttpStream` and `HttpSession` (`OutBufferAssumption`,
`SessionAssumption`: honest peers, as the decoder's properties are about what it makes
of them; a length that is not the body's is answered by reading the next message at
the wrong place, which no property could exclude), and `HtmlSession` (`HtmlAssumption`: the
pages are ordinary, so that what is written says what tree is meant; the items of templates have the fields of
items, but their texts and values are any).

What a recursive function computes is proved by induction over sets of numbers: the
theorem of `WellFoundedInduction` that a set which is not empty has a least element takes
no operator. `SetInduction` turns it into induction for a set of numbers, and
`RecursionExists` says that a function with the recursion's equation exists. The
modules with theorems define what they compute over sequences by such functions.

`DetectProof`: `Inv` is `TypeOK`, `RememberedInOrder` and `BitmapsAgree`.
`RememberedInOrder` is what makes `BitmapsAgree` inductive: when an
alternative completes, both bitmaps lose the chain of its last item, which is
the whole alternative (the first lemmas are facts about chains, prefixes and
final items). From `Inv` follow `TypeCorrect`, `AlwaysInOrder`, `AlwaysAgree` and,
as an action property, `EarliestWins`. `DetectImplementsProgress`: every step is
mapped to a step of `Progress` or to a stutter. `Remember` of an item that is
remembered already is a stutter; of a new item it advances the alternative by
exactly one item, because its prefix is remembered and, by the invariant,
nothing behind it is. All of it follows from `Steps`, the specification without fairness.

The rest of `DetectProof` is about the search, for any patterns and any cuts of the data.
`Trees` are the tables that adding patterns can make: a state is known by its word
(`Grown`). `TreeCarries`: the tree has a state for every pattern, with the pattern in
its list. `OrderIs`: the queue holds every state but the first once, and no deeper
one before one that is less deep. Along the queue, `FallBackLongest` shows that the
state to fall back to is that of the longest proper end of a state's word (the chain of
fallbacks gets shorter, so it comes to the first state within as many steps as there are
states), `BuildNFAIs` that the list of a state has patterns that end with its word, and all
of them with letters (`MatchIs`), and `RowsComplete` that a full row leads to the state
of the longest end of the word and the letter. `CompileIs` puts them together in
`Compiled`: the automaton of Aho and Corasick. `VisitedFollows` carries the longest end along a text,
because the longest end of a text and a letter is that of the longest end before and the
letter (`LongestExtends`). With `DataInv`, that the state kept for a side is one of the
compiled states, `AlwaysFollowsText` and `AlwaysReportsTrue` follow, and that the items
found are items with patterns; so the detector with the real search is that of
`Detect`, and `DataDetects` inherits what is proved of it.

`WorkProof`: `Inv` says for every value of `pc` which stages are open (`Stages`)
and which memory is held (`Memory`), who is on the list and where (`OnList`), what
an engine that is going down has left (`Down`), that no buffer has two owners
(`BuffersApart`) and that the pattern bits in the buffers of a work are ones it has
seen (`Patterns`). `FinalisersAlwaysMatch` and `NothingIsLeft` follow; `PatternsAreOwn`
needs `Uncleared = {}`, which fails exactly when 8 divides the number of
items (run `work_stale_bit`).

`LoadProof`: `Inv` relates the tables to the text that has been read (`Inserted`, the
signatures of engine and file together). `Numbered`: the signatures have the numbers
in the hash. `Declared` and `Imported`: events and libraries of the file under way
are where its prologue says. `Waiting`: the list of an event is `ItemsFor` of all items
inserted, which survives a growth of the array. `Counted`: the items are numbered
1..`rhs_id` along the text. From them follow `ListsAlwaysComplete`, `TablesAlwaysFit`,
`NumbersAlwaysUnique`, `LibrariesAlwaysKnown` and `CrashOnlyIfRepeated`.
The first lemmas are about `FlattenSeq` of the community modules, whose value is
chosen: that what is chosen is the flattening.

Also in `LoadProof`, about `Link`: `LinkInv` adds to the types that no two entries of a list of file
functions have one name (`OneOfAName`), how far `do_link` has come in each list
(`InitProgress`) and that the owners it has passed have their addresses
(`HooksDone`). From it follow `InitsAlwaysInOrder`, `HooksAlwaysBound` and, as an
action property, `FirstKeeps`. `FinitInv` adds what the loop of `ey_signature_finit` has
called: the functions with an address among those it has passed. `GivenInv` follows
the functions that came with an address (`given`) through the load: they keep it until
their names are looked up (`GivenBound`), nobody else gets one before all file init functions
have been called (`OthersBound`, `Called`), and a lookup that fails takes the address of
one function only, because the load fails with it. `FinitsAlwaysInOrder` follows
from the three.

`SlabProof`: `Inv` is the conjunction of `TypeOK`, `Apart`, `ListsSorted`,
`CountsTrue`, `NoAbort` and the facts about flags that carry them: an item that
is with a caller or on its way back has its flag set, one on a free list of a
live page or on its way out has not. The flags of pages that went back to malloc say nothing,
which is why `get_page` clears them. From `Inv` follow, for the slab, `TypeCorrect`,
`AlwaysApart`, `AlwaysSorted`, `AlwaysCounted` and `NeverAborts`; `CountsTrue` is proved
and no longer part of a run, like `TypeOK` of `Detect` and `NoAbort` of `HashTable`.

Also in `SlabProof`: `FslabImplementsSlab` shows that every step of the sized allocator
is a step of the slab or leaves the slab alone, so `SlabBelow` inherits what
is proved of it. `FInv` adds what callers may rely on: the size in a block's head
says where it came from (`Sized`), threads within the list have blocks of their own
(`Alone`), and the old block of a reallocation stays allocated, is nobody else's old
block and is not being unlinked (`Kept`, a part of `BlocksAccounted`; lemma `OldKept`
for what the other threads do meanwhile). `AlwaysAccounted`: every
larger block is on the list or about to be linked until a clear has left the list stale, and
only a block of exactly an item's size goes back to the wrong place. Any number of
threads may be inside a reallocation at once.

`HashProof`: `Inv` adds to the checked invariants `Locks` (who has searched a
line or is about to unlink from it holds its lock; `at` tells who sweeps),
`OneOfAKey` (no key twice in a line, none in the line of one who is about to
link it) and `CountIs` (the count is the number of values in the abstract
table). `Locks` gives `EntriesAccounted`, because the lock keeps two removers
from the same entry; both give `OneOfAKey`; all three give `CountIs`, because two
counted entries never have the same value; and `CountIs` gives `NoAbort`, because
the entry to be removed is still counted. From `Inv` follow `HashTypes`,
`HashEntries`, `HashFound` and `HashNoAbort`. `HashImplements` maps every step to
a step of `Table` or a stutter; `HoldsIs` says why a thread that sees one line
knows the answer for the whole table: while it has the lock, nobody is
between the count and the line.

`Pop3Proof`: five theorems, for any commands, bodies and number of requests.
`QueueInv` (types and `QueueInOrder`) gives `QueueIsInOrder`. `PeersInv` and
`ClientInv` say how the requests that are sent, lexed and queued lie behind one
another. `Stage` relates the lexer's start condition and the parser's state to what is
still to come of the answer under way, for answers that are not `Refusable`; `Where`
is the looser relation that holds for all answers of a plain session.
They go through a body piece by piece: `LinesFrom`, `Body` and `Ends` say what a
list of pieces is from some place on, by induction over the lines that are left. `PairsInv`
counts, for sessions that are `Plain` (the parser is not greedy, the client waits for
the greeting, no body reads as answers of its own): every answer has one pair, made in
its first line, and the request at the head of the queue is that of the next answer.
`KnownInv` relates the state of the signatures to the answers told. From the conjunction follow `PairsAlwaysAsMeant`,
`SessionAlwaysTrue`, `AlarmsAlwaysJust` and, with `RefusalInv`, `RefusalsAlwaysKnown`.

`HttpProof`: `FramingIsClean`, from `FramingInv`, which says for every start condition
which of the length, the flag, the encoding, the body and the unpacker may be
set; the lemmas follow a part, a body and a head through `HttpStream`. The other
three theorems see every step of the session as a `Turn` of one side. `Reads` says
where a stream stands in a message (its head, the blank line, the body, a chunk's size,
a chunk, the trailer) by the pieces that are still to come; the lemma `FeedReads` shows
that a piece takes it to the next such place, to the end of the message, or to
an error that `RefusalsKnown` names. `SidesInv` has it for both sides, with the line a greedy
parser holds back. On top of it stand `ToldInv` (what has been told are the messages
sent, decoded: `BodiesAlwaysAsSent`), and for `TransactionsAlwaysAsMeant` `ListsInv`
(transactions number the responses told, and took the requests off the queue in order),
`CountedInv` (a parser that is not greedy has told all but the message under way),
`MeantInv` (without interim responses the n-th response answers the n-th request) and
`PlainInv` (on a plain connection it comes after that request has been told).
`RefusalsAlwaysKnown` needs `SidesInv` alone.

`HtmlProof`: `NodesAlwaysAccounted`, for any pages, cuts and checks. `Whole` says where
the nodes are while none has been freed: each in one place, which is a frame of the
parser's stack, a position in the root or the list of one other node (`Placed`); what is
within a node was allocated after it (`KidsWhole`); a tag that is open has nothing in its own
list yet (`OpenEmpty`), because its children wait in the frame above. From it `AllReached`: by
induction from the last node to the first, freeing the lists with all that is below
them frees every node. The lemmas follow a node through `TextNode`, `TagBegins`, `TagEnds`,
`EndInput` and `Refuse`; `PushResult` puts them together: any token, whatever the lexer makes of
the characters, leaves a parser `Growing`, or `Ended` with an empty stack and its nodes whole
or all freed. So this theorem does not depend on the lexer.

Also in `HtmlProof`: `TreeAlwaysAsWritten` and `PlainArgumentsAlwaysClean`, for any ordinary
pages, any cuts, greedy or not, and any template, arguments and `MaxHtml`; the
definitions are in `HtmlTree`. The invariant is `Correct`; TLC checked it on the instance of
the run `html` before it was proved. Its heart is `Read`: after `pos` characters of a page
the lexer's start condition, the parser's state, its list of properties and its count
of reductions are those of one place of the page. The place is between two items or
within one (`Place`, nine kinds of places: within a comment, behind a tag's name, in front of a value, ...),
and the parser has the tree of the items before it (`Taken`): the nodes in order, and for every tag that is
open its frame with the nodes directly within it so far (`Stacked`). A value in the open has three start conditions
in one place, because the lexer puts its first character back.

The argument goes from the characters up. `Laid` says where in the page an item is written
and the `*Spelled` definitions what its characters are. The lemmas about `LongestMatch` say which rule
matches at each of them, and whether it may match what has not come yet. `GoesText`, `GoesName`,
`GoesPlain`, `GoesQuoted` and their like take one match within an item of each kind,
from every place, for every buffer that is a piece of the page: to a later place of the item, to its end with
the tree grown by it, or to a refusal that the item explains (`Fails`: a closing tag too many, or an
empty value in the open). `GoesOn` puts them together and `ReadsOn` carries it to the page.
`TextTaken`, `OpenTaken`, `CloseTaken` and `SilentTaken` say that the tree grown by an item is the tree of one
more item, and `DocumentEnds` that at the end `EndInput` leaves the tree of the page, with a count of
reductions that depends on the kinds of the items alone (`FinalCost`).

Pieces make two exceptions, and these needed two more invariants. A match that runs into the end of
the buffer waits for the next piece, unless this was the last or the parser is greedy; both
lead to places of the page. But an empty value in the open is told by the character behind it,
which is put back: `EmptyValueHeld` says it is still in the buffer when the value is looked for. And
whether the character can be put back depends on where the call began (`PlainStarts`): `ValueHeld` says that at
most the first character of a value waits between calls, which is what `TreeAsWritten` allows to stop the program.
`NextCorrect` puts the steps together. For a check, `Training` remembers the count of the first half. The page
with the checked arguments has items of the same kinds (`FilledAlike`), so if both are ordinary the two
counts are equal; that is `PlainArgumentsClean`.

Model-checked only:

* liveness (`DetectReturns`, `EngineGoes`, `LoadEnds`), which is beyond the
  prover with fairness. Every other property of a passing run has a theorem.

## Findings

1. `ey_bitmap_create` (`libengine/ey_bitmap.c:63`) clears `ceil(count/8)` bytes, but
   bits are numbered from 1: with a multiple of 8 items the bit of the last
   item lies beyond. Run `work_stale_bit`, from memory that holds no bit: work 1 sees the
   pattern of item 8 and is destroyed; work 2 gets its buffer, and has the pattern
   before any data.
2. `ey_parse_file` (`libengine/ey_parser.c:448`) frees the name that the name hash
   still points to. Run `load_names`: the second file of a list is refused with
   "file ... has been parsed" or for a conflict, although its name is new.
3. The search (`libmatch/acsmx2.c:2605`) reports the first entry of a state's list of
   patterns only. Run `patterns_missed`: of two patterns that end at the same
   letter one is not found, although the file promises all of them.

Also seen:

* `do_link` (`libengine/ey_engine.c:123`) leaves an event at the first function that
  has an address, so a function of the same event that came by name stays without
  one in a loaded engine, which `ey_runtime.c:443` asserts does not happen;
  `HooksBoundUnlessMixed` has the exception.
* `do_link` (`libengine/ey_engine.c:76`) looks up the symbol of a finit function even if
  it came with an address: a static one, which the Signatures Specification
  accepts, makes the load fail, and the function is not called at the end either,
  because the NULL of the lookup has replaced its address (`FinitsInOrder` has the
  exception).
* A search looks again at the state it starts in, so a pattern at the end of one piece
  sets its bit once more with the next; `ReportsTrue` admits it. An empty pattern
  (`""`) ends everywhere, but `Build_NFA` does not copy the list of the first state to
  those of one letter (`acsmx2.c:898-906`), so it is not found there.
* A second `ey_engine_load` compiles all patterns anew and leaks the old automaton.
* A file that declares an event twice and is then given up frees its name
  twice and stops in the slab's check instead of returning an error
  (`CrashIfRepeated`). The items of such a file stay on the event lists; callers destroy
  the engine then, and nothing walks the lists.
* A library that two files import is opened and initialised twice if the two strings
  with its name come to different lines; when a load fails, `destroy_each` prints
  names that have been freed.
* A block of exactly an item's size is taken from the slab and freed from the list of
  larger blocks; that list has no lock; `ey_fzclear` leaves it pointing to freed blocks.
* `ey_hash_create` means `2^power2_size` for a power ("2^10 = 1K",
  `libmemory/ey_hash.c:55`), in C it is an exclusive or, and a table of 2^10 lines has
  eight. `Load` takes the eight lines as they are.
* The tail pointer of an empty list of nodes (`html.y:475`) points into `yyval`, a local
  variable of the parser's function, and is copied with the list (`$$ = $1`); an insertion in a later
  call is right only if that variable is at the same address, as it is for calls from the same
  depth of the stack. The model takes lists as values.
* `output_filename` (`libengine/gram.y:19`) is static and not reset: a file without
  `%output` writes to that of an earlier one. `ey_malloc` returns a pointer that is not
  null when malloc fails. The initialisers of a work run before the decoder has stored
  its data in it (`pop3_decode.c:39`). `http_free_*` leave some structures to the end
  of the decoder.

## Not modelled, and limits

* Third-party code, most of the source by lines: TinyCC (`libjit`), zlib, the
  sparse, banded and non-deterministic formats of `acsmx2.c`, MySQL's grammar.
  `Link` uses two facts of TinyCC (a static function has no symbol, relocation may
  fail), `HttpStream` what unpacking answers.
* HTML: which tag, property or event a name is, C-like comments within tags, line ends
  where a pattern leaves them out, events of nodes to the engine, calls after the last
  piece or after one that failed, the preprocessor of a check; `html_work` in HTTP.
* Opening libraries and reading their ELF sections (`ey_elf.c`), which is I/O;
  `ey_detach_library`, which nobody calls; closing libraries at the end.
* Hash tables: the line of a key is taken to be a function of the key, and one
  caller at a time inserts a value. The engine's own `gen_fn` hash addresses,
  which `Load` models (`Conflict`), but it uses its tables from one thread. The order
  of a line is left open; `ey_hash_foreach` runs its callback under the read lock,
  a callback that inserts would wait for itself (the engine's do not).
* A thread that uses a work while the engine is destroyed; nothing in the code
  guards against it.
* `ey_add_file_init`: its first use trips an assertion of `do_link`.
* Failed allocations in decoders and preprocessor; the modules that have failing
  allocations (`Work`, `Load`) take them as the callers mean them.
* Decoders: arguments of commands, contents of lines and fields, signatures 1, 2, 3
  and 5 of `pop3.ey` (they print and count), a detection that drops the
  connection (nothing sets `ENGINE_ACTION_DROP`), calls after one that failed,
  destruction.
* The generated C file, the text of messages.

## Plan

Done, in this order: `Rules`, `Detect`, `Progress` with their proofs, `Work`,
`Slab` with its proof, `Load`, `Link`, `HashTable` and `Table` with their proof,
`Fslab` with its proof, `Import`, the POP3 and HTTP decoders, the pattern search, the
proofs about `Work` and `Link`, the HTML decoder, the proofs about `Load`, POP3,
HTTP, the pattern search and the HTML decoder (`HtmlTree`).

Next: the gzip header machine of `ey_zlib.c`.
