# TLA+ models of the LAN chat program

The program is a terminal chat client for up to 16 people on one LAN.  It has
three threads that share global variables, four UDP sockets and one terminal.
This directory holds TLA+ modules of its concurrent core, of the network between
several such programs and of the JSON library it reads its configuration with,
TLC configurations that check them on small instances, and TLAPS proofs, for every
value of the constants, of the core's and the network's safety properties and of
what the JSON library does to its memory, its lists and its texts.  Paths are given from the repository's root.

## 1. Inventory

| component | code | state it keeps | operations | model |
|---|---|---|---|---|
| chat log and S2 | `src/ui.c` | `g_chats`, `g_chats_len`, `g_chats_lock`, `refresh_S2_lock`, 16 rows of the screen | `push_g_chats`, `refresh_S2` | `ChatLog`; contents in `Network` |
| friend table | `src/ui.c`, `src/receive_thread.c` | `g_friends`, `g_friends_len`, `g_friends_lock` | `recv_broadcast_data`, `push_g_friends` | `Friends`, `Network` |
| main thread | `src/main_thread.c`, `src/ui.c` | `friend_now`, `input_model`, `is_press_S`, `is_press_cr`, `buf_input`, `g_bRunning` | `process_keyboard_input`, `check_chat_need_send`, `send_chat`, `push_buf_input`, `pop_buf_input` | `MainThread` |
| start-up and shutdown | `app/main.c`, `src/init.c`, `src/main_thread.c` | `g_bRunning`, `g_config`, the terminal's mode and `oldt`, the disposition of SIGINT, the threads | `init_all`, `main`, `end_program` | `Lifecycle` |
| broadcast thread | `src/broadcast_thread.c` | none of its own | build and send an ID packet every 5 s | its loop in `Lifecycle`, its packets in `Network`, its error line in `Terminal` |
| receive thread | `src/receive_thread.c` | none of its own | `recv_broadcast_data`, `recv_chat_data` | `Friends`, `ChatLog`, `Lifecycle`, `Network`, `Terminal` |
| printing and logging | `src/tool/save_print.c`, `src/tool/log.c` | `log_mutex`, `localtime`'s static result | `save_printf`, `log_log` | the mutex in `Lifecycle` and `Terminal`, the clock and where a line lands in `Terminal` |
| sockets | `src/udp_socket.c` | four descriptors | create, send, receive, close | as one resource in `Lifecycle`; datagrams in `Network` |
| configuration | `src/tool/read_config.c` | `g_config` | `read_config`, `read_out_config` | `ReadConfig`; when it is read in `Lifecycle` |
| keyboard | `src/main_thread.c` `get_char` | the stdio buffer of stdin | `select`, `getchar` | `Keyboard`, in the main loop of `Terminal` |
| wire format | `src/receive_thread.c`, the two `snprintf` | none | build and parse ID and chat packets | `Network` |
| S1 and S3 | `src/ui.c` | 6 rows of the screen, the cursor | `refresh_S1`, `refresh_S3` | `Terminal` |
| queue | `src/tool/cqueue.c` | a linked list and its mutex | create, push, pop, len, destroy | none (no caller in the program) |
| JSON library | `src/tool/cJSON.c` | the caller's trees | parse, print, minify, compare, make, add, detach, replace, duplicate, delete | `JsonStrings`, `JsonText`, `JsonLinks`, `JsonItems`, `JsonTree`, `JsonPrint`, `JsonCalls`, `Json`, `JsonForest`, `JsonInvariants`, `JsonProperties` |

How they interact.  Inside a program everything is shared memory: no thread sends
another a message.  The main thread and the receive thread both push to the log and both
redraw S2.  The receive thread alone writes the friend table; the main thread
reads it without the lock.  All threads read `g_bRunning` and `g_config`, which
`end_program` clears and frees, and all print under `log_mutex`.  `end_program` is
called by `main` after it joined the threads and is also the SIGINT handler, so
it runs on top of whichever thread the kernel picks.  Programs on different
machines exchange two kinds of UDP packets: announcements, broadcast every 5 s, and
chat packets, sent to the address an announcement gave.

What is hard, and what must hold:

- *Readers without the writers' lock.*  `refresh_S2` reads the log under another
  mutex than `push_g_chats` writes it; `send_chat` reads a friend's name once and
  its address twice under none.  The log must lose nothing, the screen must become
  right again and stay in order meanwhile, and a message must go to the friend it
  names.
- *A bounded log and a bounded table.*  Appending turns into moving at `M`; the
  table refuses at `N`.
- *Flags set by one key and consumed later* (`is_press_S`, `is_press_cr`), several
  ways to refuse, and a send that can fail: no message may leave without a fresh
  Enter, no text may be lost.
- *A handler that takes a mutex, frees memory and runs anywhere*, also during
  start-up; failures of start-up that are ignored.
- *Ending*: after 'q' both threads must leave their loops for the joins to return.
- *One cursor, one clock*: `refresh_S1` prints relative to a cursor that the main
  thread moves between two prints, and every thread logs on the same terminal;
  `localtime`'s static result is used under two different mutexes.  Redrawing must
  not misplace names, and what S1 and S3 lose to other prints must come back.
- *Datagrams*: packets are lost, late, doubled, or reach the next owner of an address;
  their parsers' results are ignored and their locals start uninitialised.  Nobody
  may be listed who did not announce himself, or be shown saying what he did not.
- *Allocations that fail half way* and *lists whose end is found through the first
  item*, in the JSON library: nothing leaked, nothing freed twice, nothing half done.

`PROJECT.json` lists these hazards line by line with the properties that cover
each, and those that no property covers yet.

## 2. Modules

**`ChatLog`**: two threads, `Main` and `Receive`, each with a `pc` that walks through
`push_g_chats` and then `refresh_S2`.  A record is its number in the order in which
the pushes take `g_chats_lock`.  `LockChats` is the lock together with the test of
the length; `Append` and `Grow` the two assignments of a log that is not full;
`MoveSlot` one record of the `memmove`, `Overwrite` the `memcpy` into the last slot.
`LockS2` clears the 16 rows and reads the length, `ReadLine` computes `idx` and
formats the time, `PrintLine` prints name, time and content, and either reads
`g_chats` and `g_chats_len` as they are at that moment.  A screen line therefore
keeps two records, the one whose time it shows and the one whose text it shows.
A record is copied and printed in one step each: a line that mixes the name of
one record with the content of the next is not distinguished from one of them.

**`Friends`**: the table and the receive thread's side of it.  What parsing can leave
in the local `friend_info` is the constant `Announcements`.  A new entry's fields
appear one by one, the address possibly in two pieces (`Partial`), and the length
last, because the reader takes no lock.

**`MainThread`** extends `Friends` with the main thread: one action for each kind of
key, `Refuse` and `Accept` for `check_chat_need_send`, and the steps of `send_chat`
down to the reads of the table, `sendto`'s success or failure, the push of the own
record and the clearing of the text.  A label is the position of its key in
`0..9a..f`; `Index` is `friend_now_hex`, with the letters counted from 0 as the code
does.  Of the text only the length is kept: its characters pass unchanged.

**`SendDiagram`** is the abstract specification: the two state diagrams of the design
report (`项目文档/设计报告/设计图/*.puml`) in one machine, with what they imply for
the network and the log: at most one message for each pass through "sending",
recorded after it was sent.  `MainThread!ImplementsDiagram` states the refinement.

**`Lifecycle`**: `main`, `init_all`, the loops of the three threads as far as they use
`g_bRunning`, `g_config`, the sockets, `log_mutex` and the terminal, and `end_program`
in up to four activations (`Frames`): the call in `main`, and the handler on top of
each thread, whose own code waits while it runs.  SIGINT is delivered to any
thread that is alive and not itself in the handler, at any moment, the start-up
included.  `oldt` starts as "zero" (static storage): a handler that comes before
`set_input_mode` saved anything restores that.

**`Keyboard`**: `get_char`.  Bytes wait in the terminal, which `select` looks at, or in
the buffer of stdin, which it does not; `GetChar` is one successful `select` with its
`getchar`.  `MainThread` starts from the key that comes out.

**`Terminal`** extends `Keyboard`: the main loop takes a key or none, redraws S3 and may
send, which redraws S2; the receive thread redraws S1 or S2; these two and the broadcast
thread log warnings and errors.  Each `save_printf` is one step that waits for
`log_mutex`; between two of them another thread may print.  `s1` holds what is printed
in each row of S1, names and log lines; `s3` says whether S3 shows what `refresh_S3`
printed; all rows below S1 are one row for the cursor, since everything that is printed
there, but for log lines, names its row.  Of S2 only the cursor and the clock are
followed, since `ChatLog` has its rows.  The clock is the static result of `localtime`
(`tm`) and what each thread made of it (`stamp`).

A log line and its newline go to stderr, which is the same terminal, and land where the
cursor is (`PrintsLine`).  Outside `refresh_S1` that is below S1, perhaps over S3.
Between two prints of `refresh_S1` it is a row of S1: the line covers that row and the
next name is printed in another one.  `S1IsPrefix` therefore speaks of S1 from the
beginning of a `refresh_S1` in which nobody logs (`s1Clean`) until the next one: prints
of the main thread can cut it, nothing can misplace a name in it, and it repairs
whatever log lines did to S1 before.

**`Network`**: several peers, each with its configuration, friend table and log, and
the packets of all of them.  `ChatPacket` and `IdPacket` are the two `snprintf`,
`process_broadcast_data` and `process_chat_data` the parsers: `strtok`, a function
over the texts of `Characters`, merges tabs, and a field that is missing leaves what the uninitialised local held
(`Garbage`).  `aired` and `sent` never shrink, so that a packet can arrive at any time,
any number of times, or never.  `Restart` empties a peer's table and log and may give
it another free address.  A push is one step here; `ChatLog` and `Friends` take it apart.

The `Json...` modules model `cJSON.c` from the bytes to the calls a program makes.
Memory is a function from block ids to items and texts; a function of the library is an
operator from a machine (heap, remaining allocations, result, flags) to a machine.

| module | what it models |
|---|---|
| **`JsonStrings`** | reading a string: the measuring, the escapes, the decoding in place |
| **`JsonText`** | reading and writing numbers and strings |
| **`JsonLinks`** | what the four list functions do to `child`, `next` and `prev`, one assignment after the other; `ListsAre` relates a heap to the sequences of items it stands for |
| **`JsonItems`** | the blocks, allocating and freeing, and the functions that work on items: creating, adding, detaching, inserting, replacing, setting a value, deleting |
| **`JsonTree`** | parsing |
| **`JsonPrint`** | printing into a buffer that `ensure` doubles: first the pieces that are printed, one `ensure` each, then what becomes of the buffer |
| **`JsonCalls`** | a program between the calls that build whole trees (`CallsSpec`): it makes, adds, inserts, replaces, detaches, deletes and refers to items, and any allocation can fail |
| **`Json`** | the whole program (`Spec`): `JsonCalls` together with parsing, duplicating and `cJSON_CreateIntArray`; comparing and minifying |
| **`JsonInvariants`** | the invariants of memory and of the texts, and the trees that a memory stands for |
| **`JsonForest`** | the abstract specification: trees without pointers, on which every call does all it is asked for or nothing; `ImplementsForest` is the refinement |
| **`JsonProperties`** | what the library is for, with a reference definition of JSON texts |
| **`ReadConfig`** | `read_config` and `read_out_config` on top of it |

`cJSON_Delete` calls itself on the children and goes on with `next`; `FreeOrder` is the
sequence of blocks this frees, read off the memory before the first is freed, and deleting
is freeing them one after the other.  Whatever can be said without following a
tree recursively is in modules without recursive operators, so that it can be
proved about: all but `JsonTree`, `Json`, `ReadConfig` and `JsonProperties`.

The `...Proofs` modules hold the inductive invariants and theorems of a component,
the `MC...` modules its constants for TLC.  Definitions marked *Faulty* are
variations of the definition after them; no specification uses them.  They show that
each property depends on the action they vary.

## 3. Runs

| run | instance | distinct states | what it shows |
|---|---|---|---|
| `chatlog` | `M = 4`, 9 pushes | 12 627 | `LogIsLatest`, `OldestFirst`, `RaceIsBounded`, `ScreenShowsLog` hold; every record reaches the screen |
| `chatlog_lines` | `M = 2`, 3 pushes | counterexample | a line can show the time of one record and the text of another |
| `main` | 2 entries, 3 names, 3 labels, 2 messages | 219 918 | the table, the message and the state diagrams are right for friends that are in the table |
| `main_unknown` | the same, 1 message | counterexample | the index one past the table is accepted |
| `main_label` | 1 digit, 2 letters | counterexample | a letter selects another friend than the one listed under it |
| `lifecycle` | 2 Ctrl-C | 159 117 | the configuration and the terminal are handled safely; the program ends after 'q' or two Ctrl-C unless a handler waits for its own thread's mutex |
| `lifecycle_ctrlc` | 2 Ctrl-C | counterexample | two Ctrl-C can hang the program |
| `lifecycle_sockets` | no Ctrl-C | counterexample | the program runs on without its sockets |
| `terminal` | 2 rows of 2 names, 3 friends, 1 record, reads of 2, 3 keys, any number of log lines | 655 060 | S1 is at worst cut unless somebody logs while it is redrawn, and right again after the next redraw; wrong times are another thread's; S3 heals; no key is lost and the next key brings out those that wait in the buffer |
| `keyboard_burst` | 2 keys | counterexample | the second key of a burst is not handled until a third is typed |
| `json` | 6 trees worked on, 2 keys, one of them empty, 3 calls, 0, 1, 2, 4 or 20 allocations that succeed; the text functions on 6 474 texts | 41 369 | the parser takes exactly the JSON texts, printing and parsing undo each other, every call does all or nothing and loses no memory |
| `network` | 3 peers, 2 of them followed, tables and logs of 2, 1 chat packet, 1 restart | 42 440 | tables and logs hold only what was announced and said; in the end everybody is listed |

Bounds.  `ChatLog`: four slots are enough for a move to have a first, an inner and a
last slot, and nine pushes fill the log and replace it entirely once more; a
refresh overlaps at most one push, so longer histories repeat these.  `MainThread`:
two entries let the table be empty, partly filled and full; three names and a
second address for one give every outcome of `push_g_friends`; two digit labels
and one letter give both kinds of label, including the index one past the length;
a text of 0, 1 or 2 characters has both ends of the buffer; two messages let a
second one follow the first.  `Lifecycle`: one Ctrl-C installs the default action
again, the second ends the process, and both can run handlers at once on two
threads; a third adds a third concurrent handler, which the proofs cover.  `Terminal`: three
friends fill a row of S1 and begin the next, so that a list can be cut at a row's
end, inside a row, and in the row that is not cleared; a read of two bytes leaves
none or one behind, and three keys are more than a read.  Any thread may log at any step,
as often as it likes.
`Network`: of three peers two have names that differ only in characters a name does
not keep, one an address of the full 15 characters; one text has a tab inside, one
is nothing but a tab; tables of two are full with these names; a restart can give a
peer the address a packet is under way to.  `Json`: the texts are all sequences of up
to three tokens, with and without a closing 0, damaged documents, escapes at the
edges of UTF-8's lengths, and nests as deep as the limits and deeper; three calls are
enough to make, use and release a reference or a constant key; one key is a member's name
in another case, the other has no characters, which is not the same as no key; an
allocation may fail as the first, second or third of a call.

The six counterexamples are disagreements between the code and its own comments
or the README; they are described under "findings" in `PROJECT.json`:
`src/ui.c:52` (S2 read under the wrong mutex), `src/main_thread.c:154` (`<` for `<=`),
`src/main_thread.c:177` (letters counted from 0), `src/main_thread.c:236` (a handler
that takes a mutex), `src/init.c:79` (RUNNING set after a failure),
`src/main_thread.c:43` (`select` beside buffered input).

### Fairness

- `ChatLog`: weak fairness of each thread's steps *inside* a push or refresh.  The
  scheduler runs both threads and both mutexes are released after finitely many
  steps.  Nothing is assumed of `LockChats`: whether there is anything to push is up
  to the user and the network.
- `MainThread`: weak fairness of `SendStep`, the part of an iteration after the key:
  it never waits (UDP `sendto`, memory).  No fairness of keys or of the network.
- `Keyboard`, alone in `keyboard_burst`: weak fairness of `GetChar`: the loop runs all
  the time.
- `Terminal`: strong fairness of the steps of each thread.  A thread waits only for
  mutexes that are released again and again, and gets them in the end; nothing is
  assumed of keys and packets, nor of the broadcast thread's failures.  `S3Heals` asks
  for a receive thread that is quiet in the end and a broadcast thread that fails no
  more; what the main thread itself logs does not disturb it.
- `Network`: weak fairness of each peer's broadcast and, for each pair, of hearing the
  current announcement: the sender repeats it every 5 s, so that not all are lost.
  Chat packets may all be lost.
- `Lifecycle`: weak fairness of each thread with its handler, of which the scheduler,
  `sleep` and `pthread_join` are the reason, and of the kernel delivering a signal
  that is pending.  The user need not do anything.

## 4. Proofs

All safety properties of `chatlog`, `main`, `lifecycle`, `terminal` and `network` are
proved for every value of the constants, each by an invariant `IInv` with `Init => IInv` and
`IInv /\ [Next]_vars => IInv'`; the lemmas have one step per action and conjunct.
Each `IInv`, and `LockInv`, was checked with TLC before it was proved; the run `main` still does,
since its `IInv` is a property of the table that no other states.

- `ChatLogProofs`.  Whether the log is up to date depends on where a push is, so
  `LogInv` says what the log is at each stage, slot by slot during the `memmove`.
  `LagInv` is the heart of the screen's properties: a refresh overlaps at most one
  completed push of the other thread, because that thread then waits for
  `refresh_S2_lock`.  `TornInv`, `OrderInv` and `DrawInv` follow the lines drawn so far.
  Proved: `TypeOK`, `LogIsLatest`, `OldestFirst`, `RaceIsBounded`, `ScreenShowsLog`.
- `MainThreadProofs`.  `TableInv`: listed entries are whole announcements with
  different names, and the entry being copied is not among them.  `PacketInv`: what
  `send_chat` has read of an index that was in the table stays equal to that entry.
  `PhaseInv`: where `is_press_cr` can be set.  Proved: `TypeOK`, `NamesUnique`,
  `KnownFriendGetsIt`, `QuitSendsNothing`, the action properties `AppendOnly` and
  `TextKept`, and `DiagramCorrect`: every behaviour of `Spec` is one of
  `SendDiagram`'s `Safety` under the refinement mapping.
- `LifecycleProofs`.  The invariant follows `main` from the start-up to its last
  call.  `ConfigInv` is conditional on no Ctrl-C, `TerminalInv` only where a handler
  matters.  Proved: `TypeOK`, `ConfigSafe`, `TerminalRestored`.  On top of it, `LockInv`
  follows `log_mutex` through the prints of the threads and of the four activations of
  `end_program`, and `NewInv` says when a thread exists.  From them comes the exact
  condition of the hang that `lifecycle_ctrlc` shows one instance of
  (`HangsOnlyInItsPrint`): a handler waits for ever exactly when its SIGINT interrupted a
  print of the thread it runs on; whoever else holds the mutex gives it back with the
  next step.  Without Ctrl-C nobody hangs on it.
- `TerminalProofs`.  First the arithmetic of S1: `NamePutInPlace` (a name printed at
  the cursor makes of a row of names one with the next name too), `NamePutOver` (the
  same of the last row, in which older text may stand to the right) and `OtherRows`, from
  products and remainders.  `CursorInv` holds whatever is logged: the cursor leaves
  no hole in a row, and it is below S1 unless `refresh_S1` runs.  `RowsInv` follows a
  `refresh_S1` in which nobody logs, print by print: as long as the main thread does not
  print, the number of names drawn and the cursor determine each other; once it did,
  the cursor is below S1 and S1 stays as it is (`ScreenBelow`).  A log line inside the
  refresh ends what `RowsInv` says of it and keeps `CursorInv` (`ScreenLine`), which is
  all that the next refresh starts from.  `TimesInv` says who can have asked for
  a time last, which needs `LocksInv`: two threads are never in the same section.
  Proved: `TerminalTypeOK`, `S1IsPrefix`, `TimesExplained`.
- `NetworkProofs`.  The invariant says of every packet ever sent that somebody's
  configuration, or a text somebody typed, went into it, and of every entry and line
  that it comes from such a packet.  Its core are lemmas on `strtok`: of a text that
  begins with a non-empty field without a tab, followed by a tab, it returns that
  field and leaves the rest.  So the parsers take apart what the two `snprintf` joined,
  a message with tabs inside being cut at the first.  Proved: `TypeOK`,
  `EntriesWereAnnounced`, `LinesWereSaid`.
- `JsonTextProofs`.  `EscapesMean`: for every surrogate pair and every code point the
  arithmetic of the `\u` escapes gives the bytes of its UTF-8.  `StringsFitAlways`:
  whatever the input, the decoded string fits in the block measured for it.  The
  decoder uses up at least as many bytes as it writes, the measure subtracts only
  what an escape must use up; both are recursive functions on the input's positions,
  whose equations are proved first.  `StringLengthIsExact`: what `print_string_ptr` counts
  is what it writes.  `PrintAlwaysFits`: `ensure` is called before every piece with at least
  what the piece takes, and the room it leaves is enough for the text, its 0 and one byte
  more.  The run's `StringsFit`, `EscapesKeepTheirMeaning` and `PrintFits` follow from `TypeOK`
  alone (`StringsOfTextFit`, `EscapesOfTextMean`, `PrintAlwaysFits`).
- `JsonMemoryProofs`, in four parts.  Before them, induction for a property given as a set:
  the library's induction theorems take an operator, which the provers cannot instantiate.
  *Lists.*  If the heap's links are the lists of a function from parents to
  sequences (`ListsAre`), then after the list part of `add_item_to_array`,
  `cJSON_DetachItemViaPointer`, `cJSON_InsertItemInArray` and
  `cJSON_ReplaceItemViaPointer` they are those of the function with the item appended,
  removed, inserted or replaced, and all other lists are as before
  (`AppendIsRight`, `DetachIsRight`, `InsertIsRight`, `ReplaceIsRight`).  The end of a list
  is found through the first item's `prev`, so an operation at either end has to
  repair it: each proof follows the assignments link by link, and `OthersStay` is the
  frame.  The append leaves the new item's `next` to a later append, and is therefore
  right only for an item whose `next` is NULL, as a detached or new item's is.
  *Deleting.*  `FreesTheTree`: where the links form a forest, the walk of `cJSON_Delete`
  frees an item, all below it, all that follow it, and their texts, each once, and
  nothing else.
  *The invariant.*  `IInv` says that there is one sequence of children for each
  container which the links represent; that every text has one owner; that what the
  program holds is in no list; and what is lost.  `ListsWellFormed` and
  `EachBlockHasOneOwner` are not inductive as they stand: in the middle of a call a text is
  in the hands of the library and an item is in no list yet.  `MemoryIs` and `Ready`
  therefore carry the loose texts and the items held through the steps of a call.
  *The calls.*  `RearrangeKeeps` is the step, call by call and with every allocation
  failing or not; it starts from any memory in order, also one with parsed or duplicated
  trees.  With it, for every program made of these calls: `MemoryIsInOrder`, and from it
  `CallsKeepTypes`, `CallsKeepOwners`, `CallsKeepLists`.
- `JsonForestProofs`: the refinement.  `CallsImplementForest`: every call of `CallsSpec` is, on
  the trees that memory stands for (`Trees`), a step of `JsonForest`.  First each function
  of `JsonItems` is described on trees (`DeleteTrees`, `InsertTrees`, `ReplaceTrees`, ...):
  from what the parts above say of its links and texts, memory after it
  stands for the trees before it with one list of children, one key or one value changed,
  one leaf more, or a tree less.  Then each call is one action of the abstract
  specification or, where an allocation fails, its failure (`AddToArrayStep` to
  `AddReferenceToObjectStep`): the leaf made for a call that fails halfway is deleted again.
  The abstract guards and effects speak of all that is below an item.  `IInv` is not enough
  for them: the sequences of a memory in order could still have an item below
  itself, whose deletion would take the container with it.  `RInv` is `IInv` and
  `NoLoops`, which says that every set of items has one without a child in it; it is kept
  because no call is given a container that lies below the item it adds (`FreeIs`).
  `NoLoops` also makes the steps of `Below`, which are bounded by the number of blocks,
  reach everything (`BelowFinds`).  Proved on the way: `TreesAreInOrder`.

Assumptions, all of them on constants: `M` and `N` are positive; the bounds and
lengths are naturals (`MaxPushAssumption`, `MaxSentAssumption`,
`MaxSignalsAssumption`, `LengthAssumption`); announcements are records with a name and
an address (`AnnouncementsAssumption`); a partly copied address is none that was
announced (`PartialAssumption`); every label stands for a slot of the table
(`LabelsAssumption`: 10 digits, 6 letters, 16 slots); the screen's sizes are positive
and S1 has room for every friend (`ScreenAssumption`, `NamesFit`: 4 rows of 4 names for
16 friends); a read of stdin asks for at least one byte (`BufferSizeAssumption`,
`MaxTypedAssumption`); the network's sizes are positive (`SizesAssumption`), its peers'
constants fit together (`PeersAssumption`), texts are made of `Characters`
(`CharactersAssumption`), and nicknames are not empty and have no tab
(`NickAssumption`, which the code does not check).  Of `cJSON.c`: the ids of blocks are finitely many naturals
other than NULL (`BlocksAssumption`), texts and keys are sequences of bytes, among the keys the one
passed as a constant (`TextsPassedAssumption`, `KeysAssumption`, `StaticTextAssumption`),
the types are those of `cJSON.h` (`KindsAssumption`), the numbers of allocations
and calls are naturals (`FuelsAssumption`, `MaxCallsAssumption`), and a buffer has a positive
first size and an integer limit (`DefaultBufferSizeAssumption`, `IntMaxAssumption`).
The modules without proofs assume in the same way limits that are naturals
(`NestingLimitAssumption`, `CircularLimitAssumption`) and documents that are texts
(`TextsAssumption`, `DocumentsAssumption`).

A failed proof found one error of the model: `NoKey`, which stands for "no key", was the empty
text, which is a legal key, so that adding with an empty key and failing looked
like a call that the abstract specification does not have.

Only model-checked, because their definitions follow a tree recursively: `ParserExact`,
`PrintRestores`, `CompareIsEquality`, `MinifyKeepsTree`, `ConfigTakenOrRefused`; and, for the same
reason, that parsing, duplicating and `cJSON_CreateIntArray` keep memory in order (`Json`'s `Spec`
beyond `CallsSpec`; its run checks the properties that are proved of `CallsSpec`, with
`ImplementsForest` among them).  Then liveness
(`RecordReachesScreen`, `StopEnds`, `TwoCtrlCEnd`, `NextKeyReleases`, `S3Heals`, `AllListed`, and the
fairness part of `ImplementsDiagram`), which is beyond the prover.

## 5. What is abstracted or left out

- Weak memory and torn words: each access to a variable is one step in program
  order.  The exceptions are the copies that the properties depend on (a new
  friend's fields, the slots of the `memmove`).
- In `Lifecycle`, a thread's several prints in a row are one hold of `log_mutex`; formatting, colours
  and the text of log messages are left out.
- `init.c:64` allocates `sizeof(Config*)` bytes, less than a `Config` has; the models give
  `g_config` room for all its members.
- `system("clear")`, during which SIGINT is ignored: a Ctrl-C typed at that moment is
  one that is never delivered.  The C library's own locks (`malloc`, `stdio`), which
  a handler could also wait for, are left out; `log_mutex` shows the same hazard in
  the program's own code.
- Errors of `pthread_create`, which the program does not handle, and the descriptors
  one by one: a partly successful creation is a failure.
- `Terminal`: the redraws of the start-up itself; a log that is not full yet
  (`refresh_S2` draws `M` lines); a terminal so small that it scrolls, or so narrow that
  a log line takes two rows of S1; what else a row of S1 shows once a log line is in it;
  which row below S1 the cursor is in; the time in the broadcast thread's own line.  The
  prints with which `refresh_S2` clears its rows are one step.  `localtime`'s result is
  read as a whole.  A key is typed when the main thread asks for one, which is when
  it can be noticed.  stdout is line-buffered and stderr is not, so that a log line can
  appear before text that was printed earlier; the model prints in the order of the
  calls.  That makes no difference to S1: the separator's newline writes out all of
  `refresh_S1`, hence a line logged outside of it never appears among its prints, and
  of one in which somebody logs nothing is claimed.  What the model shows beside its
  properties: a log line between two prints of `refresh_S1` spoils S1 until the next
  redraw; the last row of S1 is never cleared, because rows are counted from 0
  (`ui.c:18`); and once the table is full `refresh_S1` is never called again, so that a
  list cut or spoilt by then stays so.
- `Network`: texts that fill the packet's 512 bytes; a nickname with a tab in it or an
  empty one; broadcasts of other programs.
- `cJSON.c`: hooks, numbers with fractions or exponents (numbers are integers), the
  arrays of floats, doubles and strings (the loop of `cJSON_CreateIntArray`),
  `cJSON_CreateStringReference` and its like, the `cJSON_Is...` tests,
  `cJSON_SetNumberHelper` and `cJSON_PrintBuffered` (printing into a first buffer of the
  caller's size).  Three properties state exceptions that the code has:
  `MinifyKeepsTree` leaves out texts with an escaped backslash (`cJSON.c:2901` takes
  the end of one for the escape of a quote after it), `EachBlockHasOneOwner` the
  reference that `cJSON_AddItemReferenceToObject` loses when its key cannot be
  copied (`cJSON.c:2132`),
  and `ConfigTakenOrRefused` members that are no strings, of which `read_config.c:85`
  and `:92` copy the text at NULL.
- `cqueue.c`: nothing in the program calls it.
- Build files and the sample test (`test/hello_test.cpp`, which tests none of this
  code).

## 6. Plan

Done, in this order: `ChatLog`, `Friends`, `MainThread` with `SendDiagram`, `Lifecycle`,
with their proofs, `Keyboard`; then `Terminal` with its proofs, `Network`, and the
`Json` modules with `ReadConfig`.  To come:

1. `Lifecycle`: the four sockets one by one, and a failing `pthread_create`.
2. `Queue`: `cqueue.c` as a linked list under its mutex, refining a FIFO, should the
   program come to use it; pointers are model values and `tail` is left dangling by
   the pop of the last item.
3. Proofs: that parsing and duplicating keep memory in order; this needs both
   as recursive functions instead of operators.
4. `Terminal` with the rows of S2, so that `ChatLog`'s screen and the shared cursor
   are one model; a terminal that scrolls.
