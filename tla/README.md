# Verification of seos2021

The repository holds three exercises of an operating systems course: a decimal
calculator in assembly (`lab1`), a shell for FAT12 images (`lab2`), and a
bare-metal program for QEMU (`lab3/amgame`) that runs a full-screen text editor
and then a platform game on top of its own library, devices, allocator and
page tables. This directory models the parts whose logic is easy to get wrong and hard to
test, checks the models with TLC and proves what matters most with TLAPS.

## 1. The system

| component | state it keeps | operations | what makes it correct |
|---|---|---|---|
| editor (`editor.c`, `editor.h`) | text, cursor, view, undo history, mode, search, modifier keys, time of the last clearing | one per key (`editor_handle_key`), `editor_maybe_clear_screen`, `editor_repaint` | the cursor is in the text; an undo restores the text; a search is exact; nothing stops the machine; the text is cleared in time |
| framebuffer (`framebuffer.c`) | glyph and dirty bit of each cell | `putch`, `repaint`, `load_font` | after a repaint the screen shows what the cells say |
| kvector, kalloc (`kvector.h`, `kalloc.c`) | array, size, capacity; the heap pointer | `push_back`, `insert`, `erase`, growth; bump allocation | a vector behaves as a sequence; what happens when the heap is used up |
| platform game (`game.c`, `platform.c`, `ball.c`, `arena.c`) | arena position, ball, ring buffer of platforms | `reset_game`, `update_objects`, `handle_input`, `check_gameover` | the ring neither runs full nor empty; the loops end; the ball is neither in a platform nor out of the arena |
| virtual memory (`vme.c`) | two-level page tables | `protect`, `map`, `unprotect`, `copyvm` | an address space is a function from pages to frames; spaces are independent and lose no page |
| start and halt of processors (`mpe.c`, `trm.c`, `exit_safe` in `stdlib.c`) | `ap_ready`, `boot_record`, `exit_flag` | `mpe_init`, `halt`, `exit_safe` | each processor starts once; a halt powers the machine off, once |
| interrupts, contexts (`cte.c`, `*.S`) | registers | `yield`, traps | save and restore; the programs install no handler |
| devices (`ioe.c`, `keyboard.c`, `video.c`) | clock calibration | port I/O | the clock is read consistently |
| C library subset (`stdio.c`, `string.c`, `ctype.c`, `stdlib.c`) | `randseed` | pure functions | conversions, `memmove` |
| 64-bit arithmetic (`int64.c`) | - | - | vendored from LLVM compiler-rt |
| boot loader (`boot/`) | - | reads the kernel from the disk once | straight-line code |
| FAT12 shell (`lab2/main.c`) | directory tree | reads an image, `ls`, `cat` | cluster chains end; paths find what is there |
| decimal calculator (`lab1`) | digits | add, multiply | the digits are those of the sum and the product |

How they interact. `main` calls `splash`, then the editor's loop, which F2
leaves, then the game's loop, which ESCAPE or a failing assertion leaves. Both loops
run in one thread on one processor, poll the keyboard once per frame
(`io_read(AM_INPUT_KEYBRD)`) and wait for the clock. The editor keeps its text
in vectors of vectors that take memory from `kalloc`, and draws through the
framebuffer, which alone talks to the display. A failing `assert` ends in
`exit_safe`.

What is hard here is seldom concurrency, of which only the boot and the halt of
the processors and a clock that ticks while it is read have any, but long sequences of legal key presses: positions that were
saved and are used after the text has changed (history, search results), a
ring buffer whose loops rely on what earlier frames did at random, and the
boundaries of windows, collisions and clusters. The list is in
`PROJECT.json`, `hazards`, each at its line, with the properties that cover it
or the reason why none does.

## 2. What is modelled

### Editor: `Editor.tla`, `EditorUndo.tla`

`Editor` models all of `editor.c`. The variables are those of the static
struct `status`: `ed` groups the four that the text operators work on (buffer,
cursor, view, history), `mode`, `search_content`, `search_results`,
`input_status`. `overdue` stands for the clock: more than `clear_interval` (20 s) has
passed since `last_clear_time`. `pc` is the part of the frame that runs
next (`clear`, `key`, `repaint`) or the end (`exit`, `halted`).

The C functions on the text are operators from texts to texts, with the name
of the function and all that it calls (`InsertChar` moves the cursor and
scrolls as often as `editor_insert_char` does). The actions are
`MaybeClearScreen`, one for each case of `editor_handle_key` (`HoldModifier`,
`ReleaseModifier`, `ToggleCapslock`, `UndoKey`, `ExitKey`, `StartSearch`,
`LeaveSearch`, `MoveKey`, `InsertKey`, `DeleteKey`, `EditSearch`, `SearchKey`, and
`IgnoreKey` for the events without effect), `Repaint`, and `RepaintHalts`.

Data that is abstracted:

- a character is the key that types it and its case; the tables that turn keys
  into ASCII are left out;
- the vector of results is a set, because it is sorted and searched
  in order by `editor_do_search` and never reordered;
- the repaint is reduced to the reads of the text that can fail. A row past the end of the text
  is a slot of the vector that may still hold an old line: what is read
  there is a nondeterministic choice (`AssertMayFail`). The cells it writes,
  and the highlighted cell of a cursor outside of the window, are in `Screen`;
- memory does not run out: what happens then is in `KVector` and `Screen`.

`EditorUndo` adds what the editor does not keep, the text before each
recorded edit, and compares every undo with it. Its two variables observe `Editor`
and constrain nothing.

### Game: `Game.tla`, `Stairs.tla`

`Game` models `game.c`, `platform.c` and `ball.c`. The variables have the
names of the globals; `pc` is the part of `main_loop` that runs next: `reset`, `update`,
`input`, `check`, or how it ended: `exit`, `loop` (a loop of
`update_objects` that never ends), `assert`. Each of `reset_game`,
`update_objects`, `handle_input` and `check_gameover` is one action: nothing
runs between their statements.

- The ring of platforms keeps its unused slots with what was last in them,
  because the removal loop reads them.
- `rand()` is a choice: the column is any of `PlatformX`, and a platform is
  generated whenever the code may (`MayGenerate`), and for certain only when
  every value of `rand() % MAX_PLATFORM_Y_DISTANCE` makes it (`MustGenerate`).
- The macros of the headers are constants; speeds are in pixels per frame.
- Drawing (`draw_frame`, `arena.c`) changes no state of the game and is left
  out. `arena_y` does not overflow: at one pixel a frame and 50 frames a
  second an `int` lasts for more than a year of one game.

`Stairs` is the abstract specification: an endless flight of stairs that
scrolls, of which exactly those above the arena leave, to which stairs come at
the bottom only, and whose gaps stay between two limits. It knows no ring, no
slots and no random numbers. `Game!ImplementsStairs` is the refinement: `top`
is `arena_y`, `stairs` the heights read from the ring.

### Screen: `Screen.tla`

`Screen` extends `Editor` and composes its three parts of a frame with
`framebuffer.c`: `ScreenClear` (with the fonts that `editor_init` loads again),
`ScreenKey`, `ScreenRepaint`. `fb` is the array of cells, `display` what the
device was last sent. `Writes` lists the glyphs that one `editor_repaint` puts into a
cell in their order (text, cursor, search bar, results), `Putch` is
`framebuffer_putch`, which compares with the glyph that the previous call left and so
may clear a dirty bit that the same frame had set; `Shown` is
`framebuffer_repaint`. A glyph is a pointer: its font, the load it belongs to, and
its character. A font for which `kalloc` had no room is written to
address 0, which is what `fonts.fit` counts. A cell past the end of the
array (`overrun`) is the end of what is modelled.

### Vectors and heap: `KVector.tla`, `VectorSpec.tla`

`KVector` is `kvector.h` over `kalloc.c` word by word: `mem` is the heap, `top`
the static pointer of `kalloc`, `vec` the structures. `Memmove` copies one
word after the other in the direction the code chooses; `Room` is `__grow`, `Stored` the
common part of `push_back` and `insert`. `EditorInit` is what `editor_init` does with the
heap, at the start and at every clearing. `VectorSpec` is the abstract
specification: a function from vectors to sequences, with the sequence
operations as its only steps; `VectorsAreSequences` is the refinement, with
`Content` (the first `size` words of the array) as its mapping. Elements are one
word; the larger elements of the code are copied in the same order.

### Address spaces: `Vme.tla`, `AddressSpace.tla`, `MCVme.tla`

`Vme` models `vme.c` as it is built for 32 bits: `table` holds the words
of the pages, `free` what `pgalloc` may return, `ptr` the field `as->ptr` with
its bit `PTE_P`. `Walk` is `ptwalk`, which allocates a missing directory and
a missing table on the way, `MapPage` is `map`, `TornDown` `teardown`;
`Protect`, `Unprotect`, `CopyVm`, `Ucontext` have the names of the functions,
`Init` is the state after `vme_init`. `CopyVm` models what the code does, not
what it is for: it allocates pages, drops the addresses of all but the root
and leaves an empty space; the entries it follows are read across word boundaries, so
that it may also fault (`Panic` stands for that, too). Who calls these functions is not in the repository; the
callers are taken to use a space between its creation and `unprotect`.
`AddressSpace` is the abstract specification, one partial function for each
space, and `ImplementsAddressSpaces` the refinement.

### Start and halt of processors: `Mpe.tla`

`pc` says where each processor is. `MpeInit`, `BootAp`, `SeeReady`, `AllBooted`
are the loop of `mpe_init`; `Fetch` executes the first instruction of the boot
record, which `mpe_init` and `halt` rewrite (`jmp_code`); `SwitchStack` leaves the
stack that the boot sector gives to every processor, `Report` is the
`xchg(&ap_ready, 1)`; `ExitSafe`, `TakeFlag`, `Halt`, `StopNext`, `WorldStopped`,
`Announce` and `PowerOff` are `exit_safe` and `halt` up to the write to the port. A reset
that was sent (`resets`) arrives at any later time, whatever its processor does
then. No program of the repository calls `mpe_init`, so any processor that
runs the user's entry may return, exit or halt at any time.

### Clock: `Clock.tla`, `MCClock.tla`

`Clock` models `timer_init` of `ioe.c`: two calls of `wait_sec`, `estimate_freq`, and
`timer_rtc`. The clock (`now`) ticks at any time between two register reads
that is at least `gap` reads after the last tick, and stays a choice beyond that;
`read_rtc_async` reads the fields one by one (`ReadField`, with the conversion from
binary-coded decimals in `ReadRtc`). `elapsed` counts the ticks between the two
readings of the counter: it is what the frequency should be divided by. `Clock`
does not model the arithmetic of the counter itself.

### Shell and calculator: `Fat12.tla`, `Decimal.tla`, `MCLabs.tla`

`Fat12` models `lab2/main.c`: reading the tree with the recursion of
`read_dir_recursive` as an explicit `stack`, one action for each step of a
loop (`ReadEntry`, `SizeStep`, `CopyStep`, ...), then the prompt: `Type`, `find_file`
component by component (`FindStep`, `FindEnds`, `NoSuchFile`), `Cat`, `Ls` with the recursion
of `list_files` as the stack `calls` and the path that its calls share as `buf` (`ListBelow`, `ListEnds`), and
the lines that are refused or crash. `cat` with several paths prints its usage and goes on with
the first. A valid cluster number may lie behind the data when the root directory has two clusters or more:
its entry of the table and its contents are then whatever the image has there (`Clusters`), or the
image ends and the program faults (`CopyFaults`). Data come in units of a directory entry.
The properties compare with the definitions under "What is on the disk", which
follow chains by number and split a path at its slashes, and share no
operator with the reading of the tree but `ClusterNext` and `ClusterIsValid`. They say nothing of a disk whose
root directory is smaller than a cluster (`CountsAllClusters`), where the code loses the last cluster, and of a listing on a
disk with two entries of one name in a directory (`NamesAreUnique`), which the format forbids.

`Decimal` models `lab1/add-mul.S`, one action for each pass of a loop,
the carry propagation included, against the integers.

The two programs share nothing. `MCLabs` checks them in one run: a behaviour
runs one of them while the other is off.

## 3. What the runs check

| run | module | what it shows |
|---|---|---|
| `editor_cursor` | Editor | all edits, moves, searches and undos in a 2 x 2 window: types, the cursor in the text and the positions of the history repaired after inexact undos (`EditorTypeOK`), and the only two ways to lose sight of the cursor (`CursorHiddenOnlyBy`) |
| `editor_search` | Editor | searching while typing, undoing and waiting in a 1 x 2 window: `SearchFindsExactly`, `ResultsFrozen`, `HaltsOnlyOnStaleResults`, and, with fairness, `TextIsCleared` |
| `editor_undo` | EditorUndo | `UndoRestores`: an undo restores the text exactly if and only if the inserted space does not look like a part of a tab |
| `editor_stale_search` | Editor | a counterexample to `NoAssertFailure`: type a letter, search it, press Ctrl+Z |
| `game` | Game | several games in a scaled-down arena: no endless loop and no failing assertion (`NeverStuck`), the removal loop stays in the ring (`NeverRunsOut`), the ball is free between frames (`BallIsFree`), it is put on top of a platform only from the top, up to one exception (`OnTopOnlyIfWedged`), and `ImplementsStairs` |
| `game_wall` | Game | with the numbers of the headers, a counterexample to `BallInArena`: a platform pushes the ball one pixel into the right wall |
| `vector` | KVector | two vectors in a heap of eleven words: `VectorsAreSequences`, `ArraysAreDisjoint`, and, with fairness, `EverySessionExhaustsTheHeap` |
| `screen` | Screen | the editor in a 2 x 2 window with its cells: `ScreenShowsText` (the device shows the last glyph of every cell, with two exceptions), and when the cursor is drawn past the frame buffer (`OverrunNeedsLongLine`) |
| `vme` | MCVme | two spaces in eight pages: `PagesAreOwnedOnce`, `SpaceCanRun`, `OnlyCopiesLosePages`, `ImplementsAddressSpaces` |
| `mpe` | Mpe | three processors: `BootStackExclusive`, `EntryAfterAllAreReady`, `ExitsOnce`, and, with fairness, `BootCompletes` and `EndPowersOff` |
| `clock` | MCClock | four speeds of the clock: `EstimateIsExact`, `DateIsShown`, and, with fairness, `DateIsRead` |
| `labs` | MCLabs | `CatPrintsTheFile`, `LsListsDirectories` and, with fairness, `TreeIsRead` on disks of three clusters; `PrintsSumAndProduct` on operands of three digits |

Every property of a passing run has a mutant in `PROJECT.json`: an operator of the
same module that changes one definition as a plausible bug would (a forgotten reset, an
inclusive bound, an entry recorded late), with which TLC finds the property violated.

### Bounds

- `MaxHistory` bounds the edits that can be undone at the same time, and so
  the length of the text, since every edit is recorded. Three of
  them build texts of three lines, or of twelve columns through tabs; an undo
  that goes wrong needs one tab and one more edit, which the keys of `editor_cursor`,
  `editor_undo` and `screen` allow.
- `MaxSearch` bounds the search bar. Two characters are enough for
  occurrences that overlap, in a row of letters or in the four spaces of a tab.
- The windows are smaller than these texts, so that every branch of the
  scrolling is taken.
- The arena of `game` is 20 x 10 with a ball of 4 x 4, platforms of 2 x 1 and a
  ring of five slots. The numbers keep the relations of the headers
  that `FlightAssumption` and `BallAssumption` name, a platform that leaves a
  gap exactly as wide as the ball at the right wall, one at the left wall, and a ring
  that wraps around in a game. `MaxArenaY` bounds the length of a game to about one
  height of the arena: by then all platforms of `reset_game` are
  out, and the ring holds random ones only. Games follow each other without bound.
- `game_wall` has the numbers of the headers and the one column of a platform
  that matters.
- `vector`: a new vector has two words (8 in the code), a font one; a heap of eleven
  words is initialised twice before it is full, or holds a second vector and lets
  one of the two grow. Arrays that grow are copied into the heap above, so that
  more vectors add no new overlap.
- `screen`: a line of text and a search bar, so that a cell is written by up to four of
  the text, the cursor, the bar and a result; a tab is already two windows wide, and
  a tab, RETURN and its undo draw the cursor past the frame buffer.
- `vme`: two words to a page, one of them the kernel's. Two pages are the kernel's, a mapped
  space needs two, a copy takes three and two more when it is mapped: eight pages are one less
  than all of that needs, so that every allocation may fail. A state constraint gives
  the kernel the lowest pages and an action constraint makes `pgalloc` return the
  lowest page: no property depends on which page is returned.
- `mpe`: three processors are the least with two that wait for the boot stack;
  the run with four passes as well.
- `clock`: eleven seconds, so that both the tens and the units of a decimal change, two
  minutes, two hours. Ticks are 1, 2, 6 or 9 register reads apart; a pass of
  `read_rtc_async` has three. Above `MaxElapsed` the estimate is not compared.
- `labs`: all allocation tables over three clusters, cycles and shared
  chains included; three root directories (with deleted entries, long names,
  an early end); three geometries, the second with a root directory
  that is smaller than a cluster, the third with one of two clusters and with tables
  whose chains lead behind the data. `MaxDepth` cuts the recursion, which only
  a directory within itself takes deeper than three. Operands have up to three of
  the digits 0, 5, 9, with which every column can be at, above and below a carry.

Deadlock is not checked in these runs: each of the programs ends (F2, ESCAPE,
a failed assertion, a panic, power off, the end of the input), and bounds stop the others.

### Fairness

`FairSpec` of the editor assumes weak fairness of its next step and
`TimePasses`. Both hold of the code: the loop never blocks, since the keyboard
returns `AM_KEY_NONE` when no key was pressed, and the uptime grows, so that 20 s pass
again and again as long as nobody resets `last_clear_time`, which only leaving a
search and a clearing do. It is not assumed that a key is ever pressed.

`KVector` assumes that the text is cleared again and again while the machine
runs, which is what `TextIsCleared` of `Editor` says of a text that is not being
searched. `Mpe` assumes weak fairness of each processor's own steps and of
the arrival of each reset, never of the steps that a program decides on
(`Decide`). `Clock` assumes that `timer_init` runs on and nothing of the clock: `DateIsRead`
does not need it to tick. `MCLabs` assumes that the shell reads the disk
(`Reads`), and nothing of who types.

## 4. What is proved

All theorems hold for every value of the constants that satisfies the named
assumptions of the modules; TLC evaluates those in every run.

**`EditorProofs`** (any keyboard, window, history; `SizeAssumption`,
`UndoKeyAssumption`):

- `TypeCorrect`: `Spec => []EditorTypeOK`. The inductive part is `TextOK`. The
  difficulty is that the history holds positions that may lie outside
  of the text after an inexact undo; the argument is that nothing is assumed of
  them, because `editor_move_cursor` brings every position back into the text
  (lemma on `MoveCursor`), and that every operator then keeps the cursor in
  a text with at least one line.
- `HaltsOnlyWhenStale`: an exact search is always readable
  (`ExactResultsAreReadable`: a result that occurs in its line ends in it), and
  the step to `halted` has found a result that is not; the results exist in
  searches only, so that nothing changes them in between.
- `ResultsAreFrozen`: the action property, by cases over the actions, from the
  invariant that results exist only in the mode `SEARCH`.
- `SearchesAreExact`: `SearchFindsExactly`. `Matches` is a recursive function over
  the columns; that such a function exists is shown by induction over the
  prefixes of the line, and exactness from its equation: an occurrence that is not
  reported overlaps one to its left that is.
- `CursorIsFollowed`: `CursorHiddenOnlyBy`, for windows of two rows and more. Each edit either
  leaves the row of the window alone and then shows the cursor, or removes a line; an undo of four
  characters is four edits of which the first may scroll. In a window of one row the property
  is false: the undo of a join can scroll down and up again in one step.
- `UndoTypeCorrect`, `UndoRestoresExactly`: `UndoRestores` says exactly when an undo
  goes wrong. The invariant `HistoryIsTrue` says of each entry of the history which edit
  made the text after it out of the text before it (`Recorded`): characters inserted, a line broken,
  characters deleted, lines joined. It is needed for all entries, not the last,
  because an undo uncovers the one before. That a tab
  is undone wrongly when it looks like one (and only then) is an argument about lengths: the line becomes
  shorter than it was before the edit.

**`EditorProofs`, the screen** (as before, windows of two rows and more: `HeightAssumption`):

- `OverrunOnlyOnLongLines`: the highlighted cell is written past the frame buffer only when the cursor
  is two windows' widths right of the view. `framebuffer_putch` does not
  test its index, so that this is a fact about the editor: the cursor is never below the
  window, and in its last row never right of it (`Near`, which every edit, movement and undo
  keeps or restores).
- `ScreenTypeCorrect`, `ScreenShowsTheText`: `framebuffer_putch` compares a glyph with
  what was put into the cell last, which may be a part of the same frame; that this never loses
  a cell needs `PictureInv`: a cell of the text in the current fonts is on the device
  (`TextIsShown`), so is a cell of the search bar that a result writes the same glyph to
  (`BarIsShown`), results are in rows of the text (`ResultsInText`), and between frames
  no glyph of the text is of an earlier load (`FontsAreCurrent`). All other cells that are
  written twice change their font, and so are dirty (`FrameIsShown`).

**`GameProofs`** (any arena, ball, platform, ring and speed; `SizeAssumption`,
`FlightAssumption`, and for the last two theorems `BallAssumption`):

- `RingHolds`: the inductive invariant `RingInv`. Its core is `GoodFlight`:
  platforms in the ring that are j - i apart are at least (j - i) minimal
  distances apart, each is in reach of the one before, the first is not out of the arena, the last is
  at `last_platform_y` and less than `MAX_PLATFORM_Y_DISTANCE` above
  the bottom. The distances bound the number of platforms: two that
  span the arena would need more than its height if the ring were full
  (`FlightShort`), so the ring is never full when a platform is due, and
  `platform_generate` never fails its assertion.
- `RemovalStaysInTheRing`: `Spec => []NeverRunsOut`. The loop that removes
  platforms does not test the end of the ring. It stops because of the last conjunct: the last
  platform is still in the arena, since one is generated for certain before the gap below it is
  as large as the arena (`FlightAssumption`). The reset of
  `last_platform_y` in `reset_game` is needed for it, as a mutant shows.
- `FlightImplemented`: `Spec => ImplementsStairs`, the refinement. `reset_game`
  maps to `Restart` (`ResetRestarts`), `update_objects` to `Scroll`
  (`UpdateKeeps`), the other steps to stutters.

`FlightAssumption` states of the headers: the first platform and one more fit
into the arena; `MIN + PLATFORM_HEIGHT < MAX`; `MAX` and one frame are not more than the arena
and a platform; and the arena and a platform are less than `MAX_PLATFORM_NR - 1` minimal distances.
With the numbers of the headers (200, 3, 20, 100, 32): 96 < 197, 23 < 100,
101 <= 204, 203 < 620.

- `TypeCorrect`, `GameIsNeverStuck`: `TypeOK` and `NeverStuck`. What `RingHolds` leaves open is the
  loop of `ball_reverse_to_collision`, which ends when the ball is out of the platform. `BallInv`: the ball moves,
  or it is where `reset_game` put it, above all platforms (`AtStart`), and hits none. A ball that
  moves is out of a platform after as many turns as ball and platform are wide and high
  (`LeavesThePlatform`). The loop over the platforms is a fold, by its definition a recursive function
  on sets of indices: `FoldKeeps` reasons about it by induction on the prefixes of the ring.
- `BallStaysFree`, `OnTopFromAbove`: `BallIsFree` and `OnTopOnlyIfWedged`. `ReverseStops` computes the turn in which the
  reverse motion ends, `FixPushes` from it the four things that a collision does to the ball:
  it is put to the right of the platform, to the left, on top of it, or is left alone by the extra pixel
  (`Pushed`). Platforms are so far apart that a ball hits one of them at most, before
  and after the correction (`HitsOnlyOne`), so that the whole fold is at most one correction (`FallingBall`).
  The invariant `FreeInv` follows the ball through all three parts of a frame: what it may overlap
  in between is only the platform just generated below the arena, which `check_gameover` then tells
  apart; and a ball in the wall does not move to the right, and is beside a platform that leaves a gap of its
  own width, since otherwise the next frame could push it a second pixel (`NoneBehind`).

`BallAssumption` states that the ball is as fast sideways as down, that the arena is as wide as a
platform with a ball on each side and as a ball and a step, and that the minimal distance is not less than a ball,
a platform and a step. With the numbers of the headers (2 and 2 pixels a frame, 10, 30, 3, 150, 20): 50 <= 150,
12 <= 150, 15 <= 20.

**`KVectorProofs`** (any heap, number of vectors and first capacity; `KVectorAssumption`):

- `TypeCorrect`, `ArraysNeverOverlap`. `kfree` gives nothing back, so that every array was the top
  of the heap when it was made; `HeapInv` says that all that is live lies below `top`, apart
  from each other, and that sizes do not exceed capacities.
- `VectorsImplementSequences`, the refinement: `memmove`, a recursive function over the words,
  moves a range exactly in both directions (`MemmoveIsExact`, by induction over the words), so
  that the first `size` words change as the sequence operation says, and the words of
  all other vectors stay.

**`VmeProofs`** (any number of pages, spaces and words to a page; `VmeAssumption`):

- `TypeCorrect`, `PagesHaveOneOwner`, `SpacesCanRun`: `teardown` frees what the words of a
  directory say, so that ownership alone is not inductive. `VmeInv` adds what the words are: in the
  user's area of a directory each word is empty or the only one with the address of its table
  and has `PTE_U`, in the kernel's areas none has (`DirOK`, `SpaceOK`, `KernelOK`).
- `CopiesAloneLosePages`: every operation writes only pages that were free or the space's
  own (`StepKept`), and what it loses is what the space neither owns afterwards nor gave back
  (`Dropped`, `LostGrows`): a page for each word in `copyvm`, the root of a copy in its first `map`
  or its `unprotect`, and nothing else. A page once lost stays lost, so that the context of a
  copy never points to a page of somebody else (`ContextOK`, in `SpacesCanRun`).
- `MapsImplementAddressSpaces`, the refinement: from the same lemma, the translations of the other
  spaces stay, and `map` changes one page of its own.

**`MpeProofs`** (any number of processors; `NCpuAssumption`):

- `TypeCorrect`, `BootStackHasOneUser`, `EntryComesLast`, `ExitsAtMostOnce`. Until somebody calls
  `halt`, the invariant says how far `mpe_init` is: the processors before `cpu` are in the user's
  entry, those after it untouched, and `cpu` itself is in exactly one of three states, which
  `ap_ready` and the resets tell apart (`WaitingForOne`). After a halt the boot record spins, so that
  no processor that is reset comes to the boot stack again (`Halted`).

**`ClockProofs`** (any clock with more seconds than fields, any speed; `ClockAssumption`):

- `TypeCorrect`, `DateIsNeverMixed`: at most one tick falls between two register reads, so
  that after n reads the clock is at most n ticks ahead of the second that was read first. It
  cannot have come round, and an unchanged second means an unchanged date (`DateInv`).
- `FrequencyIsExact`: if ticks are further apart than two passes of the loop, the tick that
  ends `wait_sec` is the only one in it, and the pass after it is exact (`WaitInv`,
  `CountInv`). `ClockAssumption` limits the comparison to an hour (`MaxElapsed`).

**`LabProofs`, the shell** (any disk, sizes of clusters, command lines and depth of calls; `Fat12Assumption`,
`DiskAssumption`, which says that there is something to be read of every cluster in the table and in the data, and `PathAssumption`):

- `CatPrints`: `Shell => []CatPrintsTheFile`. The inductive invariant is `LabInv`, and its core is a relation
  between the finished part of the tree and the disk: a node mirrors an entry (`Mirrors`) if it says what the
  entry says, its data are those of the chain, and its entries mirror those of the chain's units, in their order. The relation is
  the largest of its kind, since a tree that is built has no depth known in advance. `ReadInv` says of each call of
  `read_dir_recursive` which part of its directory it has read (`HasRead`), and of the loops of `read_entry` how far along the chain they
  are (`SizeInv`, `CopyInv`). That the size loop counts enough of a directory to find the end of its
  chain, although the bound `MaxSize` cuts it off, is an argument by counting: a chain that has not ended after
  as many steps as there are clusters goes round, and then the loop never ends and nothing is built.
  `FindInv` says that `find_file` stands on a node that mirrors what the components before `s` name
  (`FindsAt`, `Reached`); `s` and `sep` are cuts of the path, told by their rank among its slashes.
- `LsLists`: `Shell => []LsListsDirectories`, from `ListingInv`, which adds to `LabInv` what the
  calls of `list_files` have in common with the sections printed (`ListInv`): each call is for a directory
  whose path, cut out of the shared buffer, names it (`CallTrue`), the path of a call continues that of its caller
  (`Nested`), each section but the first is of a directory that an earlier one contains (`Sections`), every directory
  in one is printed or still awaits its turn in some call (`Covered`, `Awaited`), and what is printed below a call belongs to an entry
  that the call has passed (`Passed`). The last gives "each once": two paths that continue one path by different names
  differ (`Starts`, `BelowPath`), since no name contains a slash.

**`LabProofs`, the calculator** (operands of any length; `DecimalAssumption`):

- `CalculatorPrints`: `Calculation => []PrintsSumAndProduct`. The invariant `IInv` says which number is in `c` in each of the
  five loops. After the addition it is the sum of the columns done, each digit between -9 and 9 with its carry; the product
  loop keeps below 10^(2N) the product of the part done, so that the carry runs nowhere past the end.
  The loop that repairs a negative sum is wrong in general, and the theorem says exactly when: the difference between what
  the array will mean and the absolute value of the sum (`Excess`) is zero as long as no digit was incremented by a borrow from the
  right before it was complemented, and grows by twenty times the weight of each that is; it never shrinks, so that two mistakes do not cancel.
- `NumbersFit`: no byte of the array leaves -128..127 and every number is terminated within the array, so that the digits, bytes
  in the program, may be integers in the model.

**`DataLemmas`** holds what several of these need: induction over the naturals as a
statement about sets (from the library's theorem that every set of naturals has a least element,
as the induction theorems proper take operators, which the provers cannot instantiate), and the operations
on sequences element by element.

Only model-checked: liveness (`TextIsCleared`, `EverySessionExhaustsTheHeap`, `BootCompletes`,
`EndPowersOff`, `DateIsRead`, `TreeIsRead`), which is out of the prover's reach. Every invariant, action property and refinement that a
passing run checks is proved.

## 5. What was found

- `editor_handle_key` obeys Ctrl+Z before it looks at the mode. An undo while
  results are shown shortens a line under its result, and the next repaint
  fails the assertion of `Line_at`: three keys stop the machine
  (`editor_stale_search`).
- `ball_check_collision` counts one pixel too many on the right of a platform,
  and the correction comes after the ball was limited to the arena: the ball
  can be at x = 141 in an arena of width 150 (`game_wall`). For the same
  reason a ball that is wedged between a platform and the right wall is lifted on
  top of the platform (`OnTopOnlyIfWedged` names exactly this exception).
- `editor_join_line` does not scroll, and one call of `editor_move_cursor`
  scrolls in one direction only (`CursorHiddenOnlyBy`). With a single row there is a third way: RETURN, RETURN,
  four times Z, UP, BACKSPACE, DOWN, four times RIGHT, Ctrl+Z hides the cursor in a window of two columns.
- The undo of an inserted space deletes four if they look like a tab, and the
  older history entries then point to the wrong places (`UndoRestores` states exactly when).

- An undo under results that are still exact may scroll the view so that a cell of the search bar gets
  the glyph of a result, which it does not show: the cell is written
  twice, is not marked, and the device keeps the letter before (in a window of four columns: X, Y, X, Y, Z,
  BACKSPACE, three times LEFT, ESCAPE, X, Y, RETURN, Ctrl+Z). After two fonts found no room, cells that
  differ only in their font are not told apart. These are the exceptions in `ScreenShowsText`.
- `framebuffer_putch` does not test its coordinates. After a join the cursor may be two
  windows right of the view (in a window of two columns: TAB, RETURN, Ctrl+Z), and the highlighted cell is written past the frame buffer.
- `kfree` gives nothing back and a clearing allocates everything again, so every
  session that lasts exhausts the heap: it ends in a failed assertion
  or in fonts at address 0 (`EverySessionExhaustsTheHeap`).
- `_copyvm` tests `page[i] | PTE_P`, which is always true, drops the pages it makes, and
  gives the copy no kernel entries and no `PTE_P`: the copy starts out empty, loses a page for
  each word and later its root (`OnlyCopiesLosePages`), and a context made before its first `map` keeps
  that root (`SpaceCanRun`). `krnl_addrof` reads `as->ptr` without masking its flags; it has no caller.
- Two processors that halt at the same time may reset each other before either powers
  the machine off (`EndPowersOff` excludes exactly this).
- If two ticks fall into one pass of `wait_sec`, the minute read with a
  second may belong to another one, and the estimated frequency is up to 61 times too small.
  Ticks six reads apart are enough, two passes of three reads, five are not. And a wait of an hour or more
  for the second would be subtracted away (`MaxElapsed`).
- The calculator prints a negative sum wrong if and only if its last digit is zero,
  or both operands are negative and a column carries (`PrintsSumAndProduct`): `5 -15`
  prints `-/0`, `-9 -9` prints `-/8`, `-10 -10` prints `0`.
- The shell counts `.` and `..` as files and reads no entries for them, so
  `/a/./b` is not found, nor is `//a`. A directory whose chain goes round, or that contains
  itself, is read for ever; a chain that leads behind the data may end the program (`TreeIsRead`). If the root directory is smaller than a
  cluster, the last cluster is taken for an end mark (`CountsAllClusters`). An empty
  line, and `cat` alone, read the string at NULL.


## 6. Plan, and what is not modelled

Modelled: `Editor`, `EditorUndo`, `Game`, `Stairs`, `Screen`, `KVector`, `VectorSpec`,
`Vme`, `AddressSpace`, `Mpe`, `Clock`, `Fat12`, `Decimal`, each with its runs. Proved: every
safety property and every refinement of them that holds. What could be added: the columns of `ls -l` and a bound on its
path buffer in `Fat12`, and what a caller may do with an address space after `unprotect` in `Vme`.

Not modelled:

- interrupts and contexts (`cte.c`, `*.S`): nothing calls `cte_init`, and what a
  handler may do would be invented;
- `int64.c`: 64-bit division taken over from compiler-rt, arithmetic beyond what
  TLC can enumerate;
- the boot loader: straight-line code, but for the stack its copies on
  several processors share, which is part of `Mpe`;
- drawing in `arena.c` and `video.c`, the tables of the keyboard, the serial port
  and the disk: input and output without a state that a later step depends on;
- formatted output and input (`stdio.c`): `printf` only writes messages,
  `sscanf` and `snprintf` have no caller;
- in `lab2`, the columns of `ls -l`, the 256 bytes of its path buffer, and the
  splitting of the input line.
