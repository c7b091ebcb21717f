# A TLA+ model of yuv_os

yuv_os is a 64-bit hobby kernel in C++ (`src/kernel`). A boot loader hands
control to `boot.s`, which builds page tables, enters long mode and masks all
interrupt lines. `_init` runs the global constructors (screen, serial port), and
`kernel_main` (`kernel.cpp`) loads the segment table, turns interrupts on, reads
the boot information, writes to the text screen, starts the page allocator, logs
to the serial port and returns; `boot.s` calls `__cxa_finalize` and halts. From
then on only interrupt handlers run. There is one CPU and no scheduler: the concurrency is that of the
kernel thread, nested interrupt handlers and the devices.

This directory holds TLA+ modules for the parts of the kernel that keep state,
TLC configurations that check them on small instances, and TLAPS proofs of the
most important invariants for every value of the constants. `PROJECT.json` lists
components, runs, mutants, the map from definitions to source lines, hazards,
findings and theorems.

## Inventory

| Component | State | Operations | Interacts with | What makes it correct | Module |
|---|---|---|---|---|---|
| Interrupt controllers (`interrupts/pic.*`) | mask, request and in-service registers of two 8259s | `remap`, `unmask`, (`mask`, no caller) | devices latch edges at any time; the CPU acknowledges; handlers send EOI | remap keeps the masks; lines in use stay open | `Pic` |
| Interrupt set-up and handlers (`interrupts/interrupts.*`, `irq_handlers/`) | IDT, interrupt flag, stack frames, timer reload, keyboard buffer | `init_interrupts`, `timer_phase`, six handlers, `pic_EOI` | controllers, screen, panic | every request has a gate; an EOI dismisses its own line; keys echoed once, in order; a pending interrupt is served | `Interrupts` |
| Panic (`panic.*`) | none; never returns | `kernel_panic` | handlers, assertions | the panicking context never continues | in `Interrupts`, `PageAllocator` |
| Text screen (`utils/video.*`) | video memory, colour, ring of row cursors | `putc`, `new_line`, `del_line`, `clear`, `set_color` | kernel thread and keyboard handler, unlocked | no write outside the page; behaves as a terminal | `Video`, `Terminal` |
| Kernel thread against the keyboard handler (`kernel.cpp`) | the shared screen | `clear`, `set_color`, `putc` access by access | keyboard handler between any two accesses | bounds survive the races | `Console` |
| Page allocator (`memory/paging.*`, `dumb_allocator.*`) | bitmap, its storage, kernel base | `paging_init`, `alloc_page`, `free_page` | callers hold pages | no page granted twice, none lost, none outside the machine | `PageAllocator` |
| Dynamic bitset (`utils/datastructs/dynamic_bitset.h`) | words and a bit count | constructor, `first_clear`, `has_zero`, bit `set`/`clear` | allocator | what `first_clear` returns and when it asserts | `DynamicBitset` |
| Page list (`memory/page_list.*`) | head, tail, links in the pages | `insert_first`, `pop`, `unlink` | buddy allocator (unused) | both chains agree; no fault inside the list | `PageList` |
| Destructor table (`icxxabi.*`) | table of functions, count | `__cxa_atexit`, `__cxa_finalize` | destructors may register others | destroys what is due, in reverse order | `Atexit` |
| Boot information (`multiboot/`) | a pointer into the loader's tags | `boot_info`, `parse_tag_type` | loader's memory | stays on tag boundaries, ends, reports the right tags | `Multiboot` |
| Boot code (`boot/boot.s`, `linker.ld`) | page tables, paging bit, descriptor table register | straight-line | everything | code, stack and descriptors are mapped whenever the CPU needs them | `Startup` |
| Kernel thread's start (`kernel.cpp`) | its place, whether interrupts are on | the calls of `kernel_main` in order, the early return | all of the above and below | it ends, whatever the loader and the port do | `Startup` |
| Segment table (`memory/gdt.*`) | six descriptors | `init_gdt`, `_load_gdt`, `_reload_segments` | CPU | right descriptors behind the selectors, before interrupts | `Startup` |
| Serial port (`utils/serial.*`) | UART registers, `is_valid` | constructor with loopback test, `putc` | kernel thread and exception handlers; the UART sends in parallel | the wire carries what was logged; polls end | `Serial` |
| Formatted printing (`utils/printf.*`) | position in the format, next argument | `vprintf`, `itos`, `utos`, `itox`, `itob` | screen, serial | output is what the format means; no access outside format and buffer | `Printf` |
| Buddy allocator, page-table entry types, strings, containers | templates, declarations and one-liners | | nothing instantiates or calls them | | not modelled |

What is hard to test here: an interrupt between any two instructions; edges
latched before and while the controllers are re-initialised; interrupts nested
over a panicking handler; memory nobody cleared (the bitmap, a gate's `ist` bits,
the `BootInfo` object); a full bitmap, screen row or destructor table; values cut
to a byte by a port write or to an `int` by a conversion; operator precedence in
the ring of cursors; a polled device that answers late or never; a descriptor
table whose memory is unmapped under it.
`PROJECT.json` lists each at its line under `hazards`.

## Modules

### Pic, Interrupts

`Pic` has the two 8259 controllers as records (mask, latched requests, lines in
service, the initialisation word expected next, vector base) with their
behaviour on `outb`/`inb`, `latch`, `acknowledge` and priority, and the driver:
`remap_writes` is the list of port writes of `remap`, and `unmask` its
read-modify-write. The controllers are hardware and are marked external; the
driver is translated.

`Interrupts` composes them with the CPU. `pc` walks through `init_interrupts`:
register the gates, save the masks, each port write of `remap`, unmask timer and
keyboard, program the timer, load the IDT, `sti`. Devices (`Raise`, `KeyPress`)
may latch an edge between any two of these steps. `Deliver` is the CPU taking a
request, `Fault` an exception in kernel code: in the thread at any step, set-up
included, or in a handler that prints and panics (`Panicking`), one over the other
up to `MaxFrames` frames. Both go through `Enter`, which
pushes a frame, clears the flag for interrupt gates and turns a missing gate into
a double fault; without a loaded IDT it is a reset. `handle_timer` and `handle_keyboard` are one step each, EOI and
`iretq` included, as their gates turn interrupts off and nothing in their bodies
raises an exception. The exception handlers end
in `kernel_panic` and therefore have no action: their frame stays on the stack,
with interrupts on, because exceptions use trap gates.

`gate_descriptor_t`'s constructor (`interrupts.h:34`) leaves `ist` unset. The
gates are all built in one stack slot, so `ist` is one value, chosen from
`Garbage` at `register`. As the kernel has no task state segment, a non-zero
value makes every entry fault, the double fault's too: the CPU resets.

### Video, Terminal, Console

`Video` is the `Video` class with one call per step. The record `screen` has the
cells, the colour and the ring `pos` with `pos_head`. `del_line` computes
`pos_head + 1 % VGA_HEIGHT`, which never wraps; `POS_CALC_INDX` reduces it at
every use, and `MaxHead` bounds it for TLC. `stray` records a write outside the
page. `Terminal` is the abstract specification, a stack of lines of typed
entries. `IsTerminal` is the refinement: each row of the page cut at its cursor
is a line.

`Console` runs the kernel thread's `clear`, `set_color` and `putc` one memory
access at a time, since the keyboard handler can interrupt them anywhere and
there is no lock: the loop of `clear` and the `memset` behind it cell by cell, the
copy of a scrolled cell as a load and a store. `memset` goes byte by byte; as a
cursor is below 256, clearing its first byte clears it. `ghost` is the screen that
atomic calls would have given, `touched` says that a key fell inside a call,
`raced` that it fell where it can spoil `putc`'s test of the cursor (`Races`).
There are two such windows in `putc`'s default case. In the first, the row is known
to have room, by the test or because `new_line` has reset the cursor, and the
cursor has not been loaded yet. In the second, the thread has computed an index of
the ring for the test or for the reset and not used it yet, and the key turns the
ring, so that the index is another row's.

### DynamicBitset, PageAllocator

The bitset has the record of bit count and words, `first_clear` word by word as
in the code, `has_zero` with its different loop bound and its test of a last word,
and the setters through a reference to word and bit. `PageAllocator`
is `paging_init`, `alloc_page` and `free_page` over it. Nothing clears the
bitmap, so its first contents are a nondeterministic choice (`garbage`).
`holders` counts the callers of each page; callers free only what they hold.

### Atexit, PageList

`Atexit`: registration and both loops of `__cxa_finalize`, one entry per step, so
that destructors register others in between. `PageList`: the three operations
with their null-pointer writes, which fault because `boot.s` unmaps address 0.
`order` is the list itself; `Without(k)` is it without its place `k`.

### Multiboot, Serial, Startup

`Startup` is the whole way from `_start` to the halt loop, with one action per
stage of `boot.s` and per call of `kernel_main`; `at` is the thread's place. It
EXTENDS the two components that do their work on the way:

- `Multiboot`: one turn of the tag loop per step, over every list of tags a
  loader may leave.
- `Serial`: the eleven port accesses of `SerialPort`'s constructor, one per step,
  and `putc`. The UART is external: registers, the divisor latch behind bit 7 of
  line control, loopback mode, and `Transmit`, which sends the byte in the
  holding register at any later time. It has one byte of room, the worst case for
  an overrun. An absent port reads as ones, so that polls pass at once; a stuck
  one never becomes ready. The constructor does not wait for its test byte, so
  both outcomes of the read exist.

Memory is "low" or "high"; `tables` has which entries of `PML4` and `PDPT` are
present, `gdtr` which table is in force and in which half its address lies.
Descriptors are an access byte and flags, built by `gdt_entry_access_t` and
`gdt_entry_t` or copied from `boot.s`, and judged by what the CPU demands of
them. `Exception` may come at any place once interrupts are on (a stray line is
enough), also while a handler prints or sits in its panic: the gates leave
interrupts on. The new handler prints its own frame through the same `putc` and
panics; as no handler returns, only the newest one goes on. `MaxExceptions` bounds
their number. `init_interrupts`,
the screen calls, `paging_init` and `__cxa_finalize` are single steps here and
have their own modules. Messages are two bytes long.

### Printf

A call is a list of tokens, texts and directives with their arguments and
paddings. `Spelling` turns it into the format string, on which `vprintf` runs:
`text` is a turn of the inner loop, `directive` everything from a `%` to the next
turn. A conversion's result is the function of the indices it stores to, which
may leave the buffer. `Meaning` is the reference: what a token stands for.
`Ambiguous` calls, in which text reads as the padding of the directive before it,
are excluded from the comparison. The stores of a conversion are laid over each
other with `Over`, the last on top, and `ReadDecimal` is the loop that reads a
padding. It accumulates in a `uint32_t` and is passed on as an `int`, which
`Signed` models; calls ask only for paddings that are an `int`, as a wider one
wraps and has no meaning to compare with.

## Runs

| Run | Instance | Distinct states | Shows |
|---|---|---|---|
| `interrupts` | device lines 0, 4, 5, 8; scancodes 30, 31, 128, 158; faults 0, 6, 14; `ist` 0 or 1; 2 keys pressed; `MaxFrames` 3 | 161 320 | see below |
| `irq_lines_open` | the same | | finding 1 |
| `timer_rate` | the same | | finding 2 |
| `video` | 2x3 screen, one glyph and the blank, one colour, `MaxHead` 7 | 21 696 | cursors in their rows, blanks past them, refinement of `Terminal` |
| `console` | 2x2 screen, 5 characters, 3 keys, `MaxHead` 5 | about 2.0 million | races of thread and handler |
| `pages` | 128 pages, six positions that may be clear | 896 | exclusive grants, none lost, bitmap owned |
| `pages_tail` | 70 pages | | finding 3 |
| `atexit` | 2 functions, table of 3, 3 calls | 16 007 | order, completeness, unset entries stay dead |
| `atexit_once` | the same | | finding 4 |
| `pagelist` | 4 pages | 3 263 | both chains consistent, inner operations safe |
| `startup` | sizes 8, 16, 20; up to 3 tags; a working, an absent, a stuck port; 2 exceptions | 688 844 | mapped code and descriptors, tag walk, wire equals log, panic and halt reached |
| `printf` | 6-bit words, 5-bit `int`, buffer of 13; words 0, 1, 24, 32, 40, 63; paddings 0, 3, 6, 10, 11, 13; 2 tokens | 338 425 | output means what the format says; format and buffer bounds |

**interrupts** checks that once interrupts are on the timer and keyboard are
never masked (`ServedLinesOpen`); that a raised request has a gate, apart from
the lines the handlers' own EOI opens (`NoStrayVector`); that the lines in
service are those the stack's frames serve (`InService`); that, once the IDT
is loaded, nothing but the unset `ist` bits ends in a reset (`NoTripleFault`); that make codes are echoed
once and in order (`EchoInOrder`); that a scancode in the buffer has its edge
latched or in service once a key has been echoed (`KeyPending`); and that a latched tick or key is served, even
over a panic (`InterruptsServed`). The lines cover the timer, a line the EOI
opens (4), the one it closes (5) and one of the slave (8). The scancodes are two
make codes, a break code and the boundary 128; the faults one with a gate, one
without and the page fault. Two presses of two different keys suffice to see a
loss, a duplicate or a swap; the buffer holds one. Three frames are a device's
interrupt over a panic over a panic.

**video**: width 2 reaches the full row, and three rows tell the ring's two
directions apart (with two rows they coincide). `MaxHead` lets `pos_head` pass
the ring twice. **console**: with 2x2 cells and five characters the text wraps
and scrolls; three keys are enough for one inside each of several parts of a call.
`CallsAtomic` speaks only of calls without a key inside; what the page shows after
such a key is not stated, its bounds are (`CursorSafe`).
**pages**: the clearable positions lie at both ends of both words and in the word
behind the bitmap. `HasZeroExact` compares `has_zero` with the bits themselves.

**startup**: `MachineAlive` says that the code of every place is mapped when the
thread arrives and that the descriptor table is readable and right whenever
segments are loaded or an interrupt can come; between `unmap_low` and `init_gdt`
it is neither. `WireIsLog`: with `is_valid`, the bytes sent and the one in the
holding register are the bytes logged, also when exceptions break into a
message or into each other's. `ReportsLast` speaks of all tags and exempts a type
whose only tag is the first, which the code loses; `OnATag` says that the walk
stays on tags (sizes include the smallest, an aligned and an unaligned one).
`PanicReached` and `StartupEnds` are about termination: the newest handler gets
through its printing unless the port is stuck, as long as exceptions do not come
for ever, and the thread reaches its halt loop even then, because it prints only
through a port that has passed the loopback test.

**printf**: `FormatFollowed` says that a call that returns has printed what it
means *if and only if* all its numbers are printable; `Printable` has the exact
exceptions. `ReadsInFormat` and `BufferKept` bound the accesses, the latter again
with the exact cases. The widths are scaled so that words have more bits
than their `int` copy holds, as in the code, and a full binary word with its
prefix fits the buffer; the words are zero, one, one whose `int` is negative, the
least integer (its `int` is zero), one that comes out short by exactly the two
characters of the prefix, and all ones.
Two tokens reach every pair of a directive and what follows it.

No symmetry is used, and deadlock is checked in every passing run:
`Finished`, `Panicking`, `Halted`, `Ended`, `Idle`, `Poll` and `Off` are explicit
steps of states in which the program has stopped or spins. `MaxKeys`, `MaxHead`,
`MaxText`, `MaxCalls`, `MaxTags`, `MaxFrames`, `MaxExceptions` and `MaxTokens` are
bounds.

### Fairness

`Interrupts` assumes weak fairness of the kernel thread, of the two handlers and
of delivery of line 0, the highest priority: the CPU executes instructions and
takes an enabled request. Delivery of line 1 gets strong fairness, because a tick
disables it again and again. This is a fact of the controller only if ticks leave
room, so `InterruptsServed` has the hypothesis `TimerLeavesRoom`: again and again
no tick is waiting or in service. A timer at 88 Hz leaves it. Devices and faults
have no fairness. `Startup` assumes weak fairness of the thread, of a handler's
printing (both are executed by the CPU; a poll that is not satisfied is no
progress) and of a working UART's `Transmit`; an exception need never come, and by
`MaxExceptions` they stop coming.

## Findings

1. `irq_lines_open`. `pic_EOI` compares the vector, not the line, with 8, and
   sends the EOI byte to port 0x21, the master's mask register. The first tick or
   key thus replaces the mask by 0x20 and opens every line but 5, most of which
   have no gate: an edge there ends in the double fault's panic. The slave never
   gets an EOI. `boot.s` says all lines are disabled and `init_interrupts` opens
   two.
2. `timer_rate`. For 1 Hz the divisor 1193180 does not fit the timer's two bytes
   and becomes 13532, about 88 Hz.
3. `pages_tail`. With a page count that does not fill its last word, a full set
   yields an index past the end instead of failing the assertion.
4. `atexit_once`. A second `__cxa_finalize(NULL)` runs every destructor again;
   the comment beside the code says repeated calls should not.

Further facts met while modelling, stated by the passing properties:

- Without the hypothesis `~raced`, `CursorSafe` fails: a key between `putc`'s test
  of the cursor and its load moves the cursor past its row, the equality test never
  catches it again, and writes run past video memory. A key that turns the ring
  just before the test does the same, since the thread then tests another row.
- `BitmapOwned` needs a page count that fills its words or nearly: the
  constructor rounds `bitcount / 8` *down* before rounding up, so that a count
  with remainder 1 to 7 modulo 64 leaves its last word unallocated.
- A key pressed before `remap`'s first word loses its latched edge. The scancode
  stays in the buffer and the keyboard raises no other: `EchoInOrder` holds, but
  nothing is ever echoed. `KeyPending` says that this is the only way to get there.
- `boot_info` steps over the first tag without parsing it, and leaves `meminfo`
  uninitialised if there is no other of its type: `ReportsLast` claims nothing
  there.
- `PageList`'s `pop` faults on the last page, `unlink` on either end.
- With a stuck port an exception handler polls forever in `print_frame` and never
  panics; a UART slower than the two accesses of the loopback test counts as
  broken, `kernel_main` returns -1, and the test byte goes out on the wire.
- `%d` of the least integer prints `-`; `%b` of zero prints `0b` without a digit,
  and with a padding two digits too few; `%b` without padding of a number of more
  than 31 bits starts below its place and, from three missing digits on, below the
  buffer. `%b.:64`, the only use in the kernel, is right for every number but
  zero. A format that ends in `%` is read past its end.
- `has_zero` tests a word behind the set for counts with remainder 2 to 63.
- `kernel_main` adds 0x120 pages for the first megabyte, 32 too many, and nothing
  marks the kernel's own pages as taken; `alloc_page` has no caller yet.

## Proofs

TLAPS checks these for every value of the constants that satisfies the module's
named assumption. Each theorem has the form `Spec => []P` or `Spec => P`, with `P`
a property of a run.

**InterruptsProofs** (from `InterruptsAssumption`: lines, scancodes, faults and
`ist` values are in their ranges, `Hz` is positive). The inductive invariant
`IInv` conjoins `TypeOK`, `InService` and `NoTripleFault` with: no request on the
cascade line is latched in the master by itself; what the controllers and saved
masks hold at each point of `remap` (`Initialising`); which lines are open from
there on (`Opened`); the gates present and the IDT loaded before a frame is pushed,
and no device served before interrupts are on (`GatesReady`); which line a frame of each handler may carry (`DeviceFrames`);
and how frames may nest (`Nested`). `InService` alone is not inductive. A
handler's non-specific EOI dismisses the *highest-priority* line in service, and
to know that this is its own one needs the priorities of the frames below it,
which is what `Nested` says; the argument that `pic_EOI`'s mask write leaves
lines 0 and 1 open needs `Opened`. Theorems: `TypeCorrect`, `LinesStayOpen`,
`ServiceMatchesStack`, `OnlyGarbageResets`.

The second part of the module builds another invariant, `DInv`, on `IInv`.
`Masks` follows vectors, masks and the slave's expected word through the ten
writes of `remap` up to the two values the master's mask can have afterwards (252,
and 0x20 after an EOI); with the slave masked, only the master's lines 0 and 1 or
those the EOI opened can be raised. `KeyLine` says that line 1 is latched or in
service, never both, and only while the keyboard's buffer is full: the handler
then always finds its scancode, and the next edge can only come after the read.
Theorems: `VectorsHaveGates` (`NoStrayVector`), `KeysEchoInOrder`
(`EchoInOrder`), `KeysAnnounced` (`KeyPending`).

**VideoProofs** (from `VideoAssumption`: positive width and height, the control
characters are no glyphs). Each method preserves "every cursor is at most
`VGA_WIDTH` and nothing was written outside", for any `pos_head`, and with it
"past its cursor a row is blank". The refinement needs both: a line of the
abstract terminal is a row cut at its cursor, so that a scroll, which moves the
rows and turns the ring of cursors, must move both alike (`NewLineScrolls`,
`DelLineScrolls`, `WriteLines`). Theorems:
`TypeCorrect`, `CursorsInRows`, `RowsEnd` (`RowExtents`), `ImplementsTerminal`
(the refinement `IsTerminal`).

**ConsoleProofs** (from `VideoAssumption` and `ConsoleAssumption`) extends
VideoProofs. `CInv` bounds the loop counter and says what the thread relies on
from one access to the next (`Tested`: the slot it holds is the cursor's where it
is tested or reset, the cursor is below the width from there to its load), all of
it only while `~raced`: `CursorSafe` alone says nothing of a thread stopped between its test and
its store. `AInv` adds `Settled`: while no key has touched the call, `ghost` is
the outcome of running the rest of the call from where the thread is, so the
screen at the end equals it. `Scrolled`, `Blanked` and `Typed` are those rests,
as functions of the loop counter, `memset`'s and the half-copied cell included.
Theorems: `SharedScreenTyped`
(`ConsoleTypeOK`), `OnlyRacesEscape` (`CursorSafe`), `AccessesAddUp`
(`CallsAtomic`). The proof attempt corrected the model: `del_line`'s scroll loop
makes no turn on a page of one row, where the model's had made one.

**PageAllocatorProofs** (from `PageAllocatorAssumption`: natural numbers only).
`IInv` adds to `TypeOK` and `ExclusiveGrant`: a held page's bit is one; a bit that
is one is held or was one at boot; after a panic the visited words are full.
Exclusive grants need the first, `NothingLost` the other two. Theorems:
`TypeCorrect`, `Exclusive`, `NoneLost`, `HasZeroTells` (`HasZeroExact`), and
three with a hypothesis on `PageCount` that the code needs: `InRange` and
`NoGrantWhenFull` (`FullSetPanics`) if it fills its words, finding 3 being the
reason, and `WritesOwnWords` (`BitmapOwned`) if its last word does not have one
to seven bits, the constructor's rounding being the reason.

**AtexitProofs** (from `AtexitAssumption`). `IInv` adds to the properties where
the loop is (`Loop`), what each record of the history says of the table
(`Records`: made in this call, it lies behind the loop; made for a function, its
entry is unset) and `Progress`: of the entries behind the loop exactly the due
ones are destroyed, and of those before it exactly the due ones would still be
selected. `DestroysWhatIsDue` speaks only of the end of a call and follows from
`Progress` at 0. Theorems: `TypeCorrect`, `LastFirst` (`ReverseOrder`),
`ExactlyTheDue` (`DestroysWhatIsDue`), `DestroyedForGood` (`UnsetIsFinal`).

**PageListProofs** (from `PageListAssumption`: `nullptr` is no page). `LInv`: a
page is in the list once, and, as long as nothing has halted, head, tail and the
links of neighbours are those of `order` (`Chain`). `Linked` alone does not say
that a page occurs once, without which a write to one page's link could break
another place of the chain. Theorems: `ChainsAgree` (`Linked`), `InnerSafe`
(`InnerOperationsSafe`).

**StartupProofs** (from `MultibootAssumption`, `SerialAssumption` and
`StartupAssumption`: any tags, any of the three kinds of port, any number of
exceptions; the messages are `Startup`'s own). `MachineAlive`
alone is not inductive: that the low half is still mapped at `boot_segments`, or
that the table in force is the kernel's when interrupts come on, follows from
where the thread has been. `Placed` says what each place implies of the paging
bit, the tables and the table register, and `TablesRight` that the descriptors
computed by `gdt_entry_access_t` are what the CPU demands. `WireIsLog` needs
`WInv`: what line control and modem control hold after each access of the
constructor (`Programmed`), where the test byte can be (`TestByte`: it is received
only when it has left the holding register), what a passed test implies
(`Tested`: the port works and, at the last access, which ends loopback mode, the
holding register is empty), and that the port is used only once constructed
(`Using`). The walk over the tags needs facts about the recursive function
`Offset`, which the library's induction theorems cannot give, as they take an
operator. `SetInduction` states induction for a set instead, and follows from the
well-foundedness of `<`; from it come that `Offset` is the function its definition
describes (`OffsetDef`) and that offsets grow (`OffsetsGrow`), so that no two tags
start at one (`TagThere`). `Walked` then says that the pointer is at the offset
of some tag `k` and that the last tags of each type up to `k` are reported.
Theorems: `NeverLost` (`MachineAlive`), `WireFaithful` (`WireIsLog`), `WalkOnTags`
(`OnATag`), `LastTagsReported` (`ReportsLast`), `StartupTyped` (`TypeOK`).

**PrintfProofs** (from `PrintfAssumption`: an `int` is no wider than a word, the
buffer takes a word in binary and a pointer with their prefix and final zero,
words have `W` bits, no padding is beyond an `int`; in the code 64, 32, 128 and 16).
`PaddingInt` says that such a padding survives its conversion. Two
inductive invariants:

- `ParseInv`: the position is `Outside` of every directive, its padding included: at
  the start of a token or inside a text. `ReadsInFormat` alone is not
  inductive: from the middle of a directive the parse could run past the end. It
  holds for `Ambiguous` calls too, in which the parse takes text for a padding.
- `FollowInv`, for calls that are not ambiguous: until the call ends, the position
  is `r` characters into some token `k` (`AlignedAt`), as many arguments have been
  taken as the tokens before `k` pass, the output is what those tokens print and
  `r` characters of the text, and none of them overran the buffer. `FormatFollowed`
  and `BufferKept` speak only of the end of a call and follow from `k` being behind
  the last token.

Underneath are lemmas about the operators. All recursive definitions are
recursive functions, so `SetInduction` (as in `StartupProofs`) replaces
the library's induction theorems: `FlattenSeq` joins its parts in order (`JoinedIs`,
`JoinedAt`), the digits of a number in each base are those of the quotient and
the remainder (`DigitsOfIs`), there are at most as many as the number has bits
(`CountBound`), and `ReadDecimal` of `Decimal(n)` is `n` (`ReadDecimalOfDecimal`).
A conversion's stores, made in several pieces, are one string from index 0 on
(`StoreOver`, `ItosIs`, `ItoxIs`, `ItobIs`), which for a printable number is its
`Meaning` and for any other is strictly *shorter* (`Shows`): so a call with one
unprintable number cannot print the right text by coincidence
(`JoinedShorter`), which is the "only if" of `FormatFollowed`. Theorems:
`PrintfReadsInFormat`, `PrintfBufferKept`, `PrintfFormatFollowed`.

Only model-checked:

- liveness: `InterruptsServed`, `PanicReached`, `StartupEnds`. Fairness and
  `ENABLED` are out of this prover's reach.
- The findings' counterexamples.

## Not modelled

- `mask`, `set_cursor` and `debug_pos` (no caller), `io_wait`, the bit layout of
  gates, the wording of what is printed.
- In `boot.s`: registers, the stack, the layout of sections below low and high,
  the processor's cached translations. `_load_idt` stores four bytes more than
  `idtr` reserves; what they hit is the linker's choice.
- `gdt_entry_t`'s base and limit, which long mode ignores, and the unused
  `base`, `limit` and `set_base`.
- The bitset's `first_set`, `is_zero` and whole-set `clear` and `set`, the
  page-table entry types and `_load_cr3`: nothing in the running kernel calls
  them.
- The buddy allocator: a template that nothing instantiates, left unfinished
  according to the comment above it. The container templates likewise.
- String and memory functions other than `memset`: stateless one-liners. An
  exception inside the timer's or the keyboard's handler: nothing in their bodies
  causes one.
- `__cxa_finalize`'s call of a destructor and the unset of its entry are one step:
  a destructor that finalises again is left out.
- Video memory outside the visible page: a stray write is recorded, its effect on
  whatever lies there is not.

## Plan

All components with code in the running kernel have a module, and every safety
property of a passing run has a theorem. What could be added when the code
grows:

1. The buddy allocator, once it is instantiated: it would sit on `PageList`, whose
   operations must not fault on a list of one page.
2. A caller of `alloc_page`, and with it the question which pages the bitmap
   should have marked before the first grant.
