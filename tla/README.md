# Verification of the NES emulator

TLA+ models of the emulator in `src/`, TLC configurations that check them on small
instances, and TLAPS proofs of what matters most for every value of the constants.
Line numbers are those of the files under `src/`.

Run a model with `tlc -config <file>.cfg <module>.tla`, a proof with `tlapm <module>.tla`.
`PROJECT.json` lists the runs, the map from definitions to source lines, the hazards, the
findings and the theorems.

## 1. The system

One thread runs everything. `emulator_run()` (`emulator/emulator.c:34`) repeats a frame:
three calls of `ppu_run_cycle()`, one of `cpu_run_cycle()`, until the PPU sets
`frame_complete`; then the front end draws, reads the window's events and waits for the
frame's time. The parts share state through pointers to one `Emulator` structure and call
each other directly.

| Component | State | Operations | Talks to |
|---|---|---|---|
| Frame loop, `emulator.c` | `is_running`, `cur_frame`, time points, frame times | `emulator_init`, `emulator_run`, `handle_sdl`, `synchronize_frames` | calls PPU, CPU, SDL, timer; clears `frame_complete`, `total_cycles` |
| PPU timing, `ppu.c:49-158` | `cur_dot`, `cur_scanline`, `cycle_counter`, `frame_complete`, `status.vblank` | `ppu_run_cycle` | posts the NMI in the CPU, reads `cur_frame` |
| PPU register port, `ppu.c:218-347` | `ctrl`, `vram_addr`, `temp_addr`, `write_latch`, `fine_x`, read buffer, `vram`, `palette` | `ppu_set_ctrl`, `ppu_read_status`, `ppu_set_scroll`, `ppu_set_vram_addr`, `ppu_write_vram_data`, `ppu_read_vram_data` | called by `mem_write_8`/`mem_read_8`; calls the mapper for CHR |
| PPU scrolling, `ppu.c:370-421` | the same `vram_addr`, `temp_addr` | increments and reloads at fixed dots | shares both registers with the port |
| PPU background tiles, `ppu.c:423-436, 482-539` | next-tile latches, four shifters | fetches every two dots, shifts every dot | reads `vram_addr`, VRAM, CHR |
| PPU sprites, `ppu.c:160-214, 438-451, 541-601` | `oam`, `sprite_scanline`, sprite shifters, zero-hit flags | evaluation, fetch, counters, pixel priority | OAM is written by `$2004` and the DMA |
| OAM port, `ppu.c:349-365`, `mem.c:35-41` | `oam`, `oam_addr` | `ppu_dma`, `$2003`, `$2004` | steals CPU cycles (`dma_cycles`), reads CPU memory |
| CPU, `cpu.c`, `opcodes.h` | registers, flags, `cycles`, `dma_cycles`, `total_cycles`, `pending_interrupt` | `cpu_run_cycle`, `cpu_set_interrupt`, one function per instruction and addressing mode | memory map |
| Memory map, `mem.c` | `ram`, `cartridge_ram`, controller shift register | `mem_read_8`, `mem_write_8`, 16-bit and stack helpers | PPU port, controller, mapper |
| Mapper, `mapper.c` | PRG/CHR pointers, mirroring map | `mapper_init`, `set_mirroring`, NROM reads and writes | memory map, PPU |
| Host input, `dev/sdl-instance.c:92-138` | SDL's event queue and keyboard | `sdl_poll_events`, `sdl_window_quit` | the ROM (through `$4014`, `$4016`) and the frame loop drain the same queue |
| Timer, `timer.c` | time points | `get_time_point`, `get_elapsed_us`, `sleep_us` | frame loop |
| Board drivers, `dtekv-drivers/` | pad shift register, latch and clock pins, VGA memory | `input_latch`, `input_read`, `vga_screen_put_pixel` | memory map, PPU |
| Debug views, entry, start-up | none of their own | drawing, logging, loading the ROM | read-only |

### What is hard here

There are no threads, locks or messages; the difficulty is timing. Two chips and a ROM
share registers, and the ROM may touch any of them at any instruction boundary, at any
dot. The hazards of `PROJECT.json` are of these kinds:

* **Interleaving and ordering.** `$2002` clears the flag the beam sets; `$2005`/`$2006`
  write into the address registers the beam is using; a mask or DMA write lands in the
  middle of a line; the loop condition is read only after the CPU's cycle, so one or two
  dots of the next frame have already run.
* **Single slots and accumulators.** One pending interrupt; `dma_cycles` added to while it
  drains; one event queue with two readers; a shift register read once too often.
* **Sequences of legal steps.** A carry from one opcode to the next, a return address under
  three interrupts, tiles fetched while the last ones are shifted out.
* **Boundaries.** The skipped dot of odd frames, the wraps of coarse x and y, the DMA's
  two copies, the last byte of a nametable, the ninth sprite.
* **Liveness.** Every frame must end whatever the CPU owes, an NMI must be taken, a close
  request must be heard.

### What makes each component correct

* *Frame loop and PPU timing*: the counters stay in step; one iteration is one frame; an
  NMI is never lost and is taken within the vblank that raised it; frames recur.
* *Register port*: a nametable byte is found where it was written; palette mirrors agree;
  the latch and address registers keep their widths under any access order.
* *Scrolling*: line *n* shows row *n* below the scroll position, tiles in column order.
* *Sprites*: each pixel, and the zero hit, is what OAM says it should be.
* *OAM port*: a DMA is one rotation of the page, and cannot hold the CPU for ever.
* *Host input*: a game reads the keyboard as it was at the latch; a close request is heard.
* *Background tiles*: each pixel is the one memory names at the scrolled column; together
  with scrolling, the picture is a rectangle of the plane of the four nametables.
* *CPU*: arithmetic over several bytes and the order a branch sees are those of the
  numbers meant; every call and interrupt finds its way back, whatever comes on top of it;
  each instruction costs what the frame loop assumes.
* *Mapper*: the header's fields select banks and mirroring; PRG is seen where the CPU runs it.

## 2. The modules

| Module | Models | Abstracts |
|---|---|---|
| `VblankProtocol` | what a game is promised: render, vblank, pre-render, present | dots and cycles |
| `FrameLoop` | `emulator_run`, `ppu_run_cycle` (timing), `cpu_run_cycle` (cycles, DMA, NMI) | instructions: any length, at most one register access, the registers being those that touch timing |
| `FrameLoopProofs` | theorems about `FrameLoop` | |
| `VramPort` | the register port, CHR/nametable/palette memory, mirroring | bytes from small sets; memories hold written cells only |
| `Scroll` | `vram_addr`/`temp_addr` against the beam and the ROM | dots at which nothing can happen; `fine_x`, which never meets the address (it is in `VramPort`) |
| `ScrollProofs`, `Arithmetic` | theorems about `Scroll`; quotients and remainders | |
| `Sprites`, `MCSprites` | evaluation, fetch, counters, shifters, priority, zero hit, both heights | background is any pixel; palette number folded into the sprite; CHR does not change |
| `SpritesProofs` | theorems about `Sprites` | |
| `Background`, `MCBackground` | `Scroll` dot by dot, with the tile fetches, latches, shifters and the tap at `fine_x` | the four shifters as one sequence of pixels; VRAM and CHR as functions, which nothing writes while lines are drawn |
| `BackgroundProofs` | theorems about `Background` | |
| `OamPort` | `$2003`, `$2004`, both copies of the DMA | OAM size is a constant |
| `HostInput` | event queue, keyboard, shift register, both readers | which key is which SDL event |
| `IoPage` | `OamPort` and `HostInput` together: a write to `$4014` is a DMA and a latch | |
| `PortProofs` | theorems about `OamPort`, the page and its controller, and `VramPort` | |
| `Mapper` | the iNES header, mirroring, NROM's PRG and CHR | the file is a function, its header bytes are constants |
| `Alu` | every opcode on data, legal and illegal, with its flags | byte width is a constant; the status register is a set |
| `DataPath` | a ROM running any of those opcodes in any order | addresses: the operand may be any byte |
| `DataPathProofs` | theorems about the arithmetic of a byte, the opcodes, and `DataPath` | |
| `Cpu`, `MCCpu` | `cpu_run_cycle` at an instruction boundary: interrupt entry, fetch, addressing modes, stack, branches, memory map, exits | memories hold the cells written so far; I/O reads return any byte of a set; the ROM and `instruction_lookup` are constants |
| `CpuProofs` | theorems about `Cpu` | |

**FrameLoop** has the program counter of `emulator_run()` in `at`: `ppu1`, `ppu2`, `ppu3`,
`cpu`, `end`. `ppu_run_cycle` is one action (vblank events, then the counters, in the order
of the code); `cpu_run_cycle` is the disjunction of waiting for a DMA, waiting for an
instruction, and executing one. An execution takes the pending NMI first, charges
`cycles`, and touches at most one register. `FinishFrame` is the rest of the outer loop's
body. `total_cycles` is kept modulo 2, which is all that is read of it. Under the mapping
`Stage`, `FrameLoop` implements `VblankProtocol`: an instruction boundary is the
protocol's `ProgramLooks`, the dots at lines 241 and 261 its stage changes.

**Scroll** counts a line's events: tiles 1 to `Columns` (dots 8, 16, ... 256), the x reload
(dot 257), the y reloads (dots 280 to 304 of line 261) and the two prefetches (dots 328
and 336). Between any two events the ROM may write `$2000`, `$2001`, `$2005`, `$2006` or
access `$2007`, or read `$2002`. `originX` and `originY` remember the last reload, and are
forgotten when the ROM itself moves `vram_addr` or toggles rendering.

**Sprites** follows a line dot by dot. The step of dot 256 includes the evaluation, which
the code makes after it advances the counter; dot 257 then counts the *new* sprites down
once, so a sprite shows one column left of its x (`StartDot`). Lines 240 to 260 evaluate
and fetch but draw nothing, and line 261 fetches again what line 260 found. The height and the pattern table may change
at any dot, also between evaluation and fetch: then, as on line 261, the row fetched may lie
below the sprite, and `ShortAddress` says where the 16-bit address ends up. `seen` is
history: the OAM and the height and table of the last evaluation, forgotten when the mask
has changed since or the other two before the fetch.

**VramPort** keeps registers as integers of the code's widths and follows each access of
`mem.c`. Three history variables are the ROM's author's view, built from the accesses alone
and read by no guard: `half` is the half of an address written so far, `named` the address a
whole pair names and each access to `$2007` moves on, and `shadow` the last byte written
through it to each nametable cell of the console. A read of `$2002` makes the next write the
first of a pair; `$2000` or `$2005` in the middle of a pair spoils it.
After a palette read, which does not move the address (`ppu.c:315`) where an author would move
it, `named` is unknown until the next pair.

`NametableMap` and `HasChrRom` come from **Mapper**, whose constants are the header's
bytes: `mapper_init()` exits for a file it does not support and computes everything else
once, before anything runs.

**OamPort** has one action per access, `ppu_dma` being both `memcpy` calls. The cycles a
DMA steals are in `FrameLoop`. The page is one of `ram`: for any other `ppu_dma` ends the
program (`ppu.c:354-357`), which is `ExecuteExit` in `FrameLoop` and `Exit` in `Cpu`.

**HostInput** lets the user press, release and close at any time. `StrobeWrite` and
`DmaWrite` both call `sdl_poll_events`, `EndFrame` is `handle_sdl` with
`synchronize_frames`.

**IoPage** conjoins the two: `WriteDma == ppu_dma /\ DmaWrite` is the case of `$4014`,
which has no `break` (`mem.c:56-70`), and every other action leaves the other part alone.
It checks the parts' properties in the whole.

**Background** is composed with `Scroll`, which it extends: `line` and `event` are the
beam's, `vram_addr`, `temp_addr`, the latch and the reload history too. An event of a tile is
eight dots here (`phase`), of which the last is `Scroll`'s `Dot`; dot 257 and the dots that
reload y are one each. The dots in between (258 to 320, 337 to 340) and the lines between the
picture and the pre-render line do nothing to the pipeline and are skipped, as `Scroll` skips
them. Within a dot the order is that of the code: shift, load, fetch, move the address, then
draw. A register access is `Scroll`'s action for it and, in the same step, what it does to
`fine_x`, the pattern table or the mask. The four 16-bit shifters always move and load
together, so they are one sequence of 16 pixels. `origin` remembers the address at dot 321,
and is forgotten when the ROM changes something in the middle of a line that changes the
picture there; `fine_x`, which acts at once, is not among those. `PixelAt` computes the pixel
in a column from memory and the address of the first tile alone. `PixelShown` takes `origin`
for that address, `PictureShown` the `Corner` that the last reloads of x and y name: the one
is about the pipeline, the other about the picture.

**Alu** translates each case of `execute_instruction()` on the record of registers, flags
and operand; additions are the code's 16-bit sums, overflow the code's sign tests. Illegal
opcodes are written out again because the code writes them out again; `DataPath` compares
them with the two legal opcodes they fuse.

**Cpu** has one step for a call of `cpu_run_cycle()` in which `cycles` is zero: clear the
cycles, take the NMI, fetch, `set_address`, execute. An instruction that ends in `exit()`
is `Exit`, after which nothing runs. `cpu_set_interrupt` is the PPU's post at any moment
between. `frames` and `returned` are history: the calls and interrupts open, with what each
must restore. A memory is a function on the cells written so far, every other cell being the
zero `init_cpu_mem()` left there. A ROM is a file of bytes, and which byte is which
instruction is the constant `instruction_lookup`, a table of `Instructions`: these are exactly
the pairs of opcode and mode in `opcodes.h`, so what holds for every table holds for the
code's. An instruction gets one byte for all
its reads of I/O, so a 16-bit operand or a second access there sees the same byte twice; the
programs read I/O once an instruction. A write to `$4014` of a page that is not RAM ends the
program (`SlowDma`), also when it is ASL's first write, of the byte not yet shifted, or SHX
or SHY that makes it. In `Execute`, `x \in {e}` binds a value, which TLC then computes once. PRG is read through `Mapper` from the file
with its trainer, at the index `nrom_read_prg()` computes.

## 3. The runs

Counts are distinct states.

| Run | Shows | Bounds |
|---|---|---|
| `frame_loop` | counters in step, NMIs taken in their vblank and never lost, frame length, refinement of `VblankProtocol`, `NmiTaken`, `FramesRecur` (120 k) | 7 dots, 9 lines, DMA of 3, instructions of 2 and 3 cycles |
| `frame_loop_late_nmi` | finding 1 | as above |
| `io_page` | `SerialReads`, `DmaWraps`, `OnlyPollsEatQuit`, `QuitTaken` with `$4014` being both a DMA and a latch (0.9 M) | 2 keys, 2 queued events, 9 reads, 3 OAM cells, 2 byte values, every address |
| `host_input_quit` | finding 2 | 1 key |
| `vram_port` | widths, palette twins, coherence of nametables at the addresses the ROM's author names (8.7 M) | 3 high bytes, 1 low byte, 2 data bytes, 3 data accesses |
| `vram_port_alias` | finding 3 | 2 high, 2 low bytes |
| `scroll` | `RowShown`, `ColumnShown` under every access (1.4 M) | 4 by 3 tiles of 2 rows, 4 coarse rows |
| `scroll_seam` | finding 4 | the real geometry: 32 by 30 tiles, 240 lines |
| `sprites` | `PixelFromOam`, `HitFromOam` (1.5 M) | 5 columns, 4 lines, tiles of 2 by 2, 2 sprites a line, 3 pages of 3 sprites, 8 or 16 pixels (2 or 4 here) |
| `background` | `PixelShown`, `PictureShown`: every pixel against memory, from every kind of scroll position, with a register access at any dot (6.3 M) | 4 by 3 tiles of 2 rows, 4 nametables, 2 addresses, one scroll column and row, `fine_x` of 0 and 7, every register, one access |
| `cpu_alu` | `WordsAdd`, `WordsSubtract`, `WordsShift`, `ComparisonsOrder`, `IllegalsFuse` over every state of the registers and flags that opcodes reach (55 k); `IllegalsFuse` covers every illegal opcode on data | bytes of 3 bits, all opcodes in the run's list |
| `cpu` | `FramesOnStack`, `ReturnsToCaller`, `CostsAgree`, `ProgramsCompute`, `StackDiscipline` (0.5 M) | the real widths; 3 programs, the rows of the table they use, 2 input bytes, 2 NMIs anywhere |

**Why these bounds are enough.** The scaled frame keeps every relation the code's own
numbers have, and `FrameLoop`'s assumptions state the one that matters: vblank outlasts
the longest stretch without an instruction boundary (6820 dots against 3129 for the
console). The frame has both parities and the wraps in all three PPU slots; the DMA is
longer than an instruction and two may be queued. In `scroll` the row walk meets the lower
edge of both nametables and, from scroll row 7, the attribute rows; `$2006` half-writes
interleave. The pages of `MCSprites` overlap, exceed the limit, are flipped, are behind
the background, sit at columns 0 and 1, and lie below the picture, where line 261's fetch
meets them; the picture is long enough for both halves of a tall sprite. The programs of `MCCpu` are chosen for the edges: a
stack that wraps, pointers at 0xFF and at the end of a page, indices that leave a page and
wrap at 0xFFFF, a branch back over a page, mirrors of RAM and of PRG, a BRK whose handler is
interrupted before its first instruction, and each way to `exit()`. `MCBackground`'s neighbours differ in
tile, palette and pattern; its pictures start in the middle of a nametable, in the last row of
tiles (so that the row walk wraps within the six lines), at a column from which the walk crosses
the table's edge and, after a write to `$2005`, in the attribute rows. One access is enough to disturb any dot of a
line and see the next frame's picture whole again, since the run goes on from frame to frame. Nine reads go one past the controller's register. `vram_port`'s high bytes
reach the end of a nametable, the mirror region and the palette; its low byte avoids the
last cells, which `vram_port_alias` uses. The theorems of section 5 remove the geometry
bounds.

**Fairness.** `FrameLoop` has `WF(Next)`: `emulator_run()` is one thread and no call in its
loop blocks for ever (the wait of `synchronize_frames()` is bounded). The environment's part, which instruction comes next, gets none, so
`NmiTaken` and `FramesRecur` hold for every ROM. `HostInput` has `WF(EndFrame)` only, which is
what `FramesRecur` gives, and `IoPage` the same for `FrameEnds`; the user and the ROM owe
nothing. The other modules claim safety only.

**Deadlock** is checked except in `HostInput` and `IoPage`, where after the program stops
and the queue is full nothing happens any more, and in `Cpu`, where a program may call
`exit()`. In `FrameLoop` that is the stuttering action `Terminated`.

## 4. Findings

1. `ppu.c:218` posts no NMI when it is enabled while the flag is set; `tests/vbl/readme.txt` says it should occur.
2. `sdl-instance.c:96` drops the close request with every other event; `sdl-instance.h:28` says it checks for it.
3. `ppu.c:464` reduces by `% 0x03FF`, so the last byte of a nametable is the first of it; `tests/ppu/readme.txt:70` requires writes to read back.
4. `ppu.c:376` clears the nametable bit where the walk must toggle it; `README.md:8` promises accurate background rendering.

Two more differences from what the repository says are plain to see in the code and have
no run: `ppu.c:315` returns a palette byte without moving the address (`ppu.h:224` says
every read moves it), and `mem.c:94` returns the third byte of a sprite unmasked
(`tests/ppu/readme.txt:48` requires the mask `$e3`).

Other behaviours that nothing in the repository contradicts (left-column clipping of the
zero hit, the high plane one byte after the low one, overflow never set, sprites one
column left, the halves of a flipped tall sprite not exchanged, vertical mirroring never
selected, SHX paying for a crossed page) are translated as they are and listed under the hazards.

Some hazards of `PROJECT.json` have no property, because nothing in the repository says what
would be right, or because the run would show one line again; each has a note. Six of
the ten are the serial port's fall-through to the latch (`mem.c:58`), the palette read that leaves the address
(`ppu.c:315`), the shifters' first contents (`ppu.c:36`), the order of the mirroring tests
(`mapper.c:41`), the read below `cartridge_ram` (`mem.c:120`) and the line after the pre-render
line (`ppu.c:161`); the other four belong to sprites. The models contain all of them.

## 5. What is proved

The theorems hold for every value of the constants that satisfies the named assumptions;
TLC evaluates those on the instances it checks.

**FrameLoop** (assumptions `GeometryAssumption`, `CpuAssumption`, `VblankLongEnough`). The
properties are not inductive by themselves: that an NMI is taken in time follows from what
the beam has travelled *and* what the CPU still owes. The inductive invariant `IInv` is
`TypeOK`, `BusyBounded`, `PositionInv`, and

* `Noticed`: a completed frame is seen before the beam has moved three dots;
* `NmiDeadline`: while an NMI is pending, `cycle_counter + 3 * Busy` is below a bound that
  a round of three dots and one cycle does not use up;
* `VblankWindow`: the flag is set only between lines 241 and 261.

`DeadlineMeansVblank` turns the deadline into `NmiTakenInVblank`; `NoInterruptLost` follows
because line 241 lies before any pending NMI's window; `OneFramePerIteration` from
`Noticed`; `FramesHaveTheirLength` from `PositionInv` at the wrap; the refinement theorem
shows that every step is an action of `VblankProtocol` or a stutter.

**OamPort** (`OamAssumption`; this and the next two parts in `PortProofs`). `WrapOnce` is the arithmetic of the two copies,
`DmaContents` says what they leave in each cell, and `DmaIsRotation` follows for OAM of
any size, `OamTypeCorrect` by induction.

**IoPage** (`OamAssumption`, `InputAssumption`). A step of the page is a step or a stutter
of each part (`PageStep`), so `PageIsOam`, and with it the theorems about `OamPort` hold of
the page. For the controller `SerialReads` is not inductive: it says what was read, not what
will be. `SerialInv` adds `RegisterHoldsRest`, that the register holds the keys not yet read,
followed by zeros; a read moves one key from the one to the other. `QuitOnlyPolled` is a
case split over who touches the queue.

**VramPort** (`VramAssumption`, and `HeaderAssumption` of `Mapper`). `PortTypes` is the
register widths under every access and that every index, mirrored or not, lies in its array;
it needs the quotients and remainders the registers are cut with. `PaletteTwins` rests on
it and on `PeekPoke`, that a write changes one cell. `NamedAddress` says that the address its author has named is the port's: the latch
tells the halves of an address apart exactly when the author does, whatever `$2000`, `$2002`
and `$2005` did to the latch and to the register they share. `NametablesCoherent` is
`VramCoherent` for a cartridge with four nametables and a ROM whose named addresses, when it
writes, keep off those where `% 0x03FF` wraps (`StraightWrites`): there the index lies a
constant behind the console's cell (`StraightIndex`), so cells stay apart (`StraightApart`).
Without the first condition mirrors are displaced, without the second finding 3 applies.

**Scroll** (`ScrollAssumption`). `ScrollInv` adds to `RowShown` and `ColumnShown` that a
history is only kept while rendering is on and outside the attribute rows (`HistoryKept`),
that after the y reload the address is at its origin (`RowReloaded`), and that the beam
stays on its line's events (`BeamOnLine`). `ColumnShown` says two things of a tile: its column
modulo a nametable, always, and its column of the plane, up to the edge of the nametable the
reload names (`ShownNext` steps both). `XSteps` and `YSteps` show that an increment is
one step around a cycle of `Columns`, or of `2 * Lines`; `ModStep` that the beam's count
steps in the same way.

**Opcodes** (`HalfAssumption`, `OpcodesAssumption`: bytes of 3 to 8 bits, any set of the opcodes
modelled). `DataTypes` says that no sequence of opcodes leaves
the bytes and the known flags; the other five theorems need only that. Its first part states
the arithmetic once, for one byte: what an addition carries and when it overflows
as a signed sum, which bit a shift drops. `Addition` and `Subtraction` then chain two bytes
through the carry, `Comparison` reads the order of the operands from the flags, `Shifting`
shows the carry passed on, and `Fusion` takes the illegal opcodes one at a time, ANC, SAX and
ARR among them: ARR's flags need the sign of an AND added to itself (`MaskedShift`,
`RotatedBits`).

**Background** (`ScrollAssumption`, `BackgroundAssumption`: a row of tiles holds whole blocks
of attributes, which fit behind the tiles, and a pattern table holds 256 tiles). The argument
has three layers.

1. `PipelineScrolls`: every dot and every access is a step of `Scroll` or leaves its variables
   alone (`BgStepScrolls`), and the state a run begins in is one of `Scroll`'s
   (`BgInitScrolls`). So `ScrollInv` holds at every dot, and nothing about the address is
   proved twice.
2. `PixelsShown` is not inductive: a pixel drawn was fetched two tiles before. The invariant
   `Follows` says what is on its way instead: after *k* steps since dot 321 the shifters hold
   the tiles that follow `origin` (`ShiftersFollow`, eight dots at a time) and the latches those
   fetched so far (`LatchesFollow`); `AcrossNext` says that `increment_scroll_x` goes to the
   next of them, `QuarterOfByte` that two bits of the attribute byte are the ones the address
   selects. A change by the ROM in the middle of a line ends what the invariant says, until the
   next dot 321 (`FollowsBegin`). `LayersRendered` is needed because the shifters look at one
   bit of the mask and the increments at two.
3. `PicturesShown` adds where `origin` lies. `OriginPlace` says that it is in the column of the
   last x reload and in the row that the last y reload gives the line being fetched. It begins
   at dot 321 with `ScrollInv` (`PlaceBegins`, `RowBegins`), and survives until dot 257 because
   neither reload happens meanwhile, on the pre-render line least of all. `CornerIsOrigin`
   turns the numbers of row and column back into an address, which `RowForm` and `ColumnForm`
   make unique.

`BackgroundTypes` keeps every address, table byte and attribute in its range through the four
tables and the file's CHR.

**Sprites** (`SpriteAssumption`). `SpritesTypes` needs `ListedInReach`: a sprite fetched
lies in reach of the line, one row further on the pre-render line, or the row fetched
would leave CHR. `SpritePixels` and `SpriteHits` rest on `SeenFollows`, which follows one evaluation
for a line: the list is what the page held, counted down once for each dot gone
(`ListIs`), and each shifter is at the beam or at its sprite's first dot, whichever is later
(`ShiftersAt`). The specification of a pixel speaks of OAM order and the code of slots;
`SlotsInOrder` and `FirstSlotFirstPlace` say that the first slots are the first places in
range, `OpaqueShows` that a sprite's pixel is what its shifter gives, and `SlotOneIsSpriteZero` that
the hit's slot is sprite 0 exactly when that one is in range.

**Cpu** (`CpuAssumption`: the coding is a table of the code's instructions, the files hold
the one or two banks their header names). `CpuTypes` and `Costs` hold for every ROM and every
coding, whatever the ROM does to its stack: an address, however indexed or indirect, is one
of the memory map (`Aims`), a read of PRG lies in the file (`PrgType`), and no instruction on
data touches program counter, stack pointer or cycles (`DataEffect`). `Costs` is the table
and the addressing modes side by side.

`StackIntact` and `Returns` cannot hold for every ROM: one may move the stack pointer with TXS
or store over its own return address, and the code does nothing to stop it. They are proved
for the ROMs that keep `StackDiscipline`, which asks three things of each instruction: the
stack pointer stays below the last open frame, a return is of the kind the frame is and finds
the stack pointer just there, and no store hits an open frame. What is left to prove is what
the code must do for it: that calls, BRK and NMIs, wherever they come, put the right bytes
where the right returns look for them, around the wrap of the stack's page. The inductive
invariant is `Kept`: the types; that the status register has UNUSED and never BREAK (`Plain`),
without which a return could not restore the flags exactly nor a handler tell its two
entries apart; `Stacked`, that each open frame is intact and lies below the one before; and
`Below`, that the stack pointer is below the last. `Apart` concludes that the places of two
frames, and the place a push writes, never coincide. TLC checks `StackDiscipline` on the
programs of `MCCpu`, stack wraps, BRK and interrupts in handlers included, so the hypothesis
is not an empty one.

**Only model-checked.** Liveness (`NmiTaken`, `FramesRecur`, `QuitTaken`), which TLAPS does
not reach; `ProgramsCompute` and `StackDiscipline`, which speak of particular programs.

## 6. What is not modelled

* The last step of a pixel, the table `nes_palette_rgb`.
* The timer and the wait at the end of a frame (`timer.c`, `emulator.c:121-137`): nothing
  else depends on the time that has passed.
* The board: its pad driver is stores and loads on pins whose effect the pad decides, its
  VGA driver a store for each pixel, and its start-up code and printing come with the board.
* The debug views and the log (`dev/debug.c`, formatting and drawing), window creation and
  drawing (output), `main.c` (reads a file, then calls `emulator_init` and `emulator_run`).
* `emulator_nestest`, which runs the same two functions under another loop condition.

## 7. Plan

1. *Done*: the frame loop and its protocol, the I/O page and its parts, the register port,
   scrolling, background, sprites, the CPU and the cartridge.
2. *Done*: the proofs of every safety invariant above but the programs' own results.
3. **Sprites and background together**: both draw from one beam, and the zero hit meets the
   pixel that `Background` computes.
