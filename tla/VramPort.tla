------------------------------ MODULE VramPort ------------------------------
(***************************************************************************)
(* The PPU's memory as a program reaches it: the address registers behind  *)
(* $2000, $2002, $2005 and $2006, which share one write latch, and the     *)
(* data port $2007 with its read buffer, over pattern tables, nametables   *)
(* and palette.  Registers are integers of the code's widths; memories are *)
(* functions on the cells written so far, every other cell being zero.     *)
(***************************************************************************)
EXTENDS Mapper

CONSTANTS
    CtrlBytes,      \* bytes the ROM writes to $2000,
    ScrollBytes,    \*   $2005,
    HighBytes,      \*   $2006 first,
    LowBytes,       \*   $2006 second,
    DataBytes,      \*   and $2007
    ChrByte,        \* content of the CHR ROM, or of CHR RAM not yet written
    MaxAccesses     \* bound: accesses to $2007 in a behaviour

Byte == 0 .. 255
Word == 0 .. 256 * 256 - 1

ASSUME VramAssumption ==
    /\ CtrlBytes \cup ScrollBytes \cup HighBytes \cup LowBytes \cup DataBytes
          \subseteq Byte
    /\ ChrByte \in Byte
    /\ MaxAccesses \in Nat

VARIABLES
    increment,          \* ctrl.increment: 1 or 32
    write_latch,
    temp_addr,
    vram_addr,
    fine_x,
    data_read_buffer,
    chr_ram,
    vram,
    palette,
    accesses,           \* bound: accesses to $2007 so far
    half,               \* history: the half address the ROM has written,
    named,              \*   the address it has named to $2007,
    shadow              \*   and the last byte it wrote to each nametable cell

addrVars == <<increment, write_latch, temp_addr, fine_x>>
memVars == <<chr_ram, vram, palette>>
authorVars == <<half, named, shadow>>
portVars == <<addrVars, vram_addr, data_read_buffer, memVars, accesses, authorVars>>

-----------------------------------------------------------------------------
(***************************************************************************)
(* Memories and registers.                                                 *)
(***************************************************************************)

Peek(memory, i) == IF i \in DOMAIN memory THEN memory[i] ELSE 0
Poke(memory, i, v) ==
    [j \in DOMAIN memory \cup {i} |-> IF j = i THEN v ELSE memory[j]]

\* The arrays chr_ram, vram and palette.
ChrCells == 0 .. 8191
VramCells == 0 .. 8191
PaletteCells == 0 .. 31
BytesIn(memory, cells) ==
    DOMAIN memory \subseteq cells /\ \A i \in DOMAIN memory : memory[i] \in Byte

\* A bit field of size values whose lowest bit weighs unit.
Field(reg, unit, size) == (reg \div unit) % size
SetField(reg, unit, size, v) == reg + (v - Field(reg, unit, size)) * unit

\* The fields of VRAM_ADDR_REGISTER.
SetCoarseX(reg, v) == SetField(reg, 1, 32, v)
SetCoarseY(reg, v) == SetField(reg, 32, 32, v)
SetNametable(reg, v) == SetField(reg, 1024, 4, v)
SetFineY(reg, v) == SetField(reg, 4096, 8, v)
SetLow(reg, v) == SetField(reg, 1, 256, v)
SetHigh(reg, v) == SetField(reg, 256, 256, v)

\* calculate_vram_index().  Address $3000 is not folded and indexes one past
\* the end of nametable_map; the field behind it is the mirroring code.
PastTheMap == IF Mirroring = "HORIZONTAL" THEN 1 ELSE 4

VramIndex(address) ==
    LET folded == IF address > 12288 THEN address - 4096 ELSE address
        table == (folded - 8192) \div 1024
        base == IF table = 4 THEN PastTheMap ELSE NametableMap[table + 1]
    IN  base + ((folded - 8192) % 1023)

\* The nametable cell an address selects on the console.
ConsoleCell(address) ==
    LET offset == (address - 8192) % 4096
    IN  NametableMap[(offset \div 1024) + 1] + (offset % 1024)

PaletteIndex(address) == address % 32

\* Mutant: the twin entries are not linked.
PaletteTwinNone(i) == i

\* Entries 0, 4, 8 and 12 share their cell with 16, 20, 24 and 28.
PaletteTwin(i) == IF i < 16 THEN i + 16 ELSE i - 16

IsPattern(address) == address < 8192
IsPalette(address) == address >= 16128
IsNametable(address) == ~IsPattern(address) /\ ~IsPalette(address)

PortAddress == vram_addr % 16384

-----------------------------------------------------------------------------
(***************************************************************************)
(* The address as its author follows it, from the accesses alone: after a  *)
(* read of $2002, or a whole pair, two writes to $2006 in a row name one,  *)
(* and each access to $2007 moves it on.  No guard reads these variables.  *)
(***************************************************************************)

NoHalf == 64        \* half: the next write to $2005 or $2006 begins a pair
Spoilt == 65        \* half: a pair is begun, but is not the author's address
Unnamed == 16384    \* named: no address its author can be sure of

NameHalf(value) ==
    /\ half' = IF half = NoHalf THEN value % 64 ELSE NoHalf
    /\ named' = IF half = NoHalf THEN named
                ELSE IF half = Spoilt THEN Unnamed
                ELSE 256 * half + value

NameNext ==
    /\ named' = IF named = Unnamed THEN Unnamed ELSE (named + increment) % 16384
    /\ UNCHANGED half

\* A byte written where nobody knows may have changed any cell.
Remember(value) ==
    shadow' = IF named = Unnamed THEN [i \in {} |-> 0]
              ELSE IF IsNametable(named) THEN Poke(shadow, ConsoleCell(named), value)
              ELSE shadow

-----------------------------------------------------------------------------

PortInit ==
    /\ increment = 1 /\ write_latch = 0
    /\ temp_addr = 0 /\ vram_addr = 0 /\ fine_x = 0
    /\ data_read_buffer = 0
    /\ chr_ram = [i \in {} |-> 0]
    /\ vram = [i \in {} |-> 0]
    /\ palette = [i \in {} |-> 0]
    /\ accesses = 0
    /\ half = NoHalf /\ named = 0
    /\ shadow = [i \in {} |-> 0]

\* A write to $2000.
ppu_set_ctrl ==
    \E value \in CtrlBytes :
        /\ increment' = IF Field(value, 4, 2) = 1 THEN 32 ELSE 1
        /\ temp_addr' = SetNametable(temp_addr, value % 4)
        /\ half' = IF half = NoHalf THEN NoHalf ELSE Spoilt
        /\ UNCHANGED <<write_latch, fine_x, vram_addr, data_read_buffer>>
        /\ UNCHANGED <<memVars, accesses, named, shadow>>

\* Mutant: a read of $2002 leaves the latch where it is.
ReadStatusKeepsLatch ==
    /\ half' = NoHalf
    /\ UNCHANGED <<addrVars, vram_addr, data_read_buffer, memVars, accesses>>
    /\ UNCHANGED <<named, shadow>>

\* A read of $2002.
ppu_read_status ==
    /\ write_latch' = 0 /\ half' = NoHalf
    /\ UNCHANGED <<increment, temp_addr, fine_x, vram_addr, data_read_buffer>>
    /\ UNCHANGED <<memVars, accesses, named, shadow>>

\* Mutant: fine_x is not masked to three bits.
ScrollXUnmasked ==
    /\ write_latch = 0 /\ write_latch' = 1
    /\ \E value \in ScrollBytes :
          fine_x' = value /\ temp_addr' = SetCoarseX(temp_addr, value \div 8)

\* A write to $2005: X first, then Y.
ScrollX ==
    /\ write_latch = 0 /\ write_latch' = 1
    /\ \E value \in ScrollBytes :
          /\ fine_x' = value % 8
          /\ temp_addr' = SetCoarseX(temp_addr, value \div 8)

ScrollY ==
    /\ write_latch = 1 /\ write_latch' = 0
    /\ \E value \in ScrollBytes :
          temp_addr' = SetCoarseY(SetFineY(temp_addr, value % 8), value \div 8)
    /\ UNCHANGED fine_x

ppu_set_scroll ==
    /\ ScrollX \/ ScrollY
    /\ half' = IF half = NoHalf THEN Spoilt ELSE NoHalf
    /\ UNCHANGED <<increment, vram_addr, data_read_buffer, memVars, accesses>>
    /\ UNCHANGED <<named, shadow>>

\* A write to $2006: the high byte first; the low byte completes the address.
AddrHigh ==
    /\ write_latch = 0 /\ write_latch' = 1
    /\ \E value \in HighBytes :
          temp_addr' = SetHigh(temp_addr, value % 64) /\ NameHalf(value)
    /\ UNCHANGED vram_addr

AddrLow ==
    /\ write_latch = 1 /\ write_latch' = 0
    /\ \E value \in LowBytes :
          temp_addr' = SetLow(temp_addr, value) /\ NameHalf(value)
    /\ vram_addr' = temp_addr'

ppu_set_vram_addr ==
    /\ AddrHigh \/ AddrLow
    /\ UNCHANGED <<increment, fine_x, data_read_buffer, memVars, accesses, shadow>>

NextAddress == vram_addr' = (vram_addr + increment) % 65536

\* A write to $2007.
ppu_write_vram_data ==
    /\ accesses < MaxAccesses /\ accesses' = accesses + 1
    /\ \E value \in DataBytes :
          LET address == PortAddress
              i == PaletteIndex(address)
          IN  /\ \/ /\ IsPattern(address)
                    /\ chr_ram' = Poke(chr_ram, address, value)
                    /\ UNCHANGED <<vram, palette>>
                 \/ /\ IsNametable(address)
                    /\ vram' = Poke(vram, VramIndex(address), value)
                    /\ UNCHANGED <<chr_ram, palette>>
                 \/ /\ IsPalette(address)
                    /\ palette' =
                          IF i % 4 = 0
                          THEN Poke(Poke(palette, i, value), PaletteTwin(i), value)
                          ELSE Poke(palette, i, value)
                    /\ UNCHANGED <<chr_ram, vram>>
              /\ Remember(value)
    /\ NextAddress /\ NameNext
    /\ UNCHANGED <<addrVars, data_read_buffer>>

\* What a read puts in the buffer: CHR, or the nametable byte (the one behind
\* the palette when the palette is read).
Fetched(address) ==
    IF IsPattern(address)
    THEN IF ~HasChrRom /\ address \in DOMAIN chr_ram THEN chr_ram[address] ELSE ChrByte
    ELSE Peek(vram, VramIndex(address))

\* A read of $2007.  A palette read returns before the address is incremented;
\* ppu.h promises that every read moves it, so its author has lost count.
ppu_read_vram_data ==
    /\ accesses < MaxAccesses /\ accesses' = accesses + 1
    /\ data_read_buffer' = Fetched(PortAddress)
    /\ \/ ~IsPalette(PortAddress) /\ NextAddress
       \/ IsPalette(PortAddress) /\ UNCHANGED vram_addr
    /\ \/ ~IsPalette(named) /\ NameNext
       \/ IsPalette(named) /\ named' = Unnamed /\ UNCHANGED half
    /\ UNCHANGED <<addrVars, memVars, shadow>>

PortNext ==
    \/ ppu_set_ctrl \/ ppu_read_status \/ ppu_set_scroll \/ ppu_set_vram_addr
    \/ ppu_write_vram_data \/ ppu_read_vram_data

PortSpec == PortInit /\ [][PortNext]_portVars

-----------------------------------------------------------------------------

PortTypeOK ==
    /\ increment \in {1, 32} /\ write_latch \in 0 .. 1
    /\ temp_addr \in Word /\ vram_addr \in Word /\ fine_x \in 0 .. 7
    /\ data_read_buffer \in Byte
    /\ BytesIn(chr_ram, ChrCells)
    /\ BytesIn(vram, VramCells)
    /\ BytesIn(palette, PaletteCells)
    /\ accesses \in 0 .. MaxAccesses

\* tests/ppu/readme.txt, palette_ram 5 and 6: the two names of each background
\* colour always read the same, whichever of them was written last.
PaletteMirrored ==
    \A i \in {0, 4, 8, 12} : Peek(palette, i) = Peek(palette, i + 16)

\* The addresses $2000-$2FFF that name a nametable cell of the console.
NamesOf(cell) ==
    {8192 + 1024 * t + (cell % 1024) :
        t \in {u \in 0 .. 3 : NametableMap[u + 1] = cell - (cell % 1024)}}

\* tests/ppu/readme.txt, vram_access: "3) Basic Write/read doesn't work".  A
\* byte written through $2007 at a nametable address that its author has named
\* is what this address, and its mirror, go on to name, whatever happened to
\* the latch and the temporary address that $2000, $2002, $2005 and $2006 share.
VramCoherent ==
    \A cell \in DOMAIN shadow : \A address \in NamesOf(cell) :
        Peek(vram, VramIndex(address)) = shadow[cell]
=============================================================================
