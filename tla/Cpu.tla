-------------------------------- MODULE Cpu --------------------------------
(***************************************************************************)
(* The CPU as cpu_run_cycle() runs it at an instruction boundary: take a   *)
(* pending NMI, fetch an opcode, set the address its mode names, execute   *)
(* it.  All of that happens in one call, so an NMI and the first           *)
(* instruction of its handler are one step.                                *)
(*                                                                         *)
(* The memory map is mem_read_8()'s and mem_write_8()'s.  What an I/O      *)
(* register does is the business of other modules: here a read of one may  *)
(* return any byte of Inputs.  Values are bytes and 16-bit addresses of    *)
(* the real width.  Which byte means which opcode is a constant, and so    *)
(* is the program: the proofs hold for every coding of the instructions    *)
(* and for every ROM.                                                      *)
(***************************************************************************)
EXTENDS Alu, Mapper, Sequences

CONSTANTS
    Programs,   \* ROM files by name: functions from offsets in the file to bytes
    instruction_lookup, \* the opcode and the mode of each byte
    Inputs,     \* bound: bytes an I/O register returns
    MaxNmis     \* bound: NMIs the PPU posts

\* The instructions of the table.
Instructions ==
    LET indexed == {"ZP0", "ZPX", "ABS", "ABX", "ABY", "XIN", "YIN"}
    IN  UNION {
          {"ORA", "AND", "EOR", "ADC", "LDA", "CMP", "SBC"} \X (indexed \cup {"IMM"}),
          {"STA", "SLO", "RLA", "SRE", "RRA", "DCP", "ISB"} \X indexed,
          {"ASL", "LSR", "ROL", "ROR"} \X {"ACC", "ZP0", "ZPX", "ABS", "ABX"},
          {"INC", "DEC"} \X {"ZP0", "ZPX", "ABS", "ABX"},
          {"LDX"} \X {"IMM", "ZP0", "ZPY", "ABS", "ABY"},
          {"LDY"} \X {"IMM", "ZP0", "ZPX", "ABS", "ABX"},
          {"LAX"} \X {"IMM", "ZP0", "ZPY", "ABS", "ABY", "XIN", "YIN"},
          {"SAX"} \X {"ZP0", "ZPY", "ABS", "XIN"},
          {"STX"} \X {"ZP0", "ZPY", "ABS"}, {"STY"} \X {"ZP0", "ZPX", "ABS"},
          {"CPX", "CPY"} \X {"IMM", "ZP0", "ABS"}, {"BIT"} \X {"ZP0", "ABS"},
          {"ALR", "ANC", "ANE", "ARR", "SBX"} \X {"IMM"},
          {"NOP"} \X {"IMP", "IMM", "ZP0", "ZPX", "ABS", "ABX"},
          {"BCC", "BCS", "BEQ", "BMI", "BNE", "BPL", "BVC", "BVS"} \X {"REL"},
          {"BRK", "CLC", "CLD", "CLI", "CLV", "DEX", "DEY", "INX", "INY", "PHA", "PHP",
           "PLA", "PLP", "RTI", "RTS", "SEC", "SED", "SEI", "TAX", "TAY", "TSX", "TXA",
           "TXS", "TYA"} \X {"IMP"},
          {"JMP", "JSR"} \X {"ABS"}, {"JMP"} \X {"IND"}, {"JAM"} \X {"UNK"},
          {"SHA"} \X {"ABY", "YIN"}, {"SHX", "TAS", "LAS"} \X {"ABY"}, {"SHY"} \X {"ABX"}}

\* The file holds the banks its header names; NROM has one or two.
ASSUME CpuAssumption ==
    /\ Half = 128 /\ PrgRomSize \in {1, 2}
    /\ \A p \in DOMAIN Programs : \A i \in 0 .. PrgRom + 16384 * PrgRomSize - 1 :
          i \in DOMAIN Programs[p] /\ Programs[p][i] \in Byte
    /\ instruction_lookup \in [Byte -> Instructions]
    /\ Inputs \subseteq Byte
    /\ MaxNmis \in Nat

Space == Size * Size
Address == 0 .. Space - 1
Vector == [NMI |-> 65530, RESET |-> 65532, IRQ |-> 65534]

VARIABLES
    prg,        \* the name of the ROM in the slot
    cpu,        \* the registers, ram and cycles; see CpuState
    pending_interrupt,
    posted,     \* NMIs posted so far
    is_running, \* FALSE once the code has called exit()
    frames,     \* history: the calls and interrupts not yet returned from
    returned,   \* history: the frame the last instruction returned to
    last        \* history: the last instruction

cpuVars == <<prg, cpu, pending_interrupt, posted, is_running, frames, returned, last>>

\* What answers at an address below PRG ROM, as mem_read_8() divides them.
IsRam(a) == a < 8192
IsPpu(a) == 8192 <= a /\ a < 16384
IsIo(a) == 16384 <= a /\ a < 16416
IsCartridgeRam(a) == 16416 <= a /\ a < 32768

\* The cells of ram[] and of cartridge_ram[], by address.
RamCells == {a \in Address : a < 2048 \/ IsCartridgeRam(a)}

\* Both memories hold the cells written so far; the others are still zero.
Memory(ram) == DOMAIN ram \subseteq RamCells /\ \A a \in DOMAIN ram : ram[a] \in Byte

CpuState(ram) ==
    [pc : Address, address : Address, ac : Byte, x : Byte, y : Byte,
     sp : Byte, sr : SUBSET Flag, ram : {ram}, cycles : Nat]

Frame == [kind : {"JSR", "BRK", "NMI"}, to : Address, sr : SUBSET Flag, sp : Byte]
NoFrame == [kind |-> "none"]

-----------------------------------------------------------------------------
(* The memory map.                                                         *)

\* ram and its mirrors, and cartridge_ram.
Cell(a) == IF IsRam(a) THEN a % 2048 ELSE a
Ram(c, a) == IF Cell(a) \in DOMAIN c.ram THEN c.ram[Cell(a)] ELSE 0

\* PRG ROM.
Prg(a) == Programs[prg][PrgRom + PrgIndex(a)]

\* A register of the PPU that answers reads; the others read as zero.
Answers(a) == a % 8 \in {2, 4, 7}

\* mem_read_8(), with in the byte an I/O register would return.  Between
\* 0x4000 and 0x401F only 0x4016 has a case: the rest falls through to
\* cartridge_ram[] at an index below zero, where anything may be.
Read(c, a, in) ==
    CASE IsRam(a) \/ IsCartridgeRam(a) -> Ram(c, a)
      [] IsPpu(a) -> IF Answers(a) THEN in ELSE 0
      [] IsIo(a) -> IF a = 16406 THEN in % 2 ELSE in
      [] OTHER -> Prg(a)

\* mem_read_16(): the second byte's address wraps.
Read16(c, a, in) == Read(c, a, in) + Size * Read(c, (a + 1) % Space, in)

\* mem_write_8(): PRG ROM cannot be written.
Writable(a) == a < 32768

Write(c, a, v) ==
    IF IsPpu(a) \/ IsIo(a) THEN c
    ELSE [c EXCEPT !.ram = [k \in DOMAIN c.ram \cup {Cell(a)} |->
                               IF k = Cell(a) THEN v ELSE c.ram[k]]]

-----------------------------------------------------------------------------
(* The stack.                                                              *)

\* Mutant: the stack leaves its page.
PushNoWrap(c, v) == [Write(c, Size + c.sp, v) EXCEPT !.sp = c.sp - 1]

Push(c, v) == [Write(c, Size + c.sp, v) EXCEPT !.sp = (c.sp + Size - 1) % Size]
Push16(c, v) == Push(Push(c, v \div Size), v % Size)

\* What n pops leave, and the byte the n-th returns.
Popped(c, n) == [c EXCEPT !.sp = (c.sp + n) % Size]
Top(c, n) == Ram(c, Size + ((c.sp + n) % Size))
Top16(c, n) == Top(c, n) + Size * Top(c, n + 1)

Weight == [C |-> 1, Z |-> 2, I |-> 4, D |-> 8, B |-> 16, U |-> 32, V |-> 64, N |-> 128]

StatusByte(sr) == Bits(LAMBDA w : \E f \in sr : Weight[f] = w)

\* Mutant: all eight bits come from the stack.
PulledAll(sr, v) == {f \in Flag : HasBit(v, Weight[f])}

\* PLP and RTI take all bits from the stack but BREAK and UNUSED.
Pulled(sr, v) ==
    (sr \cap {"B", "U"}) \cup {f \in Flag \ {"B", "U"} : HasBit(v, Weight[f])}

-----------------------------------------------------------------------------
(* Cycles (cycle_lookup) and addresses (set_address).                      *)

Unimplemented == {"AN2", "ANE", "LAS", "LXA", "SHA", "TAS", "UBC", "JAM"}

\* cycle_lookup: it depends on the opcode only through how it uses memory.
Cycles(op, mode) ==
    CASE op \in {"PHA", "PHP"} -> 3
      [] op \in {"PLA", "PLP"} -> 4
      [] op \in {"RTI", "RTS", "JSR"} -> 6
      [] op = "BRK" -> 7
      [] op = "JAM" -> 0
      [] op = "JMP" -> IF mode = "IND" THEN 5 ELSE 3
      [] op \in Modifies ->
            [ACC |-> 2, ZP0 |-> 5, ZPX |-> 6, ABS |-> 6, ABX |-> 7, ABY |-> 7,
             XIN |-> 8, YIN |-> 8][mode]
      [] op \in Stores \cup {"SHX", "SHY", "SHA", "TAS"} ->
            [ZP0 |-> 3, ZPX |-> 4, ZPY |-> 4, ABS |-> 4, ABX |-> 5, ABY |-> 5,
             XIN |-> 6, YIN |-> 6][mode]
      [] OTHER ->
            [IMP |-> 2, REL |-> 2, IMM |-> 2, ZP0 |-> 3, ZPX |-> 4, ZPY |-> 4,
             ABS |-> 4, ABX |-> 4, ABY |-> 4, XIN |-> 6, YIN |-> 5][mode]

\* crosses_page_borders()
Crosses(a, b) == a \div Size # b \div Size

\* Mutant: the stores are not excluded.
PaysForCrossingAll(op) == op \notin (Modifies \cup {"SHY"})

\* crosses_page_borders_() excludes these opcodes.
PaysForCrossing(op) == op \notin (Modifies \cup {"STA", "SHY"})

\* Mutant: the second byte of a pointer at 0xFF comes from the stack's page.
PointerLeavesPage(c, zp) == Ram(c, zp) + Size * Ram(c, zp + 1)

\* The pointer at zp, whose second byte stays in page zero.
Pointer(c, zp) == Ram(c, zp) + Size * Ram(c, (zp + 1) % Size)

\* JMP (indirect) takes both bytes from one page.
IndirectTarget(c, p, in) ==
    Read(c, p, in) + Size * Read(c, (p \div Size) * Size + ((p + 1) % Size), in)

At(c, a, length) ==
    [c EXCEPT !.address = a, !.pc = (c.pc + length) % Space]

\* A base and an index; a crossed page costs a cycle.
Indexed(c, op, base, index, length) ==
    LET a == (base + index) % Space
        extra == IF PaysForCrossing(op) /\ Crosses(base, a) THEN 1 ELSE 0
    IN  [At(c, a, length) EXCEPT !.cycles = @ + extra]

Signed(v) == IF Negative(v) THEN v - Size ELSE v

\* c.pc is past the opcode.
set_address(c, op, mode, in) ==
    LET byte == Read(c, c.pc, in)
        word == Read16(c, c.pc, in)
    IN  CASE mode = "ABS" -> At(c, word, 2)
          [] mode = "ABX" -> Indexed(c, op, word, c.x, 2)
          [] mode = "ABY" -> Indexed(c, op, word, c.y, 2)
          [] mode = "IMM" -> At(c, c.pc, 1)
          [] mode = "IND" -> At(c, IndirectTarget(c, word, in), 2)
          [] mode = "XIN" -> At(c, Pointer(c, (byte + c.x) % Size), 1)
          [] mode = "YIN" -> Indexed(c, op, Pointer(c, byte), c.y, 1)
          [] mode = "REL" -> At(c, (c.pc + 1 + Signed(byte) + Space) % Space, 1)
          [] mode = "ZP0" -> At(c, byte, 1)
          [] mode = "ZPX" -> At(c, (byte + c.x) % Size, 1)
          [] mode = "ZPY" -> At(c, (byte + c.y) % Size, 1)
          [] OTHER -> c

-----------------------------------------------------------------------------
(* execute_instruction().                                                  *)

Branches == {"BCC", "BCS", "BNE", "BEQ", "BPL", "BMI", "BVC", "BVS"}
Tested == [BCC |-> "C", BCS |-> "C", BNE |-> "Z", BEQ |-> "Z",
           BPL |-> "N", BMI |-> "N", BVC |-> "V", BVS |-> "V"]
BranchesIfSet == {"BCS", "BEQ", "BMI", "BVS"}

branch_if(c, predicate) ==
    IF ~predicate THEN c
    ELSE [c EXCEPT !.pc = c.address,
                   !.cycles = @ + IF Crosses(c.pc, c.address) THEN 2 ELSE 1]

BRK(c, in) ==
    LET pushed == Push(Push16(c, (c.pc + 1) % Space),
                       StatusByte(c.sr \cup {"B", "U"}))
    IN  [pushed EXCEPT !.pc = Read16(c, Vector.IRQ, in), !.sr = @ \cup {"I"}]

\* The address pushed is that of the JSR's last byte.
JSR(c) ==
    [Push16(c, (c.pc + Space - 1) % Space) EXCEPT !.pc = c.address]

\* Mutant: the last pop leaves the stack pointer where it is.
RTIWithoutLastPop(c) == [Popped(c, 2) EXCEPT !.sr = Pulled(@, Top(c, 1)), !.pc = Top16(c, 2)]

RTS(c) == [Popped(c, 2) EXCEPT !.pc = (Top16(c, 1) + 1) % Space]
RTI(c) == [Popped(c, 3) EXCEPT !.sr = Pulled(@, Top(c, 1)), !.pc = Top16(c, 2)]

\* SHX and SHY store at an address whose high byte is the value stored.
HighAnd(c, reg) == BitAnd(c[reg], (c.address \div Size + 1) % Size)
StoreHigh(c, reg) ==
    Write(c, Size * HighAnd(c, reg) + (c.address % Size), HighAnd(c, reg))

ReadsOperand(op, mode) ==
    mode \notin {"ACC", "IMP", "UNK"} /\ op \notin Stores \cup {"NOP"}
WritesOperand(op, mode) == op \in Stores \/ (op \in Modifies /\ mode # "ACC")

\* An opcode on data, from Alu.
Computed(c, op, mode, in) ==
    LET m == IF ReadsOperand(op, mode) THEN Read(c, c.address, in) ELSE 0
    IN  Executed(op, [ac |-> c.ac, x |-> c.x, y |-> c.y, m |-> m, sr |-> c.sr],
                 IF mode = "ACC" THEN "ac" ELSE "m")

Data(c, op, mode, in) ==
    LET t == Computed(c, op, mode, in)
        d == [c EXCEPT !.ac = t.ac, !.x = t.x, !.y = t.y, !.sr = t.sr]
    IN  IF WritesOperand(op, mode) THEN Write(d, c.address, t.m) ELSE d

execute_instruction(c, op, mode, in) ==
    CASE op \in Branches ->
            branch_if(c, (Tested[op] \in c.sr) = (op \in BranchesIfSet))
      [] op = "JMP" -> [c EXCEPT !.pc = c.address]
      [] op = "JSR" -> JSR(c)
      [] op = "RTS" -> RTS(c)
      [] op = "RTI" -> RTI(c)
      [] op = "BRK" -> BRK(c, in)
      [] op = "PHA" -> Push(c, c.ac)
      [] op = "PHP" -> Push(c, StatusByte(c.sr \cup {"B", "U"}))
      [] op = "PLA" -> [Popped(c, 1) EXCEPT !.ac = Top(c, 1),
                                            !.sr = set_ZN_flags(@, Top(c, 1))]
      [] op = "PLP" -> [Popped(c, 1) EXCEPT !.sr = Pulled(@, Top(c, 1))]
      [] op = "TXS" -> [c EXCEPT !.sp = c.x]
      [] op = "TSX" -> [c EXCEPT !.x = c.sp, !.sr = set_ZN_flags(@, c.sp)]
      [] op = "SHX" -> StoreHigh(c, "x")
      [] op = "SHY" -> StoreHigh(c, "y")
      [] OTHER -> Data(c, op, mode, in)

\* ppu_dma() has a pointer to the pages of ram[] alone, and gives up on others.
SlowDma(a, v) == a = 16404 /\ ~IsRam(Size * v)

\* The instruction ends the program: it is not implemented, it writes to PRG
\* ROM, or it starts the DMA of a page that is not RAM.
Exits(c, op, mode, in) ==
    \/ op \in Unimplemented
    \/ WritesOperand(op, mode) /\ ~Writable(c.address)
    \/ WritesOperand(op, mode) /\ SlowDma(c.address, Computed(c, op, mode, in).m)
    \* ASL writes its operand back before it writes the shifted byte.
    \/ op = "ASL" /\ mode # "ACC" /\ SlowDma(c.address, Read(c, c.address, in))
    \/ op = "SHX" /\ ~Writable(Size * HighAnd(c, "x"))
    \/ op = "SHY" /\ ~Writable(Size * HighAnd(c, "y"))
    \* StoreHigh() at 0x4014 stores 0x40, which is no page of ram[].
    \/ op = "SHX" /\ HighAnd(c, "x") = 64 /\ c.address % Size = 20
    \/ op = "SHY" /\ HighAnd(c, "y") = 64 /\ c.address % Size = 20

-----------------------------------------------------------------------------
(* One boundary.                                                           *)

\* Mutant: the status is pushed with the interrupt flag already set.
InterruptedLate(c) ==
    LET pushed == Push(Push16(c, c.pc), StatusByte(c.sr \cup {"I"}))
    IN  [pushed EXCEPT !.pc = Read16(c, Vector.NMI, 0), !.sr = @ \cup {"I"},
                       !.cycles = @ + 7]

\* handle_nes_interrupt() for an NMI, the only interrupt the code posts.
Interrupted(c) ==
    LET pushed == Push(Push16(c, c.pc), StatusByte(c.sr))
    IN  [pushed EXCEPT !.pc = Read16(c, Vector.NMI, 0), !.sr = @ \cup {"I"},
                       !.cycles = @ + 7]

\* The registers when the next opcode is fetched; the last instruction has
\* been paid for.
Boundary ==
    LET c == [cpu EXCEPT !.cycles = 0]
    IN  IF pending_interrupt = "NMI" THEN Interrupted(c) ELSE c

\* The row of the table for the byte at the program counter.
Fetched(c, in) == instruction_lookup[Read(c, c.pc, in)]

\* The registers past the opcode, with its cycles and its address set.
Prepared(c, op, mode, in) ==
    set_address([c EXCEPT !.pc = (@ + 1) % Space,
                          !.cycles = @ + Cycles(op, mode),
                          !.sr = @ \cup {"U"}],
                op, mode, in)

Opcode(in) == Fetched(Boundary, in)[1]
Mode(in) == Fetched(Boundary, in)[2]
Addressed(in) == Prepared(Boundary, Opcode(in), Mode(in), in)

\* History: the frames open when the next opcode is fetched, and after it.
OpenFrames ==
    IF pending_interrupt = "NMI"
    THEN Append(frames, [kind |-> "NMI", to |-> cpu.pc, sr |-> cpu.sr, sp |-> cpu.sp])
    ELSE frames

Opened(c, op) ==
    CASE op = "JSR" ->
            Append(OpenFrames, [kind |-> "JSR", to |-> c.pc, sr |-> c.sr, sp |-> c.sp])
      [] op = "BRK" ->
            Append(OpenFrames, [kind |-> "BRK", to |-> (c.pc + 1) % Space,
                                sr |-> c.sr, sp |-> c.sp])
      [] op \in {"RTS", "RTI"} /\ OpenFrames # <<>> ->
            SubSeq(OpenFrames, 1, Len(OpenFrames) - 1)
      [] OTHER -> OpenFrames

Returned(op) ==
    IF op \in {"RTS", "RTI"} /\ OpenFrames # <<>>
    THEN OpenFrames[Len(OpenFrames)] ELSE NoFrame

\* An instruction that goes through.  (x \in {e} gives x the value of e.)
Execute(in) ==
    \E b \in {Boundary} : \E row \in {Fetched(b, in)} :
    \E c \in {Prepared(b, row[1], row[2], in)}, op \in {row[1]}, mode \in {row[2]} :
        /\ ~Exits(c, op, mode, in)
        /\ cpu' = execute_instruction(c, op, mode, in)
        /\ frames' = Opened(c, op)
        /\ returned' = Returned(op)
        /\ last' = [op |-> op, mode |-> mode, nmi |-> pending_interrupt = "NMI"]
        /\ pending_interrupt' = "NONE"
        /\ UNCHANGED <<prg, posted, is_running>>

\* An instruction that ends in exit().
Exit(in) ==
    /\ \E b \in {Boundary} : \E row \in {Fetched(b, in)} :
       \E c \in {Prepared(b, row[1], row[2], in)} : Exits(c, row[1], row[2], in)
    /\ is_running' = FALSE
    /\ UNCHANGED <<prg, cpu, pending_interrupt, posted, frames, returned, last>>

cpu_run_cycle ==
    /\ is_running
    /\ \E in \in Inputs : Execute(in) \/ Exit(in)

\* The PPU posts an NMI (ppu.c:93) while the last instruction is paid for.
cpu_set_interrupt ==
    /\ is_running /\ pending_interrupt = "NONE"
    /\ posted < MaxNmis
    /\ pending_interrupt' = "NMI" /\ posted' = posted + 1
    /\ UNCHANGED <<prg, cpu, is_running, frames, returned, last>>

\* cpu_init(), after init_cpu_mem() has cleared both memories and mapper_init()
\* has accepted the header.
CpuInit ==
    /\ prg \in DOMAIN Programs
    /\ cpu = [pc |-> Prg(Vector.RESET) + Size * Prg(Vector.RESET + 1),
              address |-> 0, ac |-> 0, x |-> 0, y |-> 0, sp |-> 253,
              sr |-> {"I", "U"}, ram |-> <<>>, cycles |-> 0]
    /\ pending_interrupt = "NONE" /\ posted = 0 /\ is_running = Supported
    /\ frames = <<>> /\ returned = NoFrame
    /\ last = [op |-> "none", mode |-> "IMP", nmi |-> FALSE]

CpuNext == cpu_run_cycle \/ cpu_set_interrupt

CpuSpec == CpuInit /\ [][CpuNext]_cpuVars

-----------------------------------------------------------------------------

CpuTypeOK ==
    /\ cpu \in CpuState(cpu.ram) /\ Memory(cpu.ram)
    /\ pending_interrupt \in {"NONE", "NMI"} /\ posted \in 0 .. MaxNmis
    /\ is_running \in BOOLEAN
    /\ frames \in Seq(Frame)
    /\ returned \in Frame \cup {NoFrame}

\* The byte at place sp of the stack; and whether the return address and the
\* status of frame f lie on the stack as they were pushed.
StackByte(c, sp) == Ram(c, Size + ((sp + Size) % Size))

Intact(f, c) ==
    LET pushed == Size * StackByte(c, f.sp) + StackByte(c, f.sp - 1)
        status == StackByte(c, f.sp - 2)
    IN  IF f.kind = "JSR" THEN (pushed + 1) % Space = f.to
        ELSE /\ pushed = f.to
             /\ HasBit(status, Weight.B) <=> f.kind = "BRK"
             /\ \A b \in Flag \ {"B", "U"} : HasBit(status, Weight[b]) <=> b \in f.sr

\* As long as a call or an interrupt has not been returned from, its return
\* address and status lie intact on the stack, however many interrupts have
\* come on top of it and wherever the stack pointer has wrapped; and the
\* BREAK bit of the status tells a handler a BRK from an NMI.
FramesOnStack == \A i \in 1 .. Len(frames) : Intact(frames[i], cpu)

\* RTS and RTI restore what the call or the interrupt found: the program goes
\* on at the instruction it was at, with the stack pointer it had, and after
\* an interrupt with every flag it had.
ReturnsToCaller ==
    returned # NoFrame =>
        /\ cpu.pc = returned.to
        /\ cpu.sp = returned.sp
        /\ returned.kind # "JSR" => cpu.sr = returned.sr

\* An instruction costs what FrameLoop lets it cost, 2 to 8 cycles, an NMI 7
\* on top; and one that writes memory costs the same whether or not its index
\* crosses a page.  (SHX alone does not: crosses_page_borders_() lists SHY,
\* and SHX is missing.)
CostsAgree ==
    LET cost == cpu.cycles - IF last.nmi THEN 7 ELSE 0
    IN  last.op # "none" =>
            /\ cost \in 2 .. 8
            /\ WritesOperand(last.op, last.mode) \/ last.op = "SHY"
                  => cost = Cycles(last.op, last.mode)

-----------------------------------------------------------------------------
(***************************************************************************)
(* What a program owes the stack.                                          *)
(***************************************************************************)

\* The bytes a frame takes, the places of the stack it takes, and the bytes
\* in use from the first open frame down to place sp.
Held(f) == IF f.kind = "JSR" THEN 2 ELSE 3
Places(f) == {(f.sp + Size - k) % Size : k \in 0 .. Held(f) - 1}
Used(open, sp) == (open[1].sp + Size - sp) % Size

\* The stack pointer is below the last open frame.
Below(open, sp) ==
    open # <<>> =>
        LET f == open[Len(open)] IN Used(open, f.sp) + Held(f) <= Used(open, sp)

\* Where an instruction stores a byte other than by pushing it.
StoresAt(c, op, mode) ==
    CASE WritesOperand(op, mode) -> {c.address}
      [] op = "SHX" -> {Size * HighAnd(c, "x") + (c.address % Size)}
      [] op = "SHY" -> {Size * HighAnd(c, "y") + (c.address % Size)}
      [] OTHER -> {}

KeepsStack(in) ==
    \E b \in {Boundary} : \E row \in {Fetched(b, in)} :
    \E c \in {Prepared(b, row[1], row[2], in)}, op \in {row[1]} :
    LET top == OpenFrames[Len(OpenFrames)]
    IN  /\ Below(OpenFrames, c.sp) /\ Below(frames', cpu'.sp)
        /\ op \in {"RTS", "RTI"} /\ OpenFrames # <<>> =>
              /\ op = "RTS" <=> top.kind = "JSR"
              /\ c.sp = (top.sp + Size - Held(top)) % Size
        /\ \A a \in StoresAt(c, op, row[2]), i \in 1 .. Len(OpenFrames) :
              \A p \in Places(OpenFrames[i]) : Cell(a) # Size + p

\* A program keeps the stack when its pushes and pulls balance: the stack
\* pointer stays below the last open frame, a return finds it just there, and
\* no store hits an open frame.  Calls and interrupts, whenever they come,
\* then do their part of it by themselves.
StackDiscipline == [][\A in \in Inputs : Execute(in) => KeepsStack(in)]_cpuVars
=============================================================================
