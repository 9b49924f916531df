------------------------------- MODULE MCCpu -------------------------------
(***************************************************************************)
(* Programs for checking Cpu, in files with a trainer.  Each is an image   *)
(* of one 16 KB bank, its index 0 at 0x8000 and at 0xC000.  "sum" adds two *)
(* inputs with a stack that wraps around its page; "flags" sends a flag    *)
(* through PHP, BRK and PLP and jumps through a pointer at the end of a    *)
(* page; "map" reads and writes through mirrors and ends, or does not, in  *)
(* one of the ways the code exits.  Every handler spoils the registers and *)
(* flags it is about to restore.                                           *)
(***************************************************************************)
EXTENDS Cpu, TLC

\* Their opcodes, as the table codes them; every other byte ends the program.
Coded ==
    0 :> <<"BRK", "IMP">> @@ 2 :> <<"JAM", "UNK">> @@ 8 :> <<"PHP", "IMP">> @@
    14 :> <<"ASL", "ABS">> @@ 24 :> <<"CLC", "IMP">> @@
    26 :> <<"NOP", "IMP">> @@ 32 :> <<"JSR", "ABS">> @@
    40 :> <<"PLP", "IMP">> @@ 41 :> <<"AND", "IMM">> @@
    42 :> <<"ROL", "ACC">> @@ 56 :> <<"SEC", "IMP">> @@
    64 :> <<"RTI", "IMP">> @@ 72 :> <<"PHA", "IMP">> @@
    74 :> <<"LSR", "ACC">> @@ 76 :> <<"JMP", "ABS">> @@
    80 :> <<"BVC", "REL">> @@ 88 :> <<"CLI", "IMP">> @@
    96 :> <<"RTS", "IMP">> @@ 101 :> <<"ADC", "ZP0">> @@
    104 :> <<"PLA", "IMP">> @@ 105 :> <<"ADC", "IMM">> @@
    108 :> <<"JMP", "IND">> @@ 133 :> <<"STA", "ZP0">> @@
    134 :> <<"STX", "ZP0">> @@ 138 :> <<"TXA", "IMP">> @@
    141 :> <<"STA", "ABS">> @@ 142 :> <<"STX", "ABS">> @@
    149 :> <<"STA", "ZPX">> @@ 154 :> <<"TXS", "IMP">> @@
    157 :> <<"STA", "ABX">> @@ 158 :> <<"SHX", "ABY">> @@
    160 :> <<"LDY", "IMM">> @@ 161 :> <<"LDA", "XIN">> @@
    162 :> <<"LDX", "IMM">> @@ 169 :> <<"LDA", "IMM">> @@
    170 :> <<"TAX", "IMP">> @@ 173 :> <<"LDA", "ABS">> @@
    174 :> <<"LDX", "ABS">> @@ 179 :> <<"LAX", "YIN">> @@
    184 :> <<"CLV", "IMP">> @@ 186 :> <<"TSX", "IMP">> @@
    187 :> <<"LAS", "ABY">> @@ 189 :> <<"LDA", "ABX">> @@
    190 :> <<"LDX", "ABY">> @@ 208 :> <<"BNE", "REL">> @@
    238 :> <<"INC", "ABS">> @@ 240 :> <<"BEQ", "REL">>

MCLookup == [b \in Byte |-> IF b \in DOMAIN Coded THEN Coded[b] ELSE <<"JAM", "UNK">>]

Code(op, mode) == CHOOSE b \in DOMAIN Coded : Coded[b] = <<op, mode>>

Imp(op) == << Code(op, "IMP") >>
Acc(op) == << Code(op, "ACC") >>
One(op, mode, v) == << Code(op, mode), v >>
Imm(op, v) == One(op, "IMM", v)
Two(op, mode, a) == << Code(op, mode), a % 256, a \div 256 >>
Jam == << Code("JAM", "UNK") >>
Abs(op, a) == Two(op, "ABS", a)

Placed(base, code) ==
    [i \in PrgRom + base .. PrgRom + base + Len(code) - 1 |-> code[i - PrgRom - base + 1]]
File(image) ==
    [i \in 0 .. PrgRom + 16383 |-> IF i \in DOMAIN image THEN image[i] ELSE 0]
Vectors(nmi, irq) ==
    Placed(16378, <<nmi % 256, nmi \div 256, 0, 128, irq % 256, irq \div 256>>)

\* 0x8100: save, read a register, spoil A, X and the flags, restore.
Handler ==
    Imp("PHA") \o Imp("TXA") \o Imp("PHA") \o Abs("LDA", 8194) \o Imp("SEC")
    \o Imm("ADC", 127) \o Imm("LDX", 5) \o Imp("PLA") \o Imp("TAX")
    \o Imp("PLA") \o Imp("RTI")

\* A handler that runs into JAM unless BREAK is as it should be.
Checked(branch) ==
    Imp("PHA") \o Imp("TXA") \o Imp("PHA") \o Imp("TSX")
    \o Two("LDA", "ABX", 259) \o Imm("AND", 16) \o One(branch, "REL", 1)
    \o Jam
    \o Imp("CLC") \o Imp("PLA") \o Imp("TAX") \o Imp("PLA") \o Imp("RTI")

Sum ==
    Placed(0,   \* 0x8000: the stack pointer becomes 1; a pointer to 0x12 at 0xFF
        Imm("LDX", 1) \o Imp("TXS") \o Imm("LDA", 18) \o One("STA", "ZP0", 255))
    @@ Placed(7,    \* 0x8007
        Abs("LDA", 8199) \o One("STA", "ZP0", 16)
        \o Abs("LDA", 8199) \o One("STA", "ZP0", 17)
        \o Imp("CLC") \o One("ADC", "ZP0", 16) \o One("STA", "ZP0", 18)
        \o Imm("LDA", 0) \o Imm("ADC", 0) \o One("STA", "ZP0", 19)
        \o Imm("LDX", 1) \o Abs("JSR", 49216))
    @@ Placed(33, Imp("NOP") \o Abs("JMP", 49159))      \* 0x8021
    @@ Placed(64,   \* 0xC040: the byte the pointer at 0xFF, 0x00 points to
        One("LDA", "XIN", 254) \o One("STA", "ZP0", 20) \o Imp("RTS"))
    @@ Placed(256, Handler)
    @@ Vectors(33024, 33024)

Flags ==
    Placed(0,   \* the pointer 0x8140 at 0x02FF and 0x0200; 0x82 at 0x0300
        Imm("LDX", 255) \o Imp("TXS")
        \o Imm("LDA", 64) \o Abs("STA", 767)
        \o Imm("LDA", 129) \o Abs("STA", 512)
        \o Imm("LDA", 130) \o Abs("STA", 768))
    @@ Placed(18,   \* 0x8012: the bit goes to C, over PHP, BRK and PLP, and back
        Abs("LDA", 16406) \o One("STA", "ZP0", 17) \o Acc("LSR")
        \o Imp("PHP") \o Imp("CLC") \o Imp("BRK") \o <<0>> \o Imp("PLP")
        \o Imm("LDA", 0) \o Acc("ROL") \o One("STA", "ZP0", 16))
    @@ Placed(34, Imp("CLI") \o Two("JMP", "IND", 767))     \* 0x8022
    @@ Placed(320, Imp("CLV") \o One("BVC", "REL", 143) \o Abs("JMP", 32786))
    @@ Placed(210, Abs("JMP", 32786))       \* 0x80D2, on the page before
    @@ Placed(576, Jam)
    @@ Placed(256, Checked("BEQ"))
    @@ Placed(384, Checked("BNE"))
    @@ Vectors(33024, 33152)

Map ==
    Placed(0,   \* a pointer to 0x07FE at 0xFF
        Imm("LDX", 254) \o Imm("LDY", 2) \o One("STX", "ZP0", 255)
        \o Imm("LDA", 7) \o One("STA", "ZP0", 0))
    @@ Placed(10,   \* 0x800A
        Abs("LDX", 16405) \o Abs("STX", 24576) \o Abs("INC", 24576)
        \o One("LAX", "YIN", 255)               \* 0x0800, which is 0x0000
        \o Imm("LDX", 254) \o One("STA", "ZPX", 9)     \* 0x07
        \o Two("STA", "ABX", 3)                 \* 0x0101, on another page
        \o Two("LDX", "ABY", 65534)             \* 0x0000
        \o Abs("STX", 2066)                     \* 0x0812, which is 0x0012
        \o Abs("LDX", 8199) \o Two("SHX", "ABY", 767)
        \o Abs("ASL", 16404))                   \* the DMA of page 0, or of no RAM
    @@ Placed(43,   \* 0x802B: go on, write to ROM, or run into LAS
        Abs("LDX", 24576) \o One("BEQ", "REL", 11) \o Abs("LDX", 8199)
        \o One("BEQ", "REL", 3) \o Abs("JMP", 32778)
        \o Abs("STA", 32768) \o Two("LAS", "ABY", 0))
    @@ Placed(256, Handler)
    @@ Vectors(33024, 33024)

MCPrograms == [sum |-> File(Sum), flags |-> File(Flags), map |-> File(Map)]

\* The programs' own results, at the instruction after they are stored: two
\* additions make one of 9 bits, fetched back through a pointer that wraps in
\* page zero; a flag survives PHP, BRK and PLP; a byte fetched and stored
\* through wraps and mirrors arrives.  An NMI anywhere changes none of it, and
\* no program ends that does not mean to.
ProgramsCompute ==
    /\ prg = "sum" /\ cpu.pc \in {32801, 49185} =>
          /\ Ram(cpu, 18) + 256 * Ram(cpu, 19) = Ram(cpu, 16) + Ram(cpu, 17)
          /\ Ram(cpu, 20) = Ram(cpu, 18)
    /\ prg = "flags" /\ cpu.pc = 32802 => Ram(cpu, 16) = Ram(cpu, 17)
    /\ prg = "map" /\ cpu.pc = 32811 => Ram(cpu, 7) = 7 /\ Ram(cpu, 18) = 7
    /\ prg # "map" => is_running

=============================================================================
