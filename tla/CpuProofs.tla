------------------------------ MODULE CpuProofs ------------------------------
(***************************************************************************)
(* Proofs about Cpu, for every coding of the instructions, every ROM and   *)
(* every number of NMIs.  What the opcodes on data do comes from           *)
(* DataPathProofs.                                                         *)
(*                                                                         *)
(* The last theorems are about programs that keep the stack                *)
(* (StackDiscipline).  Their inductive invariant is Kept: the open frames  *)
(* lie intact on the stack, each below the one before (Stacked), the stack *)
(* pointer is below the last (Below), and the status register has UNUSED   *)
(* set and BREAK clear (Plain), as the byte an NMI pushes must have.       *)
(***************************************************************************)
EXTENDS Cpu, DataPathProofs

-----------------------------------------------------------------------------
(* Bytes, addresses and registers.                                         *)

\* A range from zero, as inequalities.
LEMMA UpTo ==
    ASSUME NEW k \in Nat, NEW n
    PROVE  n \in 0 .. k - 1 <=> n \in Int /\ 0 <= n /\ n < k
OBVIOUS

\* Bytes are eight bits wide, addresses sixteen.
LEMMA Widths ==
    /\ Half = 128 /\ Size = 256 /\ Space = 65536
    /\ \A n : n \in Byte <=> n \in Int /\ 0 <= n /\ n < 256
    /\ \A n : n \in Address <=> n \in Int /\ 0 <= n /\ n < 65536
<1>1. Half = 128
  BY CpuAssumption
<1>2. Size = 256
  BY <1>1 DEF Size
<1>3. Space = 65536
  BY <1>2 DEF Space
<1>4. Size \in Nat /\ Space \in Nat
  BY <1>2, <1>3
<1>5. \A n : n \in Byte <=> n \in Int /\ 0 <= n /\ n < Size
  BY <1>4, UpTo, Zenon DEF Byte
<1>6. \A n : n \in Address <=> n \in Int /\ 0 <= n /\ n < Space
  BY <1>4, UpTo, Zenon DEF Address
<1> QED
  BY <1>1, <1>2, <1>3, <1>5, <1>6

\* The registers and the memories are in their ranges.
Typed(c) == c \in CpuState(c.ram) /\ Memory(c.ram)

\* What Typed says of each register.
LEMMA Registers ==
    ASSUME NEW c, Typed(c)
    PROVE  /\ c.pc \in Address /\ c.address \in Address
           /\ c.ac \in Byte /\ c.x \in Byte /\ c.y \in Byte /\ c.sp \in Byte
           /\ c.sr \in SUBSET Flag /\ c.cycles \in Nat
           /\ Memory(c.ram)
BY DEF Typed, CpuState

\* One register takes a value, and the others keep theirs.
LEMMA SetPc ==
    ASSUME NEW c, Typed(c), NEW v \in Address
    PROVE  LET d == [c EXCEPT !.pc = v]
           IN  /\ Typed(d) /\ d.pc = v /\ d.address = c.address
               /\ d.ac = c.ac /\ d.x = c.x /\ d.y = c.y /\ d.sp = c.sp
               /\ d.sr = c.sr /\ d.ram = c.ram /\ d.cycles = c.cycles
BY DEF Typed, CpuState

LEMMA SetAddress ==
    ASSUME NEW c, Typed(c), NEW v \in Address
    PROVE  LET d == [c EXCEPT !.address = v]
           IN  /\ Typed(d) /\ d.pc = c.pc /\ d.address = v
               /\ d.ac = c.ac /\ d.x = c.x /\ d.y = c.y /\ d.sp = c.sp
               /\ d.sr = c.sr /\ d.ram = c.ram /\ d.cycles = c.cycles
BY DEF Typed, CpuState

LEMMA SetSp ==
    ASSUME NEW c, Typed(c), NEW v \in Byte
    PROVE  LET d == [c EXCEPT !.sp = v]
           IN  /\ Typed(d) /\ d.pc = c.pc /\ d.address = c.address
               /\ d.ac = c.ac /\ d.x = c.x /\ d.y = c.y /\ d.sp = v
               /\ d.sr = c.sr /\ d.ram = c.ram /\ d.cycles = c.cycles
BY DEF Typed, CpuState

LEMMA SetSr ==
    ASSUME NEW c, Typed(c), NEW v \in SUBSET Flag
    PROVE  LET d == [c EXCEPT !.sr = v]
           IN  /\ Typed(d) /\ d.pc = c.pc /\ d.address = c.address
               /\ d.ac = c.ac /\ d.x = c.x /\ d.y = c.y /\ d.sp = c.sp
               /\ d.sr = v /\ d.ram = c.ram /\ d.cycles = c.cycles
BY DEF Typed, CpuState

LEMMA SetCycles ==
    ASSUME NEW c, Typed(c), NEW v \in Nat
    PROVE  LET d == [c EXCEPT !.cycles = v]
           IN  /\ Typed(d) /\ d.pc = c.pc /\ d.address = c.address
               /\ d.ac = c.ac /\ d.x = c.x /\ d.y = c.y /\ d.sp = c.sp
               /\ d.sr = c.sr /\ d.ram = c.ram /\ d.cycles = v
BY DEF Typed, CpuState

LEMMA SetRam ==
    ASSUME NEW c, Typed(c), NEW v, Memory(v)
    PROVE  LET d == [c EXCEPT !.ram = v]
           IN  /\ Typed(d) /\ d.pc = c.pc /\ d.address = c.address
               /\ d.ac = c.ac /\ d.x = c.x /\ d.y = c.y /\ d.sp = c.sp
               /\ d.sr = c.sr /\ d.ram = v /\ d.cycles = c.cycles
BY DEF Typed, CpuState

\* An opcode on data sets four registers at once.
Loads(c, ac, x, y, sr) == [c EXCEPT !.ac = ac, !.x = x, !.y = y, !.sr = sr]

LEMMA SetData ==
    ASSUME NEW c, Typed(c), NEW ac \in Byte, NEW x \in Byte, NEW y \in Byte,
           NEW sr \in SUBSET Flag
    PROVE  LET d == Loads(c, ac, x, y, sr)
           IN  /\ Typed(d) /\ d.pc = c.pc /\ d.address = c.address
               /\ d.ac = ac /\ d.x = x /\ d.y = y /\ d.sp = c.sp
               /\ d.sr = sr /\ d.ram = c.ram /\ d.cycles = c.cycles
BY DEF Typed, CpuState, Loads
-----------------------------------------------------------------------------
(* The memories.                                                           *)

\* A cell of a writable address outside the I/O registers.
LEMMA CellOf ==
    ASSUME NEW a \in Address, Writable(a), ~IsPpu(a), ~IsIo(a)
    PROVE  Cell(a) \in RamCells
<1>1. a \in Nat /\ a < 32768
  BY Widths DEF Writable
<1>2. CASE IsRam(a)
  <2>1. a % 2048 \in Nat /\ a % 2048 < 2048
    BY <1>1, SMT
  <2>2. a % 2048 \in Address
    BY <2>1, Widths
  <2> QED
    BY <1>2, <2>1, <2>2 DEF Cell, RamCells
<1>3. CASE ~IsRam(a)
  BY <1>1, <1>3 DEF Cell, RamCells, IsRam, IsPpu, IsIo, IsCartridgeRam
<1> QED
  BY <1>2, <1>3

LEMMA RamType ==
    ASSUME NEW c, Memory(c.ram), NEW a
    PROVE  Ram(c, a) \in Byte
<1>1. 0 \in Byte
  BY Widths
<1> QED
  BY <1>1 DEF Ram, Memory

\* The bytes of PRG ROM.
LEMMA PrgType ==
    ASSUME prg \in DOMAIN Programs, NEW a \in Address, a >= 32768
    PROVE  Prg(a) \in Byte
<1>1. PrgRom \in Nat
  <2>1. Flags6 \in Nat
    BY HeaderAssumption
  <2> QED
    BY <2>1 DEF PrgRom
<1>2. PrgRomSize \in {1, 2}
  BY CpuAssumption
<1>3. PrgIndex(a) \in Nat /\ PrgIndex(a) <= 16384 * PrgRomSize - 1
  <2>1. a \in Nat /\ a <= 65535
    BY Widths
  <2>2. a % 16384 \in Nat /\ a % 16384 <= 16383
    BY <2>1, SMT
  <2>3. CASE PrgRomSize = 1
    BY <2>2, <2>3 DEF PrgIndex
  <2>4. CASE PrgRomSize = 2
    BY <2>1, <2>4 DEF PrgIndex
  <2> QED
    BY <1>2, <2>3, <2>4
<1>4. PrgRom + PrgIndex(a) \in 0 .. PrgRom + 16384 * PrgRomSize - 1
  BY <1>1, <1>2, <1>3
<1>5. \A p \in DOMAIN Programs : \A i \in 0 .. PrgRom + 16384 * PrgRomSize - 1 :
         Programs[p][i] \in Byte
  BY CpuAssumption
<1> QED
  BY <1>4, <1>5 DEF Prg

\* Every read returns a byte.
LEMMA ReadType ==
    ASSUME prg \in DOMAIN Programs, NEW c, Memory(c.ram), NEW a \in Address, NEW in \in Byte
    PROVE  Read(c, a, in) \in Byte
<1>1. a \in Nat /\ a < 65536
  BY Widths
<1>2. 0 \in Byte /\ in % 2 \in Byte
  <2>1. in \in Nat
    BY Widths
  <2>2. in % 2 \in {0, 1}
    BY <2>1, SMT
  <2> QED
    BY <2>2, Widths
<1>3. /\ IsPpu(a) => ~IsRam(a) /\ ~IsCartridgeRam(a)
      /\ IsIo(a) => ~IsRam(a) /\ ~IsCartridgeRam(a) /\ ~IsPpu(a)
      /\ IsRam(a) \/ IsCartridgeRam(a) \/ IsPpu(a) \/ IsIo(a) \/ a >= 32768
  BY <1>1 DEF IsRam, IsPpu, IsIo, IsCartridgeRam
<1>4. CASE IsRam(a) \/ IsCartridgeRam(a)
  BY <1>3, <1>4, RamType DEF Read
<1>5. CASE IsPpu(a)
  BY <1>2, <1>3, <1>5 DEF Read
<1>6. CASE IsIo(a)
  BY <1>2, <1>3, <1>6 DEF Read
<1>7. CASE ~(IsRam(a) \/ IsCartridgeRam(a)) /\ ~IsPpu(a) /\ ~IsIo(a)
  BY <1>3, <1>7, PrgType DEF Read
<1> QED
  BY <1>4, <1>5, <1>6, <1>7

LEMMA Read16Type ==
    ASSUME prg \in DOMAIN Programs, NEW c, Memory(c.ram), NEW a \in Address, NEW in \in Byte
    PROVE  Read16(c, a, in) \in Address
<1>1. (a + 1) % Space \in Address
  <2>1. a + 1 \in Nat
    BY Widths
  <2>2. (a + 1) % 65536 \in Nat /\ (a + 1) % 65536 < 65536
    BY <2>1, SMT
  <2> QED
    BY <2>2, Widths
<1>2. Read(c, a, in) \in Byte /\ Read(c, (a + 1) % Space, in) \in Byte
  BY <1>1, ReadType
<1> DEFINE l == Read(c, a, in)
           h == Read(c, (a + 1) % Space, in)
<1>3. Read16(c, a, in) = l + Size * h
  BY DEF Read16
<1> HIDE DEF l, h
<1>4. l \in Byte /\ h \in Byte
  BY <1>2 DEF l, h
<1>5. l + 256 * h \in Address
  BY <1>4, Widths
<1> QED
  BY <1>3, <1>5, Widths

\* A write changes the cell of its address, unless an I/O register has it.
LEMMA WriteTyped ==
    ASSUME NEW c, Typed(c), NEW a \in Address, Writable(a), NEW v \in Byte
    PROVE  LET d == Write(c, a, v)
           IN  /\ Typed(d) /\ d.pc = c.pc /\ d.address = c.address
               /\ d.ac = c.ac /\ d.x = c.x /\ d.y = c.y /\ d.sp = c.sp
               /\ d.sr = c.sr /\ d.cycles = c.cycles
               /\ \A b : Cell(b) # Cell(a) => Ram(d, b) = Ram(c, b)
               /\ ~(IsPpu(a) \/ IsIo(a)) => Ram(d, a) = v
<1>1. CASE IsPpu(a) \/ IsIo(a)
  BY <1>1 DEF Write
<1>2. CASE ~(IsPpu(a) \/ IsIo(a))
  <2> DEFINE m == [k \in DOMAIN c.ram \cup {Cell(a)} |-> IF k = Cell(a) THEN v ELSE c.ram[k]]
             d == [c EXCEPT !.ram = m]
  <2>1. Write(c, a, v) = d
    BY <1>2 DEF Write
  <2>2. Memory(m)
    BY <1>2, CellOf DEF Typed, Memory
  <2>3. /\ DOMAIN m = DOMAIN c.ram \cup {Cell(a)} /\ m[Cell(a)] = v
        /\ \A k \in DOMAIN c.ram : k # Cell(a) => m[k] = c.ram[k]
    OBVIOUS
  <2> HIDE DEF m
  <2>4. /\ Typed(d) /\ d.pc = c.pc /\ d.address = c.address
        /\ d.ac = c.ac /\ d.x = c.x /\ d.y = c.y /\ d.sp = c.sp
        /\ d.sr = c.sr /\ d.ram = m /\ d.cycles = c.cycles
    BY <2>2, SetRam
  <2> HIDE DEF d
  <2>5. \A b : Cell(b) # Cell(a) => Ram(d, b) = Ram(c, b)
    BY <2>3, <2>4 DEF Ram
  <2>6. Ram(d, a) = v
    BY <2>3, <2>4 DEF Ram
  <2> QED
    BY <2>1, <2>4, <2>5, <2>6
<1> QED
  BY <1>1, <1>2

-----------------------------------------------------------------------------
(* The stack.                                                              *)

\* The byte at place p of the stack's page; the place k below sp; everything
\* but the stack pointer and the memories.
Slot(c, p) == Ram(c, Size + p)
Down(sp, k) == (sp + Size - k) % Size
Alike(c, d) ==
    /\ d.pc = c.pc /\ d.address = c.address /\ d.ac = c.ac /\ d.x = c.x /\ d.y = c.y
    /\ d.sr = c.sr /\ d.cycles = c.cycles

LEMMA DownPlace ==
    ASSUME NEW sp \in Byte, NEW k \in 0 .. 3
    PROVE  /\ Down(sp, k) \in Byte
           /\ Down(sp, k) = IF sp >= k THEN sp - k ELSE sp + 256 - k
<1>1. sp \in Nat /\ sp < 256 /\ Size = 256
  BY Widths
<1>2. Down(sp, k) = IF sp >= k THEN sp - k ELSE sp + 256 - k
  BY <1>1, SMT DEF Down
<1> QED
  BY <1>1, <1>2, Widths

\* The same for the place k above, where the k-th pop reads.
LEMMA UpPlace ==
    ASSUME NEW sp \in Byte, NEW k \in 0 .. 3
    PROVE  /\ (sp + k) % Size \in Byte
           /\ (sp + k) % Size = IF sp + k < 256 THEN sp + k ELSE sp + k - 256
<1>1. sp \in Nat /\ sp < 256 /\ Size = 256
  BY Widths
<1>2. (sp + k) % Size = IF sp + k < 256 THEN sp + k ELSE sp + k - 256
  BY <1>1, SMT
<1> QED
  BY <1>1, <1>2, Widths

\* Each place has its own cell of ram.
LEMMA StackCell ==
    ASSUME NEW p \in Byte
    PROVE  /\ Size + p \in Address /\ Writable(Size + p)
           /\ ~IsPpu(Size + p) /\ ~IsIo(Size + p)
           /\ Cell(Size + p) = Size + p
<1>1. p \in Nat /\ p < 256 /\ Size = 256
  BY Widths
<1>2. (256 + p) % 2048 = 256 + p
  BY <1>1, SMT
<1>3. Size + p \in Address
  BY <1>1, Widths
<1> QED
  BY <1>1, <1>2, <1>3 DEF Writable, IsPpu, IsIo, IsRam, Cell

LEMMA PushEffect ==
    ASSUME NEW c, Typed(c), NEW v \in Byte
    PROVE  LET d == Push(c, v)
           IN  /\ Typed(d) /\ Alike(c, d) /\ d.sp = Down(c.sp, 1)
               /\ \A p \in Byte : Slot(d, p) = IF p = c.sp THEN v ELSE Slot(c, p)
<1> DEFINE e == Write(c, Size + c.sp, v)
           st == (c.sp + Size - 1) % Size
<1>1. c.sp \in Byte
  BY Registers
<1>2. st = Down(c.sp, 1) /\ st \in Byte
  BY <1>1, DownPlace DEF Down
<1>3. /\ Size + c.sp \in Address /\ Writable(Size + c.sp)
      /\ ~(IsPpu(Size + c.sp) \/ IsIo(Size + c.sp)) /\ Cell(Size + c.sp) = Size + c.sp
  BY <1>1, StackCell
<1>4. /\ Typed(e) /\ Alike(c, e) /\ e.sp = c.sp
      /\ \A b : Cell(b) # Cell(Size + c.sp) => Ram(e, b) = Ram(c, b)
      /\ Ram(e, Size + c.sp) = v
  BY <1>3, WriteTyped DEF Alike
<1>5. Push(c, v) = [e EXCEPT !.sp = st]
  BY DEF Push
<1> HIDE DEF e, st
<1> DEFINE d == [e EXCEPT !.sp = st]
<1>6. Typed(d) /\ Alike(e, d) /\ d.sp = st /\ d.ram = e.ram
  BY <1>2, <1>4, SetSp DEF Alike
<1> HIDE DEF d
<1>7. ASSUME NEW p \in Byte
      PROVE  Slot(d, p) = IF p = c.sp THEN v ELSE Slot(c, p)
  <2>1. Slot(d, p) = Ram(e, Size + p)
    BY <1>6 DEF Slot, Ram
  <2>2. CASE p = c.sp
    BY <1>4, <2>1, <2>2
  <2>3. CASE p # c.sp
    <3>1. Cell(Size + p) # Cell(Size + c.sp)
      BY <1>1, <1>3, <2>3, StackCell, Widths
    <3> QED
      BY <1>4, <2>1, <2>3, <3>1 DEF Slot
  <2> QED
    BY <2>2, <2>3
<1>8. Alike(c, d)
  BY <1>4, <1>6 DEF Alike
<1> QED
  BY <1>2, <1>5, <1>6, <1>7, <1>8 DEF d

LEMMA WordBytes ==
    ASSUME NEW v \in Address
    PROVE  /\ v \div Size \in Byte /\ v % Size \in Byte
           /\ v = Size * (v \div Size) + (v % Size)
<1>1. v \in Nat /\ v < 65536 /\ Size = 256
  BY Widths
<1>2. /\ v \div 256 \in Int /\ v \div 256 >= 0 /\ v \div 256 < 256
      /\ v % 256 \in Int /\ v % 256 >= 0 /\ v % 256 < 256
      /\ v = 256 * (v \div 256) + (v % 256)
  BY <1>1, SMT
<1> QED
  BY <1>1, <1>2, Widths

LEMMA Push16Effect ==
    ASSUME NEW c, Typed(c), NEW v \in Address
    PROVE  LET d == Push16(c, v)
           IN  /\ Typed(d) /\ Alike(c, d) /\ d.sp = Down(c.sp, 2)
               /\ Slot(d, c.sp) = v \div Size /\ Slot(d, Down(c.sp, 1)) = v % Size
               /\ \A p \in Byte \ {c.sp, Down(c.sp, 1)} : Slot(d, p) = Slot(c, p)
<1> DEFINE h == v \div Size
           l == v % Size
           e == Push(c, h)
           d == Push(e, l)
<1>1. h \in Byte /\ l \in Byte
  BY WordBytes
<1>2. Push16(c, v) = d
  BY DEF Push16
<1> HIDE DEF h, l
<1>3. /\ Typed(e) /\ Alike(c, e) /\ e.sp = Down(c.sp, 1)
      /\ \A p \in Byte : Slot(e, p) = IF p = c.sp THEN h ELSE Slot(c, p)
  BY <1>1, PushEffect
<1> HIDE DEF e
<1>4. /\ Typed(d) /\ Alike(e, d) /\ d.sp = Down(e.sp, 1)
      /\ \A p \in Byte : Slot(d, p) = IF p = e.sp THEN l ELSE Slot(e, p)
  BY <1>1, <1>3, PushEffect
<1> HIDE DEF d
<1>5. c.sp \in Byte
  BY Registers
<1>6. /\ Down(c.sp, 1) \in Byte /\ Down(c.sp, 1) # c.sp
      /\ Down(Down(c.sp, 1), 1) = Down(c.sp, 2)
  <2>1. c.sp \in Nat /\ c.sp < 256
    BY <1>5, Widths
  <2>2. /\ Down(c.sp, 1) \in Byte
        /\ Down(c.sp, 1) = IF c.sp >= 1 THEN c.sp - 1 ELSE c.sp + 256 - 1
        /\ Down(c.sp, 2) = IF c.sp >= 2 THEN c.sp - 2 ELSE c.sp + 256 - 2
    BY <1>5, DownPlace
  <2>3. Down(Down(c.sp, 1), 1) =
           IF Down(c.sp, 1) >= 1 THEN Down(c.sp, 1) - 1 ELSE Down(c.sp, 1) + 256 - 1
    BY <2>2, DownPlace
  <2> QED
    BY <2>1, <2>2, <2>3
<1>7. Alike(c, d)
  BY <1>3, <1>4 DEF Alike
<1>8. Slot(d, c.sp) = h /\ Slot(d, Down(c.sp, 1)) = l
  BY <1>3, <1>4, <1>5, <1>6
<1>9. \A p \in Byte \ {c.sp, Down(c.sp, 1)} : Slot(d, p) = Slot(c, p)
  BY <1>3, <1>4
<1>10. d.sp = Down(c.sp, 2)
  BY <1>3, <1>4, <1>6
<1> QED
  BY <1>2, <1>4, <1>7, <1>8, <1>9, <1>10 DEF h, l

\* What an interrupt or a BRK pushes.
LEMMA Push3Effect ==
    ASSUME NEW c, Typed(c), NEW v \in Address, NEW b \in Byte
    PROVE  LET d == Push(Push16(c, v), b)
           IN  /\ Typed(d) /\ Alike(c, d) /\ d.sp = Down(c.sp, 3)
               /\ Slot(d, c.sp) = v \div Size /\ Slot(d, Down(c.sp, 1)) = v % Size
               /\ Slot(d, Down(c.sp, 2)) = b
               /\ \A p \in Byte \ {c.sp, Down(c.sp, 1), Down(c.sp, 2)} :
                     Slot(d, p) = Slot(c, p)
<1> DEFINE e == Push16(c, v)
           d == Push(e, b)
<1>1. /\ Typed(e) /\ Alike(c, e) /\ e.sp = Down(c.sp, 2)
      /\ Slot(e, c.sp) = v \div Size /\ Slot(e, Down(c.sp, 1)) = v % Size
      /\ \A p \in Byte \ {c.sp, Down(c.sp, 1)} : Slot(e, p) = Slot(c, p)
  BY Push16Effect
<1> HIDE DEF e
<1>2. /\ Typed(d) /\ Alike(e, d) /\ d.sp = Down(e.sp, 1)
      /\ \A p \in Byte : Slot(d, p) = IF p = e.sp THEN b ELSE Slot(e, p)
  BY <1>1, PushEffect
<1> HIDE DEF d
<1>3. c.sp \in Byte
  BY Registers
<1>4. /\ Down(c.sp, 1) \in Byte /\ Down(c.sp, 2) \in Byte
      /\ Down(c.sp, 2) # c.sp /\ Down(c.sp, 2) # Down(c.sp, 1)
      /\ Down(Down(c.sp, 2), 1) = Down(c.sp, 3)
  <2>1. c.sp \in Nat /\ c.sp < 256
    BY <1>3, Widths
  <2>2. /\ Down(c.sp, 1) \in Byte /\ Down(c.sp, 2) \in Byte
        /\ Down(c.sp, 1) = IF c.sp >= 1 THEN c.sp - 1 ELSE c.sp + 256 - 1
        /\ Down(c.sp, 2) = IF c.sp >= 2 THEN c.sp - 2 ELSE c.sp + 256 - 2
        /\ Down(c.sp, 3) = IF c.sp >= 3 THEN c.sp - 3 ELSE c.sp + 256 - 3
    BY <1>3, DownPlace
  <2>3. Down(Down(c.sp, 2), 1) =
           IF Down(c.sp, 2) >= 1 THEN Down(c.sp, 2) - 1 ELSE Down(c.sp, 2) + 256 - 1
    BY <2>2, DownPlace
  <2> QED
    BY <2>1, <2>2, <2>3
<1>5. Alike(c, d)
  BY <1>1, <1>2 DEF Alike
<1>6. /\ Slot(d, c.sp) = Slot(e, c.sp) /\ Slot(d, Down(c.sp, 1)) = Slot(e, Down(c.sp, 1))
      /\ Slot(d, Down(c.sp, 2)) = b
  BY <1>1, <1>2, <1>3, <1>4
<1>7. \A p \in Byte \ {c.sp, Down(c.sp, 1), Down(c.sp, 2)} : Slot(d, p) = Slot(c, p)
  BY <1>1, <1>2
<1>8. d.sp = Down(c.sp, 3)
  BY <1>1, <1>2, <1>4
<1> QED
  BY <1>1, <1>2, <1>5, <1>6, <1>7, <1>8 DEF e, d

LEMMA PoppedEffect ==
    ASSUME NEW c, Typed(c), NEW n \in 0 .. 3
    PROVE  LET d == Popped(c, n)
           IN  /\ Typed(d) /\ Alike(c, d) /\ d.sp = (c.sp + n) % Size
               /\ d.ram = c.ram
<1>1. (c.sp + n) % Size \in Byte
  BY Registers, UpPlace
<1> DEFINE st == (c.sp + n) % Size
<1>2. Popped(c, n) = [c EXCEPT !.sp = st]
  BY DEF Popped
<1> HIDE DEF st
<1>3. st \in Byte
  BY <1>1 DEF st
<1> QED
  BY <1>2, <1>3, SetSp DEF Alike, st

LEMMA TopByte ==
    ASSUME NEW c, Typed(c), NEW n
    PROVE  Top(c, n) \in Byte /\ Top(c, n) = Slot(c, (c.sp + n) % Size)
BY Registers, RamType DEF Top, Slot

LEMMA BytesWord ==
    ASSUME NEW l \in Byte, NEW h \in Byte
    PROVE  l + Size * h \in Address
<1>1. l \in Nat /\ l < 256 /\ h \in Nat /\ h < 256 /\ Size = 256
  BY Widths
<1>2. l + 256 * h \in Nat /\ l + 256 * h < 65536
  BY <1>1
<1> QED
  BY <1>1, <1>2, Widths

LEMMA Top16Type ==
    ASSUME NEW c, Typed(c), NEW n
    PROVE  Top16(c, n) \in Address
BY TopByte, BytesWord DEF Top16

-----------------------------------------------------------------------------
(* The status byte.                                                        *)

\* The weight of each flag belongs to it alone.
LEMMA Weights ==
    /\ Weight["C"] = 1 /\ Weight["Z"] = 2 /\ Weight["I"] = 4 /\ Weight["D"] = 8
    /\ Weight["B"] = 16 /\ Weight["U"] = 32 /\ Weight["V"] = 64 /\ Weight["N"] = 128
    /\ DOMAIN Weight = Flag
BY DEF Weight, Flag

\* The status byte has the bits of the flags that are set.
LEMMA StatusBits ==
    ASSUME NEW sr \in SUBSET Flag
    PROVE  /\ StatusByte(sr) \in Byte
           /\ \A f \in Flag : HasBit(StatusByte(sr), Weight[f]) <=> f \in sr
<1> DEFINE bit(f) == IF f \in sr THEN 1 ELSE 0
           n == bit("C") + 2 * bit("Z") + 4 * bit("I") + 8 * bit("D")
                  + 16 * bit("B") + 32 * bit("U") + 64 * bit("V") + 128 * bit("N")
<1>1. /\ (\E f \in sr : Weight[f] = 1) <=> "C" \in sr
      /\ (\E f \in sr : Weight[f] = 2) <=> "Z" \in sr
      /\ (\E f \in sr : Weight[f] = 4) <=> "I" \in sr
      /\ (\E f \in sr : Weight[f] = 8) <=> "D" \in sr
      /\ (\E f \in sr : Weight[f] = 16) <=> "B" \in sr
      /\ (\E f \in sr : Weight[f] = 32) <=> "U" \in sr
      /\ (\E f \in sr : Weight[f] = 64) <=> "V" \in sr
      /\ (\E f \in sr : Weight[f] = 128) <=> "N" \in sr
  BY Weights DEF Flag
<1>2. StatusByte(sr) = n
  BY <1>1, SMT DEF StatusByte, Bits
<1>3. \A f : bit(f) \in 0 .. 1 /\ (bit(f) = 1 <=> f \in sr)
  OBVIOUS
<1> HIDE DEF bit
<1>4. /\ n \in Nat /\ n < 256
      /\ (n \div 1) % 2 = bit("C")
      /\ (n \div 2) % 2 = bit("Z")
      /\ (n \div 4) % 2 = bit("I")
      /\ (n \div 8) % 2 = bit("D")
      /\ (n \div 16) % 2 = bit("B")
      /\ (n \div 32) % 2 = bit("U")
      /\ (n \div 64) % 2 = bit("V")
      /\ (n \div 128) % 2 = bit("N")
  <2>1. PICK b0 \in 0 .. 1 : b0 = bit("C")
    BY <1>3
  <2>2. PICK b1 \in 0 .. 1 : b1 = bit("Z")
    BY <1>3
  <2>3. PICK b2 \in 0 .. 1 : b2 = bit("I")
    BY <1>3
  <2>4. PICK b3 \in 0 .. 1 : b3 = bit("D")
    BY <1>3
  <2>5. PICK b4 \in 0 .. 1 : b4 = bit("B")
    BY <1>3
  <2>6. PICK b5 \in 0 .. 1 : b5 = bit("U")
    BY <1>3
  <2>7. PICK b6 \in 0 .. 1 : b6 = bit("V")
    BY <1>3
  <2>8. PICK b7 \in 0 .. 1 : b7 = bit("N")
    BY <1>3
  <2>9. n = b0 + 2 * b1 + 4 * b2 + 8 * b3 + 16 * b4 + 32 * b5 + 64 * b6 + 128 * b7
    BY <2>1, <2>2, <2>3, <2>4, <2>5, <2>6, <2>7, <2>8
  <2> HIDE DEF n
  <2>10. n \in Nat /\ n < 256
    BY <2>9, SMT
  <2>11. (n \div 1) % 2 = b0
    BY <2>9, SMT
  <2>12. (n \div 2) % 2 = b1
    BY <2>9, SMT
  <2>13. (n \div 4) % 2 = b2
    BY <2>9, SMT
  <2>14. (n \div 8) % 2 = b3
    BY <2>9, SMT
  <2>15. (n \div 16) % 2 = b4
    BY <2>9, SMT
  <2>16. (n \div 32) % 2 = b5
    BY <2>9, SMT
  <2>17. (n \div 64) % 2 = b6
    BY <2>9, SMT
  <2>18. (n \div 128) % 2 = b7
    BY <2>9, SMT
  <2> QED
    BY <2>1, <2>2, <2>3, <2>4, <2>5, <2>6, <2>7, <2>8, <2>10, <2>11, <2>12, <2>13,
       <2>14, <2>15, <2>16, <2>17, <2>18
<1> HIDE DEF n
<1>5. n \in Byte
  BY <1>4, Widths
<1>6. \A f \in Flag : HasBit(n, Weight[f]) <=> f \in sr
  BY <1>3, <1>4, Weights DEF HasBit, Flag
<1> QED
  BY <1>2, <1>5, <1>6

\* What PLP and RTI pull is a set of flags; from a status byte that holds the
\* flags of sr it is sr, but for the two bits that are not taken.
LEMMA PulledFlags ==
    ASSUME NEW sr \in SUBSET Flag, NEW v
    PROVE  /\ Pulled(sr, v) \in SUBSET Flag
           /\ "B" \in Pulled(sr, v) <=> "B" \in sr
           /\ "U" \in Pulled(sr, v) <=> "U" \in sr
           /\ \A f \in Flag \ {"B", "U"} : f \in Pulled(sr, v) <=> HasBit(v, Weight[f])
BY DEF Pulled, Flag

-----------------------------------------------------------------------------
(* Addresses.                                                              *)

\* Only the program counter, the address and the cycles have changed.
Aimed(c, d, extra) ==
    /\ Typed(d) /\ d.ac = c.ac /\ d.x = c.x /\ d.y = c.y
    /\ d.sp = c.sp /\ d.sr = c.sr /\ d.ram = c.ram
    /\ d.cycles = c.cycles + extra

LEMMA Wrapped ==
    ASSUME NEW n \in Nat
    PROVE  n % Space \in Address /\ n % Size \in Byte
<1>1. n % 65536 \in Int /\ 0 <= n % 65536 /\ n % 65536 < 65536
  BY SMT
<1>2. n % 256 \in Int /\ 0 <= n % 256 /\ n % 256 < 256
  BY SMT
<1> QED
  BY <1>1, <1>2, Widths

LEMMA ByteAddress ==
    ASSUME NEW n \in Byte
    PROVE  n \in Address /\ n \in Nat
BY Widths

LEMMA AddressNat ==
    ASSUME NEW n \in Address
    PROVE  n \in Nat
BY Widths

LEMMA AtAims ==
    ASSUME NEW c, Typed(c), NEW a \in Address, NEW n \in 0 .. 2
    PROVE  Aimed(c, At(c, a, n), 0)
<1> DEFINE v == (c.pc + n) % Space
           e == [c EXCEPT !.address = a]
<1>1. v \in Address
  BY Registers, AddressNat, Wrapped
<1>2. Typed(e) /\ Aimed(c, e, 0) /\ c.cycles \in Nat
  BY SetAddress, Registers DEF Aimed
<1>3. At(c, a, n) = [e EXCEPT !.pc = v]
  BY DEF At
<1> HIDE DEF v, e
<1> QED
  BY <1>1, <1>2, <1>3, SetPc DEF Aimed

LEMMA IndexedAims ==
    ASSUME NEW c, Typed(c), NEW op, NEW base \in Address, NEW index \in Byte,
           NEW n \in 0 .. 2
    PROVE  \E extra \in 0 .. 1 :
              /\ Aimed(c, Indexed(c, op, base, index, n), extra)
              /\ extra = 1 => PaysForCrossing(op)
<1> DEFINE a == (base + index) % Space
           extra == IF PaysForCrossing(op) /\ Crosses(base, a) THEN 1 ELSE 0
           e == At(c, a, n)
           v == e.cycles + extra
<1>1. a \in Address
  BY AddressNat, ByteAddress, Wrapped
<1>2. extra \in 0 .. 1 /\ (extra = 1 => PaysForCrossing(op))
  OBVIOUS
<1>3. Indexed(c, op, base, index, n) = [e EXCEPT !.cycles = v]
  BY DEF Indexed
<1> HIDE DEF a, extra
<1>4. Aimed(c, e, 0) /\ c.cycles \in Nat
  BY <1>1, AtAims, Registers
<1> HIDE DEF e
<1>5. v \in Nat /\ v = c.cycles + extra
  BY <1>2, <1>4 DEF Aimed
<1> HIDE DEF v
<1>6. Aimed(c, [e EXCEPT !.cycles = v], extra)
  BY <1>4, <1>5, SetCycles DEF Aimed
<1> QED
  BY <1>2, <1>3, <1>6

LEMMA PointerType ==
    ASSUME NEW c, Typed(c), NEW zp
    PROVE  Pointer(c, zp) \in Address
<1>1. Ram(c, zp) \in Byte /\ Ram(c, (zp + 1) % Size) \in Byte
  BY Registers, RamType
<1> QED
  BY <1>1, BytesWord DEF Pointer

LEMMA IndirectType ==
    ASSUME prg \in DOMAIN Programs, NEW c, Typed(c), NEW p \in Address, NEW in \in Byte
    PROVE  IndirectTarget(c, p, in) \in Address
<1> DEFINE q == (p \div Size) * Size + ((p + 1) % Size)
<1>1. p \div Size \in Byte /\ (p + 1) % Size \in Byte
  BY WordBytes, AddressNat, Wrapped
<1>2. q = ((p + 1) % Size) + Size * (p \div Size)
  <2>1. \A m, n \in Byte : n * Size + m = m + Size * n
    BY Widths
  <2> QED
    BY <1>1, <2>1
<1>3. q \in Address
  BY <1>1, <1>2, BytesWord
<1>4. IndirectTarget(c, p, in) = Read(c, p, in) + Size * Read(c, q, in)
  BY DEF IndirectTarget
<1> HIDE DEF q
<1>5. Read(c, p, in) \in Byte /\ Read(c, q, in) \in Byte
  BY <1>3, ReadType, Registers
<1> QED
  BY <1>4, <1>5, BytesWord

LEMMA BranchTarget ==
    ASSUME NEW pc \in Address, NEW v \in Byte
    PROVE  (pc + 1 + Signed(v) + Space) % Space \in Address
<1>1. Signed(v) \in Int /\ Signed(v) >= -256
  BY Widths DEF Signed, Negative
<1>2. pc + 1 + Signed(v) + Space \in Nat
  BY <1>1, Widths
<1> QED
  BY <1>2, Wrapped

\* set_address() aims in every mode, and pays for a crossed page in three.
LEMMA Aims ==
    ASSUME prg \in DOMAIN Programs, NEW c, Typed(c), NEW op, NEW mode, NEW in \in Byte
    PROVE  \E extra \in 0 .. 1 :
              /\ Aimed(c, set_address(c, op, mode, in), extra)
              /\ extra = 1 => PaysForCrossing(op) /\ mode \in {"ABX", "ABY", "YIN"}
<1> DEFINE d == set_address(c, op, mode, in)
           byte == Read(c, c.pc, in)
           word == Read16(c, c.pc, in)
           Aiming == \E extra \in 0 .. 1 :
              /\ Aimed(c, d, extra)
              /\ extra = 1 => PaysForCrossing(op) /\ mode \in {"ABX", "ABY", "YIN"}
<1>1. c.pc \in Address /\ c.x \in Byte /\ c.y \in Byte /\ Memory(c.ram)
  BY Registers
<1>2. byte \in Byte /\ word \in Address
  BY <1>1, ReadType, Read16Type
<1>3. 0 \in 0 .. 1 /\ 0 # 1 /\ 1 \in 0 .. 2 /\ 2 \in 0 .. 2
  OBVIOUS
<1>4. (byte + c.x) % Size \in Byte /\ (byte + c.y) % Size \in Byte
  BY <1>1, <1>2, ByteAddress, Wrapped
<1> USE DEF set_address
<1>5. CASE mode = "ABS"
  <2>1. d = At(c, word, 2)
    BY <1>5
  <2> QED
    BY <1>2, <1>3, <2>1, AtAims
<1>6. CASE mode = "ABX"
  <2>1. d = Indexed(c, op, word, c.x, 2)
    BY <1>6
  <2> QED
    BY <1>1, <1>2, <1>3, <1>6, <2>1, IndexedAims
<1>7. CASE mode = "ABY"
  <2>1. d = Indexed(c, op, word, c.y, 2)
    BY <1>7
  <2> QED
    BY <1>1, <1>2, <1>3, <1>7, <2>1, IndexedAims
<1>8. CASE mode = "IMM"
  <2>1. d = At(c, c.pc, 1)
    BY <1>8
  <2> QED
    BY <1>1, <1>3, <2>1, AtAims
<1>9. CASE mode = "IND"
  <2>1. d = At(c, IndirectTarget(c, word, in), 2)
    BY <1>9
  <2> QED
    BY <1>2, <1>3, <2>1, AtAims, IndirectType
<1>10. CASE mode = "XIN"
  <2>1. d = At(c, Pointer(c, (byte + c.x) % Size), 1)
    BY <1>10
  <2> QED
    BY <1>3, <2>1, AtAims, PointerType
<1>11. CASE mode = "YIN"
  <2>1. d = Indexed(c, op, Pointer(c, byte), c.y, 1)
    BY <1>11
  <2> QED
    BY <1>1, <1>3, <1>11, <2>1, IndexedAims, PointerType
<1>12. CASE mode = "REL"
  <2>1. d = At(c, (c.pc + 1 + Signed(byte) + Space) % Space, 1)
    BY <1>12
  <2> QED
    BY <1>1, <1>2, <1>3, <2>1, AtAims, BranchTarget
<1>13. CASE mode = "ZP0"
  <2>1. d = At(c, byte, 1)
    BY <1>13
  <2> QED
    BY <1>2, <1>3, <2>1, AtAims, ByteAddress
<1>14. CASE mode = "ZPX"
  <2>1. d = At(c, (byte + c.x) % Size, 1)
    BY <1>14
  <2> QED
    BY <1>3, <1>4, <2>1, AtAims, ByteAddress
<1>15. CASE mode = "ZPY"
  <2>1. d = At(c, (byte + c.y) % Size, 1)
    BY <1>15
  <2> QED
    BY <1>3, <1>4, <2>1, AtAims, ByteAddress
<1>16. CASE mode \notin {"ABS", "ABX", "ABY", "IMM", "IND", "XIN", "YIN", "REL",
                         "ZP0", "ZPX", "ZPY"}
  <2>1. d = c
    BY <1>16
  <2>2. Aimed(c, c, 0)
    BY Registers DEF Aimed
  <2> QED
    BY <1>3, <2>1, <2>2
<1> QED
  BY <1>5, <1>6, <1>7, <1>8, <1>9, <1>10, <1>11, <1>12, <1>13, <1>14, <1>15, <1>16

-----------------------------------------------------------------------------
(* The table of instructions.                                              *)

Modes == {"ABX", "ABY", "YIN"}
Control ==
    Branches \cup {"JMP", "JSR", "RTS", "RTI", "BRK", "PHA", "PHP", "PLA", "PLP", "TXS",
                  "TSX", "SHX", "SHY"}

\* What the proofs need of a row of the table.
Row(op, mode) ==
    /\ op \in Control \cup DataOps \cup Unimplemented
    /\ op # "JAM" => Cycles(op, mode) \in 2 .. 8
    /\ mode \in Modes /\ PaysForCrossing(op) /\ op # "JAM" => Cycles(op, mode) < 8
    /\ op \in Branches => mode = "REL" /\ Cycles(op, mode) = 2
    /\ WritesOperand(op, mode) /\ PaysForCrossing(op) => mode \notin Modes

LEMMA Rows ==
    ASSUME NEW op, NEW mode, <<op, mode>> \in Instructions
    PROVE  Row(op, mode)
<1> DEFINE indexed == {"ZP0", "ZPX", "ABS", "ABX", "ABY", "XIN", "YIN"}
<1> USE DEF Row, Control, Modes, Branches, DataOps, Unimplemented, Cycles, Modifies, Stores,
            PaysForCrossing, WritesOperand
<1>1. CASE <<op, mode>> \in {"ORA", "AND", "EOR", "ADC", "LDA", "CMP", "SBC"}
                              \X (indexed \cup {"IMM"})
  BY <1>1
<1>2. CASE <<op, mode>> \in {"STA", "SLO", "RLA", "SRE", "RRA", "DCP", "ISB"} \X indexed
  BY <1>2
<1>3. CASE <<op, mode>> \in {"ASL", "LSR", "ROL", "ROR"} \X {"ACC", "ZP0", "ZPX", "ABS", "ABX"}
  BY <1>3
<1>4. CASE <<op, mode>> \in {"INC", "DEC"} \X {"ZP0", "ZPX", "ABS", "ABX"}
  BY <1>4
<1>5. CASE <<op, mode>> \in {"LDX"} \X {"IMM", "ZP0", "ZPY", "ABS", "ABY"}
  BY <1>5
<1>6. CASE <<op, mode>> \in {"LDY"} \X {"IMM", "ZP0", "ZPX", "ABS", "ABX"}
  BY <1>6
<1>7. CASE <<op, mode>> \in {"LAX"} \X {"IMM", "ZP0", "ZPY", "ABS", "ABY", "XIN", "YIN"}
  BY <1>7
<1>8. CASE <<op, mode>> \in {"SAX"} \X {"ZP0", "ZPY", "ABS", "XIN"}
  BY <1>8
<1>9. CASE <<op, mode>> \in {"STX"} \X {"ZP0", "ZPY", "ABS"}
  BY <1>9
<1>10. CASE <<op, mode>> \in {"STY"} \X {"ZP0", "ZPX", "ABS"}
  BY <1>10
<1>11. CASE <<op, mode>> \in {"CPX", "CPY"} \X {"IMM", "ZP0", "ABS"}
  BY <1>11
<1>12. CASE <<op, mode>> \in {"BIT"} \X {"ZP0", "ABS"}
  BY <1>12
<1>13. CASE <<op, mode>> \in {"ALR", "ANC", "ANE", "ARR", "SBX"} \X {"IMM"}
  BY <1>13
<1>14. CASE <<op, mode>> \in {"NOP"} \X {"IMP", "IMM", "ZP0", "ZPX", "ABS", "ABX"}
  BY <1>14
<1>15. CASE <<op, mode>> \in {"BCC", "BCS", "BEQ", "BMI", "BNE", "BPL", "BVC", "BVS"}
                               \X {"REL"}
  BY <1>15
<1>16. CASE <<op, mode>> \in
          {"BRK", "CLC", "CLD", "CLI", "CLV", "DEX", "DEY", "INX", "INY", "PHA", "PHP",
           "PLA", "PLP", "RTI", "RTS", "SEC", "SED", "SEI", "TAX", "TAY", "TSX", "TXA",
           "TXS", "TYA"} \X {"IMP"}
  BY <1>16
<1>17. CASE <<op, mode>> \in {"JMP", "JSR"} \X {"ABS"}
  BY <1>17
<1>18. CASE <<op, mode>> \in {"JMP"} \X {"IND"}
  BY <1>18
<1>19. CASE <<op, mode>> \in {"JAM"} \X {"UNK"}
  BY <1>19
<1>20. CASE <<op, mode>> \in {"SHA"} \X {"ABY", "YIN"}
  BY <1>20
<1>21. CASE <<op, mode>> \in {"SHX", "TAS", "LAS"} \X {"ABY"}
  BY <1>21
<1>22. CASE <<op, mode>> \in {"SHY"} \X {"ABX"}
  BY <1>22
<1> QED
  BY <1>1, <1>2, <1>3, <1>4, <1>5, <1>6, <1>7, <1>8, <1>9, <1>10, <1>11, <1>12, <1>13,
     <1>14, <1>15, <1>16, <1>17, <1>18, <1>19, <1>20, <1>21, <1>22 DEF Instructions

-----------------------------------------------------------------------------
(* The two bits of the status register that no opcode on data touches.     *)

Operands == {"ac", "x", "y", "m"}
SameBU(sr, other) == ("B" \in other <=> "B" \in sr) /\ ("U" \in other <=> "U" \in sr)

\* u is a state whose BREAK and UNUSED are those of sr.
Calm(sr, u) == "sr" \in DOMAIN u /\ SameBU(sr, u.sr)

LEMMA FlagsCalm ==
    ASSUME NEW sr, NEW other, SameBU(sr, other), NEW f \in Flag \ {"B", "U"},
           NEW value, NEW v
    PROVE  /\ SameBU(sr, set_flag(other, f, value))
           /\ SameBU(sr, set_ZN_flags(other, v))
BY DEF SameBU, set_flag, set_ZN_flags

LEMMA FieldCalm ==
    ASSUME NEW sr, NEW u, Calm(sr, u), NEW reg \in Operands, NEW v
    PROVE  Calm(sr, [u EXCEPT ![reg] = v])
BY DEF Calm, Operands

LEMMA StatusCalm ==
    ASSUME NEW sr, NEW u, Calm(sr, u), NEW other, SameBU(sr, other)
    PROVE  Calm(sr, [u EXCEPT !.sr = other])
BY DEF Calm

LEMMA WithFlagCalm ==
    ASSUME NEW sr, NEW u, Calm(sr, u), NEW f \in Flag \ {"B", "U"}, NEW value
    PROVE  Calm(sr, WithFlag(u, f, value))
<1> DEFINE w == set_flag(u.sr, f, value)
<1>1. SameBU(sr, w)
  BY FlagsCalm DEF Calm
<1>2. WithFlag(u, f, value) = [u EXCEPT !.sr = w]
  BY DEF WithFlag
<1> HIDE DEF w
<1> QED
  BY <1>1, <1>2, StatusCalm

LEMMA PutCalm ==
    ASSUME NEW sr, NEW u, Calm(sr, u), NEW reg \in Operands, NEW v
    PROVE  Calm(sr, Put(u, reg, v))
<1> DEFINE e == [u EXCEPT ![reg] = v]
           w == set_ZN_flags(u.sr, v)
<1>1. SameBU(sr, w)
  BY FlagsCalm DEF Calm, Flag
<1>2. Calm(sr, e) /\ e.sr = u.sr
  BY FieldCalm DEF Calm, Operands
<1>3. Put(u, reg, v) = [e EXCEPT !.sr = w]
  BY <1>2 DEF Put
<1> HIDE DEF e, w
<1> QED
  BY <1>1, <1>2, <1>3, StatusCalm

LEMMA CompareCalm ==
    ASSUME NEW sr, NEW u, Calm(sr, u), NEW a, NEW v
    PROVE  Calm(sr, Compare(u, a, v))
<1> DEFINE z == set_ZN_flags(u.sr, (a + Size - v) % Size)
           w == set_flag(z, "C", a >= v)
<1>1. SameBU(sr, z)
  BY FlagsCalm DEF Calm, Flag
<1>2. Compare(u, a, v) = [u EXCEPT !.sr = w]
  BY DEF Compare
<1> HIDE DEF z
<1>3. SameBU(sr, w)
  BY <1>1, FlagsCalm DEF Flag
<1> HIDE DEF w
<1> QED
  BY <1>2, <1>3, StatusCalm

\* Under every opcode on data.
LEMMA ExecutedCalm ==
    ASSUME NEW st, "sr" \in DOMAIN st, NEW op \in DataOps, NEW reg \in {"ac", "m"}
    PROVE  SameBU(st.sr, Executed(op, st, reg).sr)
<1> DEFINE sr == st.sr
           C(u) == Calm(sr, u)
<1>1. C(st)
  BY DEF Calm, SameBU
<1>2. /\ \A u, r, v : C(u) /\ r \in Operands => C(Put(u, r, v))
      /\ \A u, f, v : C(u) /\ f \in Flag \ {"B", "U"} => C(WithFlag(u, f, v))
      /\ \A u, r, v : C(u) /\ r \in Operands => C([u EXCEPT ![r] = v])
      /\ \A u, a, v : C(u) => C(Compare(u, a, v))
  BY PutCalm, WithFlagCalm, FieldCalm, CompareCalm
<1>3. reg \in Operands /\ {"ac", "x", "y", "m"} \subseteq Operands
      /\ {"C", "Z", "I", "D", "V", "N"} \subseteq Flag \ {"B", "U"}
  BY DEF Operands, Flag
<1> HIDE DEF C
<1>4. \A u, v : C(u) => C(Add(u, v)) /\ C(Subtract(u, v))
  BY <1>2, <1>3 DEF Add, Subtract
<1>5. \A r \in Operands : \A u : C(u) =>
         /\ C(shift_left(u, r)) /\ C(shift_right(u, r))
         /\ C(rotate_left(u, r)) /\ C(rotate_right(u, r))
  BY <1>2, <1>3 DEF shift_left, shift_right, rotate_left, rotate_right
<1>6. \A r \in Operands : C(Incremented(st, r)) /\ C(Decremented(st, r))
  BY <1>1, <1>2 DEF Incremented, Decremented
<1>7. C(AND(st)) /\ C(ORA(st)) /\ C(EOR(st)) /\ C(BIT(st))
  BY <1>1, <1>2, <1>3 DEF AND, ORA, EOR, BIT
<1>8. C(CMP(st)) /\ C(CPX(st)) /\ C(CPY(st)) /\ C(ADC(st)) /\ C(SBC(st))
  BY <1>1, <1>2, <1>4 DEF CMP, CPX, CPY, ADC, SBC
<1>9. \A v : C(Store(st, v))
  BY <1>1, <1>2, <1>3 DEF Store
<1>10. C(ALR(st)) /\ C(ANC(st)) /\ C(ARR(st)) /\ C(SAX(st)) /\ C(SBX(st))
  BY <1>1, <1>2, <1>3, <1>5, <1>9 DEF ALR, ANC, ARR, SAX, SBX
<1>11. C(ISB(st)) /\ C(RLA(st)) /\ C(RRA(st)) /\ C(SLO(st)) /\ C(SRE(st))
  BY <1>1, <1>2, <1>3, <1>4 DEF ISB, RLA, RRA, SLO, SRE
<1>12. C(LAX(st)) /\ C(DCP(st))
  <2> DEFINE v == (st.m + Size - 1) % Size
             p == [st EXCEPT !.ac = st.m]
             q == [p EXCEPT !.x = st.m]
             r == [st EXCEPT !.m = v]
             z == set_ZN_flags(st.sr, st.m)
             f == set_flag(st.sr, "C", st.ac >= v)
             w == set_ZN_flags(f, (st.ac + Size - v) % Size)
  <2>1. LAX(st) = [q EXCEPT !.sr = z] /\ DCP(st) = [r EXCEPT !.sr = w]
    BY DEF LAX, DCP
  <2>2. SameBU(sr, z) /\ SameBU(sr, f)
    BY DEF SameBU, set_flag, set_ZN_flags
  <2> HIDE DEF z, f, v
  <2>3. SameBU(sr, w)
    BY <1>3, <2>2, FlagsCalm
  <2>4. C(p) /\ C(r)
    BY <1>1, <1>2, <1>3
  <2> HIDE DEF p, r, w
  <2>5. C(q)
    BY <1>2, <1>3, <2>4
  <2> HIDE DEF q
  <2> QED
    BY <2>1, <2>2, <2>3, <2>4, <2>5, StatusCalm DEF C
<1>13. op \in {"ASL", "LSR", "ROL", "ROR"} => C(Executed(op, st, reg))
  <2>1. /\ Executed("ASL", st, reg) = shift_left(st, reg)
        /\ Executed("LSR", st, reg) = shift_right(st, reg)
        /\ Executed("ROL", st, reg) = rotate_left(st, reg)
        /\ Executed("ROR", st, reg) = rotate_right(st, reg)
    BY SMT DEF Executed, Loaded, Stored, Moved, Cleared, Raised
  <2> QED
    BY <1>1, <1>3, <1>5, <2>1
<1>14. /\ C(Executed("ADC", st, reg)) /\ C(Executed("SBC", st, reg))
      /\ C(Executed("AND", st, reg)) /\ C(Executed("ORA", st, reg))
      /\ C(Executed("EOR", st, reg)) /\ C(Executed("BIT", st, reg))
      /\ C(Executed("CMP", st, reg)) /\ C(Executed("CPX", st, reg))
      /\ C(Executed("CPY", st, reg)) /\ C(Executed("NOP", st, reg))
  BY <1>1, <1>7, <1>8, Arms
<1>15. /\ C(Executed("INC", st, reg)) /\ C(Executed("INX", st, reg))
      /\ C(Executed("INY", st, reg)) /\ C(Executed("DEC", st, reg))
      /\ C(Executed("DEX", st, reg)) /\ C(Executed("DEY", st, reg))
  <2>1. /\ C(Incremented(st, "m")) /\ C(Incremented(st, "x")) /\ C(Incremented(st, "y"))
        /\ C(Decremented(st, "m")) /\ C(Decremented(st, "x")) /\ C(Decremented(st, "y"))
    BY <1>3, <1>6
  <2> QED
    BY <2>1, Arms
<1>16. /\ C(Executed("LDA", st, reg)) /\ C(Executed("LDX", st, reg))
      /\ C(Executed("LDY", st, reg)) /\ C(Executed("TAX", st, reg))
      /\ C(Executed("TAY", st, reg)) /\ C(Executed("TXA", st, reg))
      /\ C(Executed("TYA", st, reg))
  <2>1. /\ C(Put(st, "ac", st.m)) /\ C(Put(st, "x", st.m)) /\ C(Put(st, "y", st.m))
        /\ C(Put(st, "x", st.ac)) /\ C(Put(st, "y", st.ac))
        /\ C(Put(st, "ac", st.x)) /\ C(Put(st, "ac", st.y))
    BY <1>1, <1>2, <1>3
  <2> QED
    BY <2>1, Arms
<1>17. /\ C(Executed("STA", st, reg)) /\ C(Executed("STX", st, reg))
      /\ C(Executed("STY", st, reg))
  <2>1. C(Store(st, st.ac)) /\ C(Store(st, st.x)) /\ C(Store(st, st.y))
    BY <1>9
  <2> QED
    BY <2>1, Arms
<1>18. /\ C(Executed("CLC", st, reg)) /\ C(Executed("CLD", st, reg))
      /\ C(Executed("CLI", st, reg)) /\ C(Executed("CLV", st, reg))
      /\ C(Executed("SEC", st, reg)) /\ C(Executed("SED", st, reg))
      /\ C(Executed("SEI", st, reg))
  <2>1. \A f \in {"C", "D", "I", "V"} : C(WithFlag(st, f, TRUE)) /\ C(WithFlag(st, f, FALSE))
    BY <1>1, <1>2, <1>3
  <2> QED
    BY <2>1, Arms
<1>19. /\ C(Executed("ALR", st, reg)) /\ C(Executed("ANC", st, reg))
      /\ C(Executed("ARR", st, reg)) /\ C(Executed("DCP", st, reg))
      /\ C(Executed("ISB", st, reg)) /\ C(Executed("LAX", st, reg))
      /\ C(Executed("RLA", st, reg)) /\ C(Executed("RRA", st, reg))
      /\ C(Executed("SAX", st, reg)) /\ C(Executed("SBX", st, reg))
      /\ C(Executed("SLO", st, reg)) /\ C(Executed("SRE", st, reg))
  BY <1>10, <1>11, <1>12, Arms
<1>20. C(Executed(op, st, reg))
  BY <1>13, <1>14, <1>15, <1>16, <1>17, <1>18, <1>19 DEF DataOps
<1> QED
  BY <1>20 DEF C, Calm

-----------------------------------------------------------------------------
(* What each instruction does.                                             *)

LEMMA FlagsTyped ==
    ASSUME NEW sr \in SUBSET Flag, NEW v
    PROVE  set_ZN_flags(sr, v) \in SUBSET Flag /\ SameBU(sr, set_ZN_flags(sr, v))
BY DEF set_ZN_flags, set_flag, Flag, SameBU

\* The status byte that is pushed.
LEMMA Pushed ==
    ASSUME NEW c, Typed(c)
    PROVE  /\ StatusByte(c.sr) \in Byte
           /\ StatusByte(c.sr \cup {"B", "U"}) \in Byte
<1>1. c.sr \in SUBSET Flag /\ c.sr \cup {"B", "U"} \in SUBSET Flag
  BY Registers DEF Flag
<1> QED
  BY <1>1, StatusBits

\* A branch.
LEMMA BranchEffect ==
    ASSUME NEW c, Typed(c), NEW predicate \in BOOLEAN
    PROVE  LET d == branch_if(c, predicate)
           IN  /\ Typed(d) /\ d.sp = c.sp /\ d.sr = c.sr /\ d.ram = c.ram
               /\ d.cycles \in c.cycles .. c.cycles + 2
<1>1. c.address \in Address /\ c.cycles \in Nat
  BY Registers
<1>2. CASE ~predicate
  <2>1. branch_if(c, predicate) = c
    BY <1>2 DEF branch_if
  <2> QED
    BY <1>1, <2>1
<1>3. CASE predicate
  <2> DEFINE n == IF Crosses(c.pc, c.address) THEN 2 ELSE 1
             v == c.cycles + n
             e == [c EXCEPT !.pc = c.address]
  <2>1. branch_if(c, predicate) = [e EXCEPT !.cycles = v]
    BY <1>3 DEF branch_if
  <2>2. v \in Nat /\ v \in c.cycles .. c.cycles + 2
    BY <1>1
  <2>3. Typed(e) /\ e.sp = c.sp /\ e.sr = c.sr /\ e.ram = c.ram
    BY <1>1, SetPc
  <2> HIDE DEF v, e
  <2> QED
    BY <2>1, <2>2, <2>3, SetCycles
<1> QED
  BY <1>2, <1>3

\* JSR pushes the address of its last byte.
LEMMA JSREffect ==
    ASSUME NEW c, Typed(c)
    PROVE  LET d == JSR(c)
               v == (c.pc + Space - 1) % Space
           IN  /\ Typed(d) /\ d.sr = c.sr /\ d.cycles = c.cycles /\ d.sp = Down(c.sp, 2)
               /\ v \in Address
               /\ Slot(d, c.sp) = v \div Size /\ Slot(d, Down(c.sp, 1)) = v % Size
               /\ \A p \in Byte \ {c.sp, Down(c.sp, 1)} : Slot(d, p) = Slot(c, p)
<1> DEFINE v == (c.pc + Space - 1) % Space
           e == Push16(c, v)
           d == [e EXCEPT !.pc = c.address]
<1>1. c.pc \in Address /\ c.address \in Address
  BY Registers
<1>2. v \in Address
  <2>1. c.pc + Space - 1 \in Nat
    BY <1>1, Widths
  <2> QED
    BY <2>1, Wrapped
<1>3. JSR(c) = d
  BY DEF JSR
<1> HIDE DEF v
<1>4. /\ Typed(e) /\ Alike(c, e) /\ e.sp = Down(c.sp, 2)
      /\ Slot(e, c.sp) = v \div Size /\ Slot(e, Down(c.sp, 1)) = v % Size
      /\ \A p \in Byte \ {c.sp, Down(c.sp, 1)} : Slot(e, p) = Slot(c, p)
  BY <1>2, Push16Effect
<1> HIDE DEF e
<1>5. Typed(d) /\ d.sr = e.sr /\ d.cycles = e.cycles /\ d.sp = e.sp /\ d.ram = e.ram
  BY <1>1, <1>4, SetPc
<1>6. \A p : Slot(d, p) = Slot(e, p)
  BY <1>5 DEF Slot, Ram
<1> HIDE DEF d
<1> QED
  BY <1>2, <1>3, <1>4, <1>5, <1>6 DEF Alike, v

\* An NMI's entry and a BRK: an address and a status byte, then the vector.
Entered(c, v, b, to) ==
    [Push(Push16(c, v), b) EXCEPT !.pc = to, !.sr = @ \cup {"I"}]

LEMMA EnteredEffect ==
    ASSUME NEW c, Typed(c), NEW v \in Address, NEW b \in Byte, NEW to \in Address
    PROVE  LET d == Entered(c, v, b, to)
           IN  /\ Typed(d) /\ d.sr = c.sr \cup {"I"} /\ d.cycles = c.cycles
               /\ d.sp = Down(c.sp, 3)
               /\ Slot(d, c.sp) = v \div Size /\ Slot(d, Down(c.sp, 1)) = v % Size
               /\ Slot(d, Down(c.sp, 2)) = b
               /\ \A p \in Byte \ {c.sp, Down(c.sp, 1), Down(c.sp, 2)} :
                     Slot(d, p) = Slot(c, p)
<1> DEFINE e == Push(Push16(c, v), b)
           sr == c.sr \cup {"I"}
           f == [e EXCEPT !.pc = to]
           d == [f EXCEPT !.sr = sr]
<1>1. sr \in SUBSET Flag
  BY Registers DEF Flag
<1>2. /\ Typed(e) /\ Alike(c, e) /\ e.sp = Down(c.sp, 3)
      /\ Slot(e, c.sp) = v \div Size /\ Slot(e, Down(c.sp, 1)) = v % Size
      /\ Slot(e, Down(c.sp, 2)) = b
      /\ \A p \in Byte \ {c.sp, Down(c.sp, 1), Down(c.sp, 2)} : Slot(e, p) = Slot(c, p)
  BY Push3Effect
<1>3. Entered(c, v, b, to) = d
  BY <1>2 DEF Entered, Alike
<1> HIDE DEF e, sr
<1>4. Typed(f) /\ f.cycles = e.cycles /\ f.sp = e.sp /\ f.ram = e.ram
  BY <1>2, SetPc
<1> HIDE DEF f
<1>5. Typed(d) /\ d.sr = sr /\ d.cycles = f.cycles /\ d.sp = f.sp /\ d.ram = f.ram
  BY <1>1, <1>4, SetSr
<1>6. \A p : Slot(d, p) = Slot(e, p)
  BY <1>4, <1>5 DEF Slot, Ram
<1> HIDE DEF d
<1> QED
  BY <1>2, <1>3, <1>4, <1>5, <1>6 DEF Alike, sr

LEMMA VectorTypes ==
    ASSUME prg \in DOMAIN Programs, NEW c, Typed(c), NEW in \in Byte
    PROVE  /\ Read16(c, Vector.NMI, in) \in Address
           /\ Read16(c, Vector.IRQ, in) \in Address
<1>1. Vector.NMI \in Address /\ Vector.IRQ \in Address
  BY Widths DEF Vector
<1> QED
  BY <1>1, Read16Type, Registers

\* RTS and RTI.
LEMMA RTSEffect ==
    ASSUME NEW c, Typed(c)
    PROVE  LET d == RTS(c)
           IN  /\ Typed(d) /\ d.sr = c.sr /\ d.cycles = c.cycles /\ d.ram = c.ram
               /\ d.sp = (c.sp + 2) % Size /\ d.pc = (Top16(c, 1) + 1) % Space
<1> DEFINE e == Popped(c, 2)
           v == (Top16(c, 1) + 1) % Space
<1>1. v \in Address
  BY Top16Type, AddressNat, Wrapped
<1>2. Typed(e) /\ Alike(c, e) /\ e.sp = (c.sp + 2) % Size /\ e.ram = c.ram
  BY PoppedEffect
<1>3. RTS(c) = [e EXCEPT !.pc = v]
  BY DEF RTS
<1> HIDE DEF e, v
<1> QED
  BY <1>1, <1>2, <1>3, SetPc DEF Alike, v

LEMMA RTIEffect ==
    ASSUME NEW c, Typed(c)
    PROVE  LET d == RTI(c)
           IN  /\ Typed(d) /\ SameBU(c.sr, d.sr) /\ d.cycles = c.cycles /\ d.ram = c.ram
               /\ d.sp = (c.sp + 3) % Size /\ d.pc = Top16(c, 2)
               /\ d.sr = Pulled(c.sr, Top(c, 1))
<1> DEFINE e == Popped(c, 3)
           w == Pulled(c.sr, Top(c, 1))
           v == Top16(c, 2)
           f == [e EXCEPT !.sr = w]
<1>1. v \in Address /\ w \in SUBSET Flag /\ SameBU(c.sr, w)
  BY Top16Type, Registers, PulledFlags DEF SameBU
<1>2. Typed(e) /\ Alike(c, e) /\ e.sp = (c.sp + 3) % Size /\ e.ram = c.ram
  BY PoppedEffect
<1>3. RTI(c) = [f EXCEPT !.pc = v]
  BY <1>2 DEF RTI, Alike
<1> HIDE DEF e, v, w
<1>4. Typed(f) /\ f.sr = w /\ f.cycles = e.cycles /\ f.ram = e.ram /\ f.sp = e.sp
  BY <1>1, <1>2, SetSr
<1> HIDE DEF f
<1> QED
  BY <1>1, <1>2, <1>3, <1>4, SetPc DEF Alike, v, w

\* The pulls, and the transfers of the stack pointer.
LEMMA PLAEffect ==
    ASSUME NEW c, Typed(c)
    PROVE  LET d == [Popped(c, 1) EXCEPT !.ac = Top(c, 1), !.sr = set_ZN_flags(@, Top(c, 1))]
           IN  /\ Typed(d) /\ SameBU(c.sr, d.sr) /\ d.cycles = c.cycles /\ d.ram = c.ram
<1> DEFINE e == Popped(c, 1)
           v == Top(c, 1)
           w == set_ZN_flags(c.sr, v)
<1>1. v \in Byte /\ w \in SUBSET Flag /\ SameBU(c.sr, w)
  BY TopByte, Registers, FlagsTyped
<1>2. Typed(e) /\ Alike(c, e) /\ e.ram = c.ram
  BY PoppedEffect
<1>3. [e EXCEPT !.ac = v, !.sr = set_ZN_flags(@, v)]
        = Loads(e, v, e.x, e.y, w)
  BY <1>2 DEF Alike, Typed, CpuState, Loads
<1>4. e.x \in Byte /\ e.y \in Byte
  BY <1>2, Registers
<1> HIDE DEF e, v, w
<1>5. LET d == Loads(e, v, e.x, e.y, w)
      IN  Typed(d) /\ d.sr = w /\ d.cycles = e.cycles /\ d.ram = e.ram
  BY <1>1, <1>2, <1>4, SetData
<1> QED
  BY <1>1, <1>2, <1>3, <1>5 DEF Alike, e, v

LEMMA PLPEffect ==
    ASSUME NEW c, Typed(c)
    PROVE  LET d == [Popped(c, 1) EXCEPT !.sr = Pulled(@, Top(c, 1))]
           IN  /\ Typed(d) /\ SameBU(c.sr, d.sr) /\ d.cycles = c.cycles /\ d.ram = c.ram
<1> DEFINE e == Popped(c, 1)
           w == Pulled(c.sr, Top(c, 1))
<1>1. w \in SUBSET Flag /\ SameBU(c.sr, w)
  BY Registers, PulledFlags DEF SameBU
<1>2. Typed(e) /\ Alike(c, e) /\ e.ram = c.ram
  BY PoppedEffect
<1>3. [e EXCEPT !.sr = Pulled(@, Top(c, 1))] = [e EXCEPT !.sr = w]
  BY <1>2 DEF Alike
<1> HIDE DEF e, w
<1>4. LET d == [e EXCEPT !.sr = w]
      IN  Typed(d) /\ d.sr = w /\ d.cycles = e.cycles /\ d.ram = e.ram
  BY <1>1, <1>2, SetSr
<1> QED
  BY <1>1, <1>2, <1>3, <1>4 DEF Alike, e

LEMMA TSXEffect ==
    ASSUME NEW c, Typed(c)
    PROVE  LET d == [c EXCEPT !.x = c.sp, !.sr = set_ZN_flags(@, c.sp)]
           IN  /\ Typed(d) /\ SameBU(c.sr, d.sr) /\ d.cycles = c.cycles /\ d.ram = c.ram
<1> DEFINE w == set_ZN_flags(c.sr, c.sp)
<1>1. /\ w \in SUBSET Flag /\ SameBU(c.sr, w)
      /\ c.sp \in Byte /\ c.ac \in Byte /\ c.y \in Byte
  BY Registers, FlagsTyped
<1>2. [c EXCEPT !.x = c.sp, !.sr = set_ZN_flags(@, c.sp)]
        = Loads(c, c.ac, c.sp, c.y, w)
  BY DEF Typed, CpuState, Loads
<1> HIDE DEF w
<1>3. LET d == Loads(c, c.ac, c.sp, c.y, w)
      IN  Typed(d) /\ d.sr = w /\ d.cycles = c.cycles /\ d.ram = c.ram
  BY <1>1, SetData
<1> QED
  BY <1>1, <1>2, <1>3

\* SHX and SHY.
LEMMA HighEffect ==
    ASSUME NEW c, Typed(c), NEW reg \in {"x", "y"}, Writable(Size * HighAnd(c, reg))
    PROVE  LET d == StoreHigh(c, reg)
               a == Size * HighAnd(c, reg) + (c.address % Size)
           IN  /\ Typed(d) /\ d.sp = c.sp /\ d.sr = c.sr /\ d.cycles = c.cycles
               /\ \A b : Cell(b) # Cell(a) => Ram(d, b) = Ram(c, b)
<1> DEFINE h == HighAnd(c, reg)
           l == c.address % Size
           a == Size * h + l
<1>1. c[reg] \in Byte /\ c.address \in Address
  BY Registers
<1>2. c.address \div Size \in Byte /\ l \in Byte
  BY <1>1, WordBytes
<1>3. (c.address \div Size + 1) % Size \in Byte
  BY <1>2, ByteAddress, Wrapped
<1>4. h \in Byte
  BY <1>1, <1>3, BitAndByte DEF HighAnd
<1>5. StoreHigh(c, reg) = Write(c, a, h) /\ Writable(Size * h)
  BY DEF StoreHigh
<1> HIDE DEF h, l
<1>6. a \in Address /\ Writable(a)
  <2>1. Size = 256 /\ h \in Nat /\ l \in Nat /\ l < 256 /\ h < 256
    BY <1>2, <1>4, Widths
  <2>2. 256 * h < 32768
    BY <1>5, <2>1 DEF Writable
  <2>3. 256 * h + l \in Nat /\ 256 * h + l < 32768
    BY <2>1, <2>2
  <2> QED
    BY <2>1, <2>3, Widths DEF Writable
<1> HIDE DEF a
<1> QED
  BY <1>4, <1>5, <1>6, WriteTyped DEF a, h, l

\* An opcode on data.
LEMMA DataEffect ==
    ASSUME prg \in DOMAIN Programs, NEW c, Typed(c), NEW op \in DataOps, NEW mode,
           NEW in \in Byte, WritesOperand(op, mode) => Writable(c.address)
    PROVE  LET d == Data(c, op, mode, in)
           IN  /\ Typed(d) /\ d.sp = c.sp /\ SameBU(c.sr, d.sr) /\ d.cycles = c.cycles
               /\ ~WritesOperand(op, mode) => d.ram = c.ram
               /\ \A b : Cell(b) # Cell(c.address) => Ram(d, b) = Ram(c, b)
<1> DEFINE m == IF ReadsOperand(op, mode) THEN Read(c, c.address, in) ELSE 0
           st == [ac |-> c.ac, x |-> c.x, y |-> c.y, m |-> m, sr |-> c.sr]
           reg == IF mode = "ACC" THEN "ac" ELSE "m"
           t == Executed(op, st, reg)
           e == Loads(c, t.ac, t.x, t.y, t.sr)
           d == Data(c, op, mode, in)
<1>1. /\ c.address \in Address /\ c.ac \in Byte /\ c.x \in Byte /\ c.y \in Byte
      /\ c.sr \in SUBSET Flag /\ Memory(c.ram)
  BY Registers
<1>2. m \in Byte
  BY <1>1, ReadType, Widths
<1>3. d = IF WritesOperand(op, mode) THEN Write(e, c.address, t.m) ELSE e
  BY DEF Data, Computed, Loads
<1> HIDE DEF m, d
<1>4. st \in DataState /\ st.sr = c.sr /\ "sr" \in DOMAIN st /\ reg \in {"ac", "m"}
  BY <1>1, <1>2 DEF DataState
<1> HIDE DEF st, reg
<1>5. t \in DataState /\ SameBU(c.sr, t.sr)
  BY <1>4, ExecutedState, ExecutedCalm
<1> HIDE DEF t
<1>6. /\ t.ac \in Byte /\ t.x \in Byte /\ t.y \in Byte /\ t.m \in Byte
      /\ t.sr \in SUBSET Flag
  BY <1>5, RegisterBytes
<1>7. /\ Typed(e) /\ e.sp = c.sp /\ e.sr = t.sr /\ e.cycles = c.cycles /\ e.ram = c.ram
  BY <1>6, SetData
<1>8. \A b : Ram(e, b) = Ram(c, b)
  BY <1>7 DEF Ram
<1> HIDE DEF e
<1>9. CASE WritesOperand(op, mode)
  <2> DEFINE a == c.address
             v == t.m
             w == Write(e, a, v)
  <2>1. d = w /\ Writable(a) /\ a \in Address /\ v \in Byte
    BY <1>1, <1>3, <1>6, <1>9
  <2> HIDE DEF a, v
  <2>3. /\ Typed(w) /\ w.sp = e.sp /\ w.sr = e.sr /\ w.cycles = e.cycles
        /\ \A b : Cell(b) # Cell(a) => Ram(w, b) = Ram(e, b)
    BY <1>7, <2>1, WriteTyped
  <2>2. /\ Typed(d) /\ d.sp = e.sp /\ d.sr = e.sr /\ d.cycles = e.cycles
        /\ \A b : Cell(b) # Cell(c.address) => Ram(d, b) = Ram(e, b)
    BY <2>1, <2>3 DEF a
  <2> QED
    BY <1>5, <1>7, <1>8, <1>9, <2>2 DEF d
<1>10. CASE ~WritesOperand(op, mode)
  BY <1>3, <1>5, <1>7, <1>8, <1>10 DEF d
<1> QED
  BY <1>9, <1>10

-----------------------------------------------------------------------------
(* An instruction that goes through.                                       *)

\* What ~Exits says of it.
LEMMA GoesThrough ==
    ASSUME NEW c, NEW op, NEW mode, NEW in,
           <<op, mode>> \in Instructions, ~Exits(c, op, mode, in)
    PROVE  /\ op \in Control \cup DataOps /\ op # "JAM"
           /\ WritesOperand(op, mode) => Writable(c.address)
           /\ op = "SHX" => Writable(Size * HighAnd(c, "x"))
           /\ op = "SHY" => Writable(Size * HighAnd(c, "y"))
           /\ op \in Control => ~WritesOperand(op, mode)
<1>1. op \in Control \cup DataOps \cup Unimplemented /\ op \notin Unimplemented
  BY Rows DEF Row, Exits
<1>2. op # "JAM"
  BY <1>1 DEF Unimplemented
<1>3. op \in Control => ~WritesOperand(op, mode)
  BY DEF Control, Branches, WritesOperand, Stores, Modifies
<1> QED
  BY <1>1, <1>2, <1>3 DEF Exits

\* Registers and memories stay in their ranges, BREAK and UNUSED as they are;
\* only a branch adds cycles.
Sound(c, op, d) ==
    /\ Typed(d) /\ SameBU(c.sr, d.sr)
    /\ op \notin Branches => d.cycles = c.cycles
    /\ d.cycles \in c.cycles .. c.cycles + 2

LEMMA BRKEffect ==
    ASSUME prg \in DOMAIN Programs, NEW c, Typed(c), NEW in \in Byte
    PROVE  LET d == BRK(c, in)
               v == (c.pc + 1) % Space
               b == StatusByte(c.sr \cup {"B", "U"})
           IN  /\ Typed(d) /\ d.sr = c.sr \cup {"I"} /\ d.cycles = c.cycles
               /\ d.sp = Down(c.sp, 3) /\ v \in Address
               /\ Slot(d, c.sp) = v \div Size /\ Slot(d, Down(c.sp, 1)) = v % Size
               /\ Slot(d, Down(c.sp, 2)) = b
               /\ \A p \in Byte \ {c.sp, Down(c.sp, 1), Down(c.sp, 2)} :
                     Slot(d, p) = Slot(c, p)
<1> DEFINE v == (c.pc + 1) % Space
           b == StatusByte(c.sr \cup {"B", "U"})
           to == Read16(c, Vector.IRQ, in)
<1>1. v \in Address /\ b \in Byte
  BY Registers, AddressNat, Wrapped, Pushed
<1>2. to \in Address
  BY VectorTypes
<1>3. BRK(c, in) = Entered(c, v, b, to)
  BY DEF BRK, Entered
<1> HIDE DEF v, b, to
<1>4. LET d == Entered(c, v, b, to)
      IN  /\ Typed(d) /\ d.sr = c.sr \cup {"I"} /\ d.cycles = c.cycles
          /\ d.sp = Down(c.sp, 3)
          /\ Slot(d, c.sp) = v \div Size /\ Slot(d, Down(c.sp, 1)) = v % Size
          /\ Slot(d, Down(c.sp, 2)) = b
          /\ \A p \in Byte \ {c.sp, Down(c.sp, 1), Down(c.sp, 2)} :
                Slot(d, p) = Slot(c, p)
  BY <1>1, <1>2, EnteredEffect
<1> QED
  BY <1>1, <1>3, <1>4 DEF v, b

LEMMA InterruptedEffect ==
    ASSUME prg \in DOMAIN Programs, NEW c, Typed(c)
    PROVE  LET d == Interrupted(c)
               b == StatusByte(c.sr)
           IN  /\ Typed(d) /\ d.sr = c.sr \cup {"I"} /\ d.cycles = c.cycles + 7
               /\ d.sp = Down(c.sp, 3)
               /\ Slot(d, c.sp) = c.pc \div Size /\ Slot(d, Down(c.sp, 1)) = c.pc % Size
               /\ Slot(d, Down(c.sp, 2)) = b
               /\ \A p \in Byte \ {c.sp, Down(c.sp, 1), Down(c.sp, 2)} :
                     Slot(d, p) = Slot(c, p)
<1>1. c.pc \in Address /\ c.cycles \in Nat /\ 0 \in Byte
  BY Registers, Widths
<1> DEFINE b == StatusByte(c.sr)
           to == Read16(c, Vector.NMI, 0)
           f == Entered(c, c.pc, b, to)
           n == f.cycles + 7
           d == [f EXCEPT !.cycles = n]
<1>2. b \in Byte
  BY Pushed
<1>3. to \in Address
  BY <1>1, VectorTypes
<1>4. Push(Push16(c, c.pc), b).cycles = f.cycles
  BY DEF Entered
<1>5. Interrupted(c) = d
  BY <1>4 DEF Interrupted, Entered
<1> HIDE DEF b, to
<1>6. /\ Typed(f) /\ f.sr = c.sr \cup {"I"} /\ f.cycles = c.cycles
      /\ f.sp = Down(c.sp, 3)
      /\ Slot(f, c.sp) = c.pc \div Size /\ Slot(f, Down(c.sp, 1)) = c.pc % Size
      /\ Slot(f, Down(c.sp, 2)) = b
      /\ \A p \in Byte \ {c.sp, Down(c.sp, 1), Down(c.sp, 2)} : Slot(f, p) = Slot(c, p)
  BY <1>1, <1>2, <1>3, EnteredEffect
<1> HIDE DEF f
<1>7. n \in Nat /\ n = c.cycles + 7
  BY <1>1, <1>6
<1> HIDE DEF n
<1>8. Typed(d) /\ d.sr = f.sr /\ d.sp = f.sp /\ d.ram = f.ram /\ d.cycles = n
  BY <1>6, <1>7, SetCycles
<1>9. \A p : Slot(d, p) = Slot(f, p)
  BY <1>8 DEF Slot, Ram
<1> HIDE DEF d
<1> QED
  BY <1>5, <1>6, <1>7, <1>8, <1>9 DEF b

\* The opcodes of Control, and then all.
LEMMA ControlSound ==
    ASSUME prg \in DOMAIN Programs, NEW c, Typed(c), NEW op \in Control, NEW mode,
           <<op, mode>> \in Instructions, NEW in \in Byte,
           ~Exits(c, op, mode, in)
    PROVE  Sound(c, op, execute_instruction(c, op, mode, in))
<1> DEFINE d == execute_instruction(c, op, mode, in)
<1>1. /\ c.cycles \in Nat /\ c.address \in Address /\ c.ac \in Byte /\ c.x \in Byte
      /\ SameBU(c.sr, c.sr) /\ SameBU(c.sr, c.sr \cup {"I"})
  BY Registers DEF SameBU
<1>2. c.cycles \in c.cycles .. c.cycles + 2
  BY <1>1
<1>3. /\ op = "SHX" => Writable(Size * HighAnd(c, "x"))
      /\ op = "SHY" => Writable(Size * HighAnd(c, "y"))
  BY GoesThrough
<1>4. StatusByte(c.sr \cup {"B", "U"}) \in Byte
  BY Pushed
<1>5. CASE op \in Branches
  <2>1. d = branch_if(c, (Tested[op] \in c.sr) = (op \in BranchesIfSet))
    BY <1>5 DEF execute_instruction, Branches
  <2> QED
    BY <1>1, <1>5, <2>1, BranchEffect DEF Sound
<1>6. CASE op = "JMP"
  <2>1. d = [c EXCEPT !.pc = c.address]
    BY <1>6 DEF execute_instruction, Branches
  <2> QED
    BY <1>1, <1>2, <2>1, SetPc DEF Sound
<1>7. CASE op = "JSR"
  <2>1. d = JSR(c)
    BY <1>7 DEF execute_instruction, Branches
  <2> QED
    BY <1>1, <1>2, <2>1, JSREffect DEF Sound
<1>8. CASE op = "RTS"
  <2>1. d = RTS(c)
    BY <1>8 DEF execute_instruction, Branches
  <2> QED
    BY <1>1, <1>2, <2>1, RTSEffect DEF Sound
<1>9. CASE op = "RTI"
  <2>1. d = RTI(c)
    BY <1>9 DEF execute_instruction, Branches
  <2> QED
    BY <1>1, <1>2, <2>1, RTIEffect DEF Sound
<1>10. CASE op = "BRK"
  <2>1. d = BRK(c, in)
    BY <1>10 DEF execute_instruction, Branches
  <2>2. Typed(d) /\ d.sr = c.sr \cup {"I"} /\ d.cycles = c.cycles
    BY <2>1, BRKEffect
  <2> QED
    BY <1>1, <1>2, <2>2 DEF Sound
<1>11. CASE op = "PHA"
  <2>1. d = Push(c, c.ac)
    BY <1>11 DEF execute_instruction, Branches
  <2> QED
    BY <1>1, <1>2, <2>1, PushEffect DEF Sound, Alike
<1>12. CASE op = "PHP"
  <2>1. d = Push(c, StatusByte(c.sr \cup {"B", "U"}))
    BY <1>12 DEF execute_instruction, Branches
  <2>2. Typed(d) /\ Alike(c, d)
    BY <1>4, <2>1, PushEffect
  <2> QED
    BY <1>1, <1>2, <2>2 DEF Sound, Alike
<1>13. CASE op = "PLA"
  <2>1. d = [Popped(c, 1) EXCEPT !.ac = Top(c, 1), !.sr = set_ZN_flags(@, Top(c, 1))]
    BY <1>13 DEF execute_instruction, Branches
  <2>2. Typed(d) /\ SameBU(c.sr, d.sr) /\ d.cycles = c.cycles
    BY <2>1, PLAEffect, Zenon
  <2> QED
    BY <1>2, <2>2 DEF Sound
<1>14. CASE op = "PLP"
  <2>1. d = [Popped(c, 1) EXCEPT !.sr = Pulled(@, Top(c, 1))]
    BY <1>14 DEF execute_instruction, Branches
  <2>2. Typed(d) /\ SameBU(c.sr, d.sr) /\ d.cycles = c.cycles
    BY <2>1, PLPEffect, Zenon
  <2> QED
    BY <1>2, <2>2 DEF Sound
<1>15. CASE op = "TXS"
  <2>1. d = [c EXCEPT !.sp = c.x]
    BY <1>15 DEF execute_instruction, Branches
  <2> QED
    BY <1>1, <1>2, <2>1, SetSp DEF Sound
<1>16. CASE op = "TSX"
  <2>1. d = [c EXCEPT !.x = c.sp, !.sr = set_ZN_flags(@, c.sp)]
    BY <1>16 DEF execute_instruction, Branches
  <2>2. Typed(d) /\ SameBU(c.sr, d.sr) /\ d.cycles = c.cycles
    BY <2>1, TSXEffect, Zenon
  <2> QED
    BY <1>2, <2>2 DEF Sound
<1>17. CASE op = "SHX"
  <2>1. d = StoreHigh(c, "x")
    BY <1>17 DEF execute_instruction, Branches
  <2> QED
    BY <1>1, <1>2, <1>3, <1>17, <2>1, HighEffect DEF Sound
<1>18. CASE op = "SHY"
  <2>1. d = StoreHigh(c, "y")
    BY <1>18 DEF execute_instruction, Branches
  <2> QED
    BY <1>1, <1>2, <1>3, <1>18, <2>1, HighEffect DEF Sound
<1> QED
  BY <1>5, <1>6, <1>7, <1>8, <1>9, <1>10, <1>11, <1>12, <1>13, <1>14, <1>15, <1>16,
     <1>17, <1>18 DEF Control

LEMMA InstructionSound ==
    ASSUME prg \in DOMAIN Programs, NEW c, Typed(c), NEW op, NEW mode,
           <<op, mode>> \in Instructions, NEW in \in Byte,
           ~Exits(c, op, mode, in)
    PROVE  Sound(c, op, execute_instruction(c, op, mode, in))
<1> DEFINE d == execute_instruction(c, op, mode, in)
<1>1. CASE op \in Control
  BY <1>1, ControlSound
<1>2. CASE op \notin Control
  <2>1. op \in DataOps /\ (WritesOperand(op, mode) => Writable(c.address))
    BY <1>2, GoesThrough
  <2>2. d = Data(c, op, mode, in)
    BY <1>2 DEF execute_instruction, Control
  <2>3. Typed(d) /\ SameBU(c.sr, d.sr) /\ d.cycles = c.cycles
    BY <2>1, <2>2, DataEffect
  <2>4. c.cycles \in c.cycles .. c.cycles + 2
    BY Registers
  <2> QED
    BY <2>3, <2>4 DEF Sound
<1> QED
  BY <1>1, <1>2

-----------------------------------------------------------------------------
(* What an instruction starts from.                                        *)

\* The registers at the boundary, after an NMI if one is pending.
LEMMA BoundaryEffect ==
    ASSUME prg \in DOMAIN Programs, Typed(cpu)
    PROVE  /\ Typed(Boundary)
           /\ Boundary.cycles = IF pending_interrupt = "NMI" THEN 7 ELSE 0
<1> DEFINE c == [cpu EXCEPT !.cycles = 0]
<1>1. Typed(c) /\ c.cycles = 0
  BY SetCycles
<1>2. Boundary = IF pending_interrupt = "NMI" THEN Interrupted(c) ELSE c
  BY DEF Boundary
<1> HIDE DEF c
<1>3. CASE pending_interrupt = "NMI"
  <2>1. Boundary = Interrupted(c)
    BY <1>2, <1>3
  <2>2. Typed(Interrupted(c)) /\ Interrupted(c).cycles = c.cycles + 7
    BY <1>1, InterruptedEffect
  <2> QED
    BY <1>1, <1>3, <2>1, <2>2
<1>4. CASE pending_interrupt # "NMI"
  BY <1>1, <1>2, <1>4
<1> QED
  BY <1>3, <1>4

\* The opcode that is fetched, and its address.
LEMMA FetchedSound ==
    ASSUME prg \in DOMAIN Programs, Typed(cpu), NEW in \in Inputs
    PROVE  /\ in \in Byte /\ <<Opcode(in), Mode(in)>> \in Instructions
           /\ Opcode(in) # "JAM" => \E extra \in 0 .. 1 :
                 /\ Typed(Addressed(in))
                 /\ Addressed(in).sp = Boundary.sp /\ Addressed(in).ram = Boundary.ram
                 /\ Addressed(in).sr = Boundary.sr \cup {"U"}
                 /\ Addressed(in).cycles =
                       Boundary.cycles + Cycles(Opcode(in), Mode(in)) + extra
                 /\ extra = 1 => PaysForCrossing(Opcode(in)) /\ Mode(in) \in Modes
<1> DEFINE b == Boundary
           op == Opcode(in)
           mode == Mode(in)
           n == Cycles(op, mode)
           pc == (b.pc + 1) % Space
           m == b.cycles + n
           sr == b.sr \cup {"U"}
           e == [b EXCEPT !.pc = pc]
           f == [e EXCEPT !.cycles = m]
           g == [f EXCEPT !.sr = sr]
           d == set_address(g, op, mode, in)
<1>1. in \in Byte
  BY CpuAssumption
<1>2. /\ Typed(b) /\ b.pc \in Address /\ b.sr \in SUBSET Flag /\ b.cycles \in Nat
      /\ Memory(b.ram)
  BY BoundaryEffect, Registers
<1>3. <<op, mode>> \in Instructions
  <2> DEFINE o == Read(b, b.pc, in)
             row == instruction_lookup[o]
  <2>1. o \in Byte
    BY <1>1, <1>2, ReadType
  <2>2. row \in Instructions /\ op = row[1] /\ mode = row[2]
    BY <2>1, CpuAssumption DEF Opcode, Mode, Fetched
  <2> HIDE DEF row, op, mode
  <2>3. row = <<row[1], row[2]>>
    BY <2>2 DEF Instructions
  <2> QED
    BY <2>2, <2>3
<1>4. CASE op = "JAM"
  BY <1>1, <1>3, <1>4
<1>5. CASE op # "JAM"
  <2>1. Addressed(in) = d
    BY DEF Addressed, Prepared
  <2>2. pc \in Address /\ n \in Nat /\ m \in Nat /\ sr \in SUBSET Flag
    <3>1. n \in 2 .. 8
      BY <1>3, <1>5, Rows DEF Row
    <3> QED
      BY <1>2, <3>1, AddressNat, Wrapped DEF Flag
  <2> HIDE DEF b, op, mode, n, m, sr, pc
  <2>3. /\ Typed(e) /\ e.sp = b.sp /\ e.ram = b.ram /\ e.sr = b.sr
        /\ e.cycles = b.cycles
    BY <1>2, <2>2, SetPc
  <2> HIDE DEF e
  <2>4. Typed(f) /\ f.sp = b.sp /\ f.ram = b.ram /\ f.cycles = m
    BY <2>2, <2>3, SetCycles
  <2> HIDE DEF f
  <2>5. Typed(g) /\ g.sp = b.sp /\ g.ram = b.ram /\ g.cycles = m /\ g.sr = sr
    BY <2>2, <2>4, SetSr
  <2> HIDE DEF g
  <2>6. PICK extra \in 0 .. 1 :
           /\ Aimed(g, d, extra)
           /\ extra = 1 => PaysForCrossing(op) /\ mode \in {"ABX", "ABY", "YIN"}
    BY <1>1, <2>5, Aims
  <2> HIDE DEF d
  <2>7. /\ Typed(d) /\ d.sp = b.sp /\ d.ram = b.ram /\ d.sr = sr
        /\ d.cycles = m + extra
    BY <2>5, <2>6 DEF Aimed
  <2>8. extra = 1 => PaysForCrossing(op) /\ mode \in Modes
    BY <2>6 DEF Modes
  <2> QED
    BY <1>1, <1>3, <2>1, <2>7, <2>8 DEF b, op, mode, n, m, sr
<1> QED
  BY <1>4, <1>5

-----------------------------------------------------------------------------
(* Types and costs.                                                        *)

LEMMA OpenFramesType ==
    ASSUME CpuTypeOK
    PROVE  OpenFrames \in Seq(Frame)
<1> DEFINE f == [kind |-> "NMI", to |-> cpu.pc, sr |-> cpu.sr, sp |-> cpu.sp]
<1>1. f \in Frame
  BY Registers DEF CpuTypeOK, Typed, Frame
<1>2. OpenFrames = IF pending_interrupt = "NMI" THEN Append(frames, f) ELSE frames
  BY DEF OpenFrames
<1> HIDE DEF f
<1> QED
  BY <1>1, <1>2 DEF CpuTypeOK

LEMMA OpenedType ==
    ASSUME CpuTypeOK, NEW c, Typed(c), NEW op
    PROVE  Opened(c, op) \in Seq(Frame) /\ Returned(op) \in Frame \cup {NoFrame}
<1> DEFINE o == OpenFrames
           j == [kind |-> "JSR", to |-> c.pc, sr |-> c.sr, sp |-> c.sp]
           b == [kind |-> "BRK", to |-> (c.pc + 1) % Space, sr |-> c.sr, sp |-> c.sp]
<1>1. o \in Seq(Frame)
  BY OpenFramesType
<1>2. j \in Frame /\ b \in Frame
  <2>1. /\ c.pc \in Address /\ (c.pc + 1) % Space \in Address /\ c.sr \in SUBSET Flag
        /\ c.sp \in Byte
    BY Registers, AddressNat, Wrapped
  <2> QED
    BY <2>1 DEF Frame
<1>3. o # <<>> => Len(o) \in Nat \ {0} /\ o[Len(o)] \in Frame
  BY <1>1
<1>4. o # <<>> => SubSeq(o, 1, Len(o) - 1) \in Seq(Frame)
  BY <1>1, <1>3
<1>5. Opened(c, op) \in {Append(o, j), Append(o, b), SubSeq(o, 1, Len(o) - 1), o}
  BY DEF Opened
<1>6. Opened(c, op) = SubSeq(o, 1, Len(o) - 1) => o # <<>> \/ Opened(c, op) = o
  BY DEF Opened
<1>7. Returned(op) = IF op \in {"RTS", "RTI"} /\ o # <<>> THEN o[Len(o)] ELSE NoFrame
  BY DEF Returned
<1> HIDE DEF o, j, b
<1> QED
  BY <1>1, <1>2, <1>3, <1>4, <1>5, <1>6, <1>7

\* What the registers are after an instruction that goes through.
\* Execute and KeepsStack with the values they bind put in place.
LEMMA ExecuteIs ==
    ASSUME NEW in, Execute(in)
    PROVE  /\ ~Exits(Addressed(in), Opcode(in), Mode(in), in)
           /\ cpu' = execute_instruction(Addressed(in), Opcode(in), Mode(in), in)
           /\ frames' = Opened(Addressed(in), Opcode(in))
           /\ returned' = Returned(Opcode(in))
           /\ last' = [op |-> Opcode(in), mode |-> Mode(in),
                        nmi |-> pending_interrupt = "NMI"]
           /\ pending_interrupt' = "NONE"
           /\ UNCHANGED <<prg, posted, is_running>>
BY DEF Execute, Addressed, Opcode, Mode

LEMMA KeepsStackIs ==
    ASSUME NEW in, KeepsStack(in)
    PROVE  /\ Below(OpenFrames, Addressed(in).sp) /\ Below(frames', cpu'.sp)
           /\ Opcode(in) \in {"RTS", "RTI"} /\ OpenFrames # <<>> =>
                 /\ Opcode(in) = "RTS" <=> OpenFrames[Len(OpenFrames)].kind = "JSR"
                 /\ Addressed(in).sp =
                       (OpenFrames[Len(OpenFrames)].sp + Size
                          - Held(OpenFrames[Len(OpenFrames)])) % Size
           /\ \A a \in StoresAt(Addressed(in), Opcode(in), Mode(in)),
                 i \in 1 .. Len(OpenFrames) :
                 \A p \in Places(OpenFrames[i]) : Cell(a) # Size + p
BY DEF KeepsStack, Addressed, Opcode, Mode

LEMMA ExecuteSound ==
    ASSUME prg \in DOMAIN Programs, Typed(cpu), NEW in \in Inputs, Execute(in)
    PROVE  /\ in \in Byte /\ <<Opcode(in), Mode(in)>> \in Instructions
           /\ Opcode(in) \in Control \cup DataOps /\ Opcode(in) # "JAM"
           /\ Sound(Addressed(in), Opcode(in), cpu') /\ Typed(Addressed(in))
<1> DEFINE c == Addressed(in)
           op == Opcode(in)
           mode == Mode(in)
<1>1. ~Exits(c, op, mode, in) /\ cpu' = execute_instruction(c, op, mode, in)
  BY ExecuteIs
<1>2. in \in Byte /\ <<op, mode>> \in Instructions
  BY FetchedSound
<1>3. op \in Control \cup DataOps /\ op # "JAM"
  BY <1>1, <1>2, GoesThrough
<1>4. Typed(c)
  BY <1>3, FetchedSound
<1> HIDE DEF c, op, mode
<1>5. Sound(c, op, cpu')
  BY <1>1, <1>2, <1>4, InstructionSound
<1> QED
  BY <1>2, <1>3, <1>4, <1>5 DEF c, op, mode

Types == CpuTypeOK /\ prg \in DOMAIN Programs

LEMMA TypedCpu ==
    ASSUME CpuTypeOK
    PROVE  Typed(cpu)
BY DEF CpuTypeOK, Typed

LEMMA InitTypes ==
    ASSUME CpuInit
    PROVE  Types
<1> DEFINE pc == Prg(Vector.RESET) + Size * Prg(Vector.RESET + 1)
<1>1. prg \in DOMAIN Programs
  BY DEF CpuInit
<1>2. pc \in Address
  <2>1. /\ Vector.RESET \in Address /\ Vector.RESET + 1 \in Address
        /\ Vector.RESET >= 32768 /\ Vector.RESET + 1 >= 32768
    BY Widths DEF Vector
  <2>2. Prg(Vector.RESET) \in Byte /\ Prg(Vector.RESET + 1) \in Byte
    BY <1>1, <2>1, PrgType
  <2> QED
    BY <2>2, BytesWord
<1>3. 0 \in Address /\ 0 \in Byte /\ 253 \in Byte /\ {"I", "U"} \in SUBSET Flag
  BY Widths DEF Flag
<1>4. cpu = [pc |-> pc, address |-> 0, ac |-> 0, x |-> 0, y |-> 0, sp |-> 253,
             sr |-> {"I", "U"}, ram |-> <<>>, cycles |-> 0]
  BY DEF CpuInit
<1> HIDE DEF pc
<1>5. Memory(<<>>)
  <2>1. DOMAIN <<>> = {}
    OBVIOUS
  <2> QED
    BY <2>1 DEF Memory
<1>6. cpu.ram = <<>> /\ cpu \in CpuState(<<>>)
  BY <1>2, <1>3, <1>4 DEF CpuState
<1>7. posted \in 0 .. MaxNmis
  BY CpuAssumption DEF CpuInit
<1>8. is_running \in BOOLEAN
  BY DEF CpuInit, Supported
<1>9. frames \in Seq(Frame) /\ pending_interrupt \in {"NONE", "NMI"}
      /\ returned \in Frame \cup {NoFrame}
  BY DEF CpuInit
<1> QED
  BY <1>1, <1>5, <1>6, <1>7, <1>8, <1>9 DEF Types, CpuTypeOK

LEMMA ExecuteTypes ==
    ASSUME Types, NEW in \in Inputs, Execute(in)
    PROVE  Types'
<1> USE DEF Types
<1>1. Typed(cpu') /\ Typed(Addressed(in))
  BY TypedCpu, ExecuteSound DEF Sound
<1>2. frames' \in Seq(Frame) /\ returned' \in Frame \cup {NoFrame}
  BY <1>1, OpenedType, ExecuteIs
<1> QED
  BY <1>1, <1>2, ExecuteIs DEF CpuTypeOK, Typed

LEMMA NextTypes ==
    ASSUME Types, [CpuNext]_cpuVars
    PROVE  Types'
<1>1. ASSUME NEW in \in Inputs, Execute(in)
      PROVE  Types'
  BY <1>1, ExecuteTypes
<1> USE DEF Types
<1>2. ASSUME NEW in \in Inputs, Exit(in)
      PROVE  Types'
  BY <1>2 DEF Exit, CpuTypeOK
<1>3. CASE cpu_set_interrupt
  <2>1. posted' \in 0 .. MaxNmis
    BY <1>3, CpuAssumption DEF cpu_set_interrupt, CpuTypeOK
  <2> QED
    BY <1>3, <2>1 DEF cpu_set_interrupt, CpuTypeOK
<1>4. CASE UNCHANGED cpuVars
  BY <1>4 DEF cpuVars, CpuTypeOK
<1> QED
  BY <1>1, <1>2, <1>3, <1>4 DEF CpuNext, cpu_run_cycle

\* Whatever a program in ROM does, the registers are bytes and addresses, and
\* only cells of ram[] and cartridge_ram[] are ever written: for every coding
\* of the instructions.
THEOREM CpuTypes == CpuSpec => []CpuTypeOK
<1>1. CpuInit => Types
  BY InitTypes
<1>2. Types /\ [CpuNext]_cpuVars => Types'
  BY NextTypes
<1>3. Types => CpuTypeOK
  BY DEF Types
<1> QED
  BY <1>1, <1>2, <1>3, PTL DEF CpuSpec

LEMMA TypesAlways == CpuSpec => []Types
<1>1. CpuInit => Types
  BY InitTypes
<1>2. Types /\ [CpuNext]_cpuVars => Types'
  BY NextTypes
<1> QED
  BY <1>1, <1>2, PTL DEF CpuSpec

LEMMA NextCosts ==
    ASSUME Types, CostsAgree, [CpuNext]_cpuVars
    PROVE  CostsAgree'
<1>1. ASSUME NEW in \in Inputs, Execute(in)
      PROVE  CostsAgree'
  <2> DEFINE c == Addressed(in)
             op == Opcode(in)
             mode == Mode(in)
             n == Cycles(op, mode)
             base == IF pending_interrupt = "NMI" THEN 7 ELSE 0
             cost == cpu'.cycles - base
  <2>1. /\ <<op, mode>> \in Instructions /\ op # "JAM"
        /\ Sound(c, op, cpu') /\ Typed(c)
    BY <1>1, TypedCpu, ExecuteSound DEF Types
  <2>2. Row(op, mode)
    BY <2>1, Rows
  <2>3. last' = [op |-> op, mode |-> mode, nmi |-> pending_interrupt = "NMI"]
    BY <1>1, ExecuteIs
  <2>4. PICK extra \in 0 .. 1 :
           /\ c.cycles = Boundary.cycles + n + extra
           /\ extra = 1 => PaysForCrossing(op) /\ mode \in Modes
    BY <2>1, TypedCpu, FetchedSound DEF Types
  <2>5. Boundary.cycles = base
    BY TypedCpu, BoundaryEffect DEF Types
  <2>6. /\ n \in 2 .. 8 /\ (extra = 1 => n < 8)
        /\ op \in Branches => mode = "REL" /\ n = 2
        /\ WritesOperand(op, mode) \/ op = "SHY" => extra = 0
    BY <2>1, <2>2, <2>4 DEF Row, PaysForCrossing
  <2>7. op \in Branches => extra = 0 /\ ~WritesOperand(op, mode) /\ op # "SHY"
    BY <2>4, <2>6 DEF Modes, Branches, WritesOperand, Stores, Modifies
  <2>8. op \notin Branches => cpu'.cycles = c.cycles
    BY <2>1 DEF Sound
  <2>9. cpu'.cycles \in c.cycles .. c.cycles + 2
    BY <2>1 DEF Sound
  <2> HIDE DEF c, op, mode, n
  <2>10. cost \in 2 .. 8
    BY <2>4, <2>5, <2>6, <2>7, <2>8, <2>9
  <2>11. WritesOperand(op, mode) \/ op = "SHY" => cost = n
    BY <2>4, <2>5, <2>6, <2>7, <2>8, <2>9
  <2>12. /\ last'.op = op /\ last'.mode = mode
         /\ cost = cpu'.cycles - IF last'.nmi THEN 7 ELSE 0
    BY <2>3
  <2> HIDE DEF cost
  <2> QED
    BY <2>10, <2>11, <2>12 DEF CostsAgree, n
<1>2. CASE UNCHANGED <<cpu, last>>
  BY <1>2 DEF CostsAgree
<1> QED
  BY <1>1, <1>2 DEF CpuNext, cpu_run_cycle, Exit, cpu_set_interrupt, cpuVars

\* Every instruction of every program costs 2 to 8 cycles, which is what
\* FrameLoop counts on, and one that writes memory always costs the same.
THEOREM Costs == CpuSpec => []CostsAgree
<1>1. CpuInit => CostsAgree
  BY DEF CpuInit, CostsAgree
<1>2. Types /\ CostsAgree /\ [CpuNext]_cpuVars => CostsAgree'
  BY NextCosts
<1> QED
  BY <1>1, <1>2, TypesAlways, PTL DEF CpuSpec

-----------------------------------------------------------------------------
(* Frames on the stack.                                                    *)

\* How far place p is below place base, going down and around the page.
Depth(base, p) == (base + Size - p) % Size

LEMMA DepthOf ==
    ASSUME NEW base \in Byte, NEW p \in Byte
    PROVE  /\ Depth(base, p) \in Byte
           /\ Depth(base, p) = IF base >= p THEN base - p ELSE base + 256 - p
<1>1. base \in Nat /\ base < 256 /\ p \in Nat /\ p < 256 /\ Size = 256
  BY Widths
<1>2. Depth(base, p) = IF base >= p THEN base - p ELSE base + 256 - p
  BY <1>1, SMT DEF Depth
<1> QED
  BY <1>1, <1>2, Widths

\* Going down k places without coming around to base is k deeper.
LEMMA Deeper ==
    ASSUME NEW base \in Byte, NEW sp \in Byte, NEW k \in 0 .. 3,
           Depth(base, sp) + k < 256
    PROVE  Depth(base, Down(sp, k)) = Depth(base, sp) + k
<1>1. base \in Nat /\ base < 256 /\ sp \in Nat /\ sp < 256
  BY Widths
<1>2. Down(sp, k) \in Byte /\ Down(sp, k) = IF sp >= k THEN sp - k ELSE sp + 256 - k
  BY DownPlace
<1>3. /\ Depth(base, sp) = IF base >= sp THEN base - sp ELSE base + 256 - sp
      /\ Depth(base, Down(sp, k)) = IF base >= Down(sp, k) THEN base - Down(sp, k)
                                    ELSE base + 256 - Down(sp, k)
  BY <1>2, DepthOf
<1> QED
  BY <1>1, <1>2, <1>3

\* The flags of a program that runs: UNUSED set, BREAK clear.
Plain(sr) == "U" \in sr /\ "B" \notin sr

\* The open frames lie on the stack of c intact, each below the one before.
Stacked(open, c) ==
    /\ \A i \in 1 .. Len(open) : Intact(open[i], c) /\ Plain(open[i].sr)
    /\ \A i, j \in 1 .. Len(open) : i < j =>
          Used(open, open[i].sp) + Held(open[i]) <= Used(open, open[j].sp)

LEMMA FrameFields ==
    ASSUME NEW f \in Frame
    PROVE  /\ f.sp \in Byte /\ f.to \in Address /\ f.sr \in SUBSET Flag
           /\ f.kind \in {"JSR", "BRK", "NMI"}
           /\ Held(f) \in {2, 3} /\ (Held(f) = 2 <=> f.kind = "JSR")
BY DEF Frame, Held

LEMMA FrameAt ==
    ASSUME NEW open \in Seq(Frame), NEW i \in 1 .. Len(open)
    PROVE  open[i] \in Frame
OBVIOUS

\* Intact, in terms of the places of the frame.
LEMMA IntactSlots ==
    ASSUME NEW f \in Frame, NEW c
    PROVE  Intact(f, c) <=>
              LET pushed == Size * Slot(c, f.sp) + Slot(c, Down(f.sp, 1))
                  status == Slot(c, Down(f.sp, 2))
              IN  IF f.kind = "JSR" THEN (pushed + 1) % Space = f.to
                  ELSE /\ pushed = f.to
                       /\ HasBit(status, Weight.B) <=> f.kind = "BRK"
                       /\ \A b \in Flag \ {"B", "U"} :
                             HasBit(status, Weight[b]) <=> b \in f.sr
<1>1. f.sp \in Nat /\ f.sp < 256 /\ Size = 256
  BY FrameFields, Widths
<1>2. (f.sp + 256) % 256 = f.sp
  BY <1>1, SMT
<1>3. f.sp - 1 + Size = f.sp + Size - 1 /\ f.sp - 2 + Size = f.sp + Size - 2
  BY <1>1
<1>4. /\ StackByte(c, f.sp) = Slot(c, f.sp)
      /\ StackByte(c, f.sp - 1) = Slot(c, Down(f.sp, 1))
      /\ StackByte(c, f.sp - 2) = Slot(c, Down(f.sp, 2))
  BY <1>1, <1>2, <1>3 DEF StackByte, Slot, Down
<1> QED
  BY <1>4 DEF Intact

\* A frame whose places keep their bytes stays intact.
LEMMA IntactSame ==
    ASSUME NEW f \in Frame, NEW c, NEW d, Intact(f, c),
           \A k \in 0 .. Held(f) - 1 : Slot(d, Down(f.sp, k)) = Slot(c, Down(f.sp, k))
    PROVE  Intact(f, d)
<1>1. Down(f.sp, 0) = f.sp
  BY FrameFields, DownPlace, Widths
<1>2. Slot(d, f.sp) = Slot(c, f.sp) /\ Slot(d, Down(f.sp, 1)) = Slot(c, Down(f.sp, 1))
  <2>1. 0 \in 0 .. Held(f) - 1 /\ 1 \in 0 .. Held(f) - 1
    BY FrameFields
  <2> QED
    BY <1>1, <2>1
<1>3. f.kind # "JSR" => Slot(d, Down(f.sp, 2)) = Slot(c, Down(f.sp, 2))
  <2>1. f.kind # "JSR" => 2 \in 0 .. Held(f) - 1
    BY FrameFields
  <2> QED
    BY <2>1
<1> QED
  BY <1>2, <1>3, IntactSlots

\* An instruction that leaves the places of the frames alone keeps them.
LEMMA StayKeeps ==
    ASSUME NEW open \in Seq(Frame), NEW c, NEW d, Stacked(open, c),
           \A i \in 1 .. Len(open) : \A k \in 0 .. Held(open[i]) - 1 :
              Slot(d, Down(open[i].sp, k)) = Slot(c, Down(open[i].sp, k))
    PROVE  Stacked(open, d)
<1>1. \A i \in 1 .. Len(open) : Intact(open[i], d)
  BY IntactSame, FrameAt DEF Stacked
<1> QED
  BY <1>1 DEF Stacked

LEMMA SameRamKeeps ==
    ASSUME NEW open \in Seq(Frame), NEW c, NEW d, Stacked(open, c), d.ram = c.ram
    PROVE  Stacked(open, d)
<1>1. \A p : Slot(d, p) = Slot(c, p)
  BY DEF Slot, Ram
<1> QED
  BY <1>1, StayKeeps

\* All open frames are above a place that the last one is above.
LEMMA AllBelow ==
    ASSUME NEW open \in Seq(Frame), NEW c, Stacked(open, c), NEW sp \in Byte,
           Below(open, sp), NEW i \in 1 .. Len(open)
    PROVE  /\ Used(open, open[i].sp) + Held(open[i]) <= Used(open, sp)
           /\ Used(open, sp) = Depth(open[1].sp, sp)
           /\ Used(open, open[i].sp) = Depth(open[1].sp, open[i].sp)
<1> DEFINE n == Len(open)
           f == open[i]
           top == open[n]
           u == Used(open, f.sp)
           v == Used(open, top.sp)
           w == Used(open, sp)
<1>1. n \in Nat /\ i \in 1 .. n /\ n \in 1 .. n /\ 1 \in 1 .. n /\ open # <<>>
  OBVIOUS
<1>2. f \in Frame /\ top \in Frame /\ open[1] \in Frame
  BY <1>1
<1>3. v + Held(top) <= w
  BY <1>1 DEF Below
<1>4. i < n => u + Held(f) <= v
  BY <1>1 DEF Stacked
<1>5. /\ u = Depth(open[1].sp, f.sp) /\ v = Depth(open[1].sp, top.sp)
      /\ w = Depth(open[1].sp, sp)
  BY DEF Used, Depth
<1>6. u \in Nat /\ v \in Nat /\ w \in Nat
  BY <1>2, <1>5, FrameFields, DepthOf, Widths
<1>7. Held(f) \in Nat /\ Held(top) \in Nat
  BY <1>2, FrameFields
<1>8. i = n => u = v /\ Held(f) = Held(top)
  OBVIOUS
<1> HIDE DEF u, v, w, f, top, n
<1>9. u + Held(f) <= w
  BY <1>1, <1>3, <1>4, <1>6, <1>7, <1>8
<1> QED
  BY <1>5, <1>9 DEF u, w, f

\* The places of an open frame are not those at and below such a place.
LEMMA Apart ==
    ASSUME NEW open \in Seq(Frame), NEW c, Stacked(open, c), NEW sp \in Byte,
           Below(open, sp), NEW i \in 1 .. Len(open), NEW k \in 0 .. Held(open[i]) - 1,
           NEW j \in 0 .. 3, Used(open, sp) + j < 256
    PROVE  Down(open[i].sp, k) # Down(sp, j)
<1> DEFINE f == open[i]
           base == open[1].sp
           u == Depth(base, f.sp)
           w == Depth(base, sp)
           h == Held(f)
<1>1. f \in Frame /\ open[1] \in Frame
  <2>1. 1 \in 1 .. Len(open)
    OBVIOUS
  <2> QED
    BY <2>1
<1>2. f.sp \in Byte /\ base \in Byte /\ h \in {2, 3} /\ k \in 0 .. h - 1
  BY <1>1, FrameFields
<1>3. u \in Nat /\ w \in Nat /\ w < 256
  BY <1>2, DepthOf, Widths
<1>4. u + h <= w /\ w + j < 256
  BY AllBelow
<1>5. k \in 0 .. 3 /\ u + k < 256 /\ u + k < w + j
  BY <1>2, <1>3, <1>4
<1> HIDE DEF h
<1>6. /\ Depth(base, Down(f.sp, k)) = u + k
      /\ Depth(base, Down(sp, j)) = w + j
  BY <1>2, <1>4, <1>5, Deeper
<1> HIDE DEF u, w
<1>7. u + k # w + j
  BY <1>3, <1>5
<1> QED
  BY <1>6, <1>7

\* A call or an interrupt puts its frame below the others and keeps them.
LEMMA OpenKeeps ==
    ASSUME NEW open \in Seq(Frame), NEW f \in Frame, NEW c, NEW d,
           Stacked(open, c), Below(open, f.sp), Intact(f, d), Plain(f.sr),
           Below(Append(open, f), Down(f.sp, Held(f))),
           \A p \in Byte : (\A k \in 0 .. Held(f) - 1 : p # Down(f.sp, k))
              => Slot(d, p) = Slot(c, p)
    PROVE  Stacked(Append(open, f), d)
<1> DEFINE g == Append(open, f)
           n == Len(open)
<1>1. /\ n \in Nat /\ Len(g) = n + 1 /\ g[n + 1] = f /\ g # <<>>
      /\ \A i \in 1 .. n : g[i] = open[i]
  OBVIOUS
<1>2. f.sp \in Byte /\ Held(f) \in {2, 3}
  BY FrameFields
<1>3. CASE n = 0
  BY <1>1, <1>3 DEF Stacked
<1>4. CASE n # 0
  <2> DEFINE base == open[1].sp
  <2>1. 1 \in 1 .. n /\ g[1] = open[1] /\ open[1] \in Frame
    BY <1>1, <1>4
  <2>2. base \in Byte
    BY <2>1, FrameFields
  <2>3. \A sp : Used(g, sp) = Used(open, sp) /\ Used(open, sp) = Depth(base, sp)
    BY <2>1 DEF Used, Depth
  <2>4. Used(open, f.sp) \in Nat /\ Used(open, f.sp) + Held(f) < 256
    <3>1. Down(f.sp, Held(f)) \in Byte
      BY <1>2, DownPlace
    <3>2. Used(g, f.sp) + Held(f) <= Used(g, Down(f.sp, Held(f)))
      BY <1>1 DEF Below
    <3>3. /\ Used(open, Down(f.sp, Held(f))) \in Byte /\ Used(open, f.sp) \in Byte
      BY <1>2, <2>2, <2>3, <3>1, DepthOf
    <3> QED
      BY <1>2, <2>3, <3>2, <3>3, Widths
  <2>5. ASSUME NEW i \in 1 .. n, NEW k \in 0 .. Held(open[i]) - 1
        PROVE  Slot(d, Down(open[i].sp, k)) = Slot(c, Down(open[i].sp, k))
    <3>1. open[i] \in Frame /\ open[i].sp \in Byte /\ k \in 0 .. 3
      BY FrameFields
    <3>2. Down(open[i].sp, k) \in Byte
      BY <3>1, DownPlace
    <3>3. ASSUME NEW j \in 0 .. Held(f) - 1
          PROVE  Down(open[i].sp, k) # Down(f.sp, j)
      <4>1. j \in 0 .. 3 /\ Used(open, f.sp) + j < 256
        BY <1>2, <2>4
      <4> QED
        BY <1>2, <4>1, Apart
    <3> QED
      BY <3>2, <3>3
  <2>6. Stacked(open, d)
    BY <2>5, StayKeeps
  <2>7. \A i \in 1 .. n + 1 : Intact(g[i], d) /\ Plain(g[i].sr)
    BY <1>1, <2>6 DEF Stacked
  <2>8. \A i \in 1 .. n : Used(open, open[i].sp) + Held(open[i]) <= Used(open, f.sp)
    BY <1>2, AllBelow
  <2>9. ASSUME NEW i \in 1 .. n + 1, NEW j \in 1 .. n + 1, i < j
        PROVE  Used(g, g[i].sp) + Held(g[i]) <= Used(g, g[j].sp)
    <3>1. i \in 1 .. n
      BY <1>1, <2>9
    <3>2. CASE j \in 1 .. n
      BY <1>1, <2>3, <2>6, <2>9, <3>1, <3>2 DEF Stacked
    <3>3. CASE j = n + 1
      BY <1>1, <2>3, <2>8, <3>1, <3>3
    <3> QED
      BY <1>1, <3>2, <3>3
  <2> QED
    BY <1>1, <2>7, <2>9 DEF Stacked
<1> QED
  BY <1>3, <1>4

\* A return gives the last frame back and keeps the others.
LEMMA CloseKeeps ==
    ASSUME NEW open \in Seq(Frame), open # <<>>, NEW c, Stacked(open, c)
    PROVE  Stacked(SubSeq(open, 1, Len(open) - 1), c)
<1> DEFINE n == Len(open)
           g == SubSeq(open, 1, n - 1)
<1>1. n \in Nat /\ Len(g) = n - 1 /\ \A i \in 1 .. n - 1 : g[i] = open[i]
  <2>1. n \in Nat \ {0}
    OBVIOUS
  <2>2. Len(g) = n - 1
    <3>1. \A m \in 0 .. n : Len(SubSeq(open, 1, m)) = m
      OBVIOUS
    <3>2. n - 1 \in 0 .. n
      BY <2>1
    <3> QED
      BY <3>1, <3>2
  <2>3. \A i \in 1 .. n - 1 : g[i] = open[i]
    BY <2>1
  <2> QED
    BY <2>1, <2>2, <2>3
<1>2. ASSUME NEW i \in 1 .. n - 1
      PROVE  Used(g, g[i].sp) = Used(open, open[i].sp)
  <2>1. 1 \in 1 .. n - 1
    BY <1>1
  <2> QED
    BY <1>1, <2>1 DEF Used
<1> HIDE DEF g
<1>3. \A i \in 1 .. n - 1 : i \in 1 .. n
  BY <1>1
<1> QED
  BY <1>1, <1>2, <1>3 DEF Stacked, g

-----------------------------------------------------------------------------
(* The stack under a step.                                                 *)

\* What a call, a BRK or an NMI pushes is its frame.
LEMMA FramePushed ==
    ASSUME NEW f \in Frame, NEW d, NEW v \in Address, NEW sr \in SUBSET Flag,
           Slot(d, f.sp) = v \div Size, Slot(d, Down(f.sp, 1)) = v % Size,
           f.kind = "JSR" => (v + 1) % Space = f.to,
           f.kind # "JSR" =>
              /\ v = f.to /\ Slot(d, Down(f.sp, 2)) = StatusByte(sr)
              /\ "B" \in sr <=> f.kind = "BRK"
              /\ \A b \in Flag \ {"B", "U"} : b \in sr <=> b \in f.sr
    PROVE  Intact(f, d)
<1>1. Size * Slot(d, f.sp) + Slot(d, Down(f.sp, 1)) = v
  BY WordBytes
<1>2. CASE f.kind = "JSR"
  BY <1>1, <1>2, IntactSlots
<1>3. CASE f.kind # "JSR"
  <2>1. \A b \in Flag : HasBit(StatusByte(sr), Weight[b]) <=> b \in sr
    BY StatusBits
  <2>2. HasBit(StatusByte(sr), Weight.B) <=> "B" \in sr
    BY <2>1 DEF Flag
  <2> QED
    BY <1>1, <1>3, <2>1, <2>2, IntactSlots
<1> QED
  BY <1>2, <1>3

\* The places of a push, counted down.
LEMMA PushedPlaces ==
    ASSUME NEW sp \in Byte
    PROVE  /\ Down(sp, 0) = sp
           /\ \A p : (\A k \in 0 .. 2 - 1 : p # Down(sp, k))
                 => p \notin {sp, Down(sp, 1)}
           /\ \A p : (\A k \in 0 .. 3 - 1 : p # Down(sp, k))
                 => p \notin {sp, Down(sp, 1), Down(sp, 2)}
<1>1. Down(sp, 0) = sp
  BY DownPlace, Widths
<1>2. 0 \in 0 .. 1 /\ 1 \in 0 .. 1 /\ 0 \in 0 .. 2 /\ 1 \in 0 .. 2 /\ 2 \in 0 .. 2
  OBVIOUS
<1> QED
  BY <1>1, <1>2

\* An opcode that pushes nothing changes the places it stores at, if any.
LEMMA QuietSlots ==
    ASSUME prg \in DOMAIN Programs, NEW c, Typed(c), NEW op, NEW mode,
           op \notin {"JSR", "BRK", "PHA", "PHP"},
           <<op, mode>> \in Instructions, NEW in \in Byte,
           ~Exits(c, op, mode, in),
           NEW p \in Byte, \A a \in StoresAt(c, op, mode) : Cell(a) # Size + p
    PROVE  Slot(execute_instruction(c, op, mode, in), p) = Slot(c, p)
<1> DEFINE d == execute_instruction(c, op, mode, in)
<1>1. /\ op \in Control \cup DataOps
      /\ WritesOperand(op, mode) => Writable(c.address)
      /\ op = "SHX" => Writable(Size * HighAnd(c, "x"))
      /\ op = "SHY" => Writable(Size * HighAnd(c, "y"))
      /\ op \in Control => ~WritesOperand(op, mode)
  BY GoesThrough
<1>2. d.ram = c.ram => Slot(d, p) = Slot(c, p)
  BY DEF Slot, Ram
<1>3. Cell(Size + p) = Size + p
  BY StackCell
<1>4. c.address \in Address /\ c.x \in Byte
  BY Registers
<1>5. CASE op \in Branches
  <2>1. d = branch_if(c, (Tested[op] \in c.sr) = (op \in BranchesIfSet))
    BY <1>5 DEF execute_instruction, Branches
  <2> QED
    BY <1>2, <2>1, BranchEffect
<1>6. CASE op = "JMP"
  <2>1. d = [c EXCEPT !.pc = c.address]
    BY <1>6 DEF execute_instruction, Branches
  <2> QED
    BY <1>2, <1>4, <2>1, SetPc
<1>7. CASE op = "RTS"
  <2>1. d = RTS(c)
    BY <1>7 DEF execute_instruction, Branches
  <2> QED
    BY <1>2, <2>1, RTSEffect
<1>8. CASE op = "RTI"
  <2>1. d = RTI(c)
    BY <1>8 DEF execute_instruction, Branches
  <2> QED
    BY <1>2, <2>1, RTIEffect
<1>9. CASE op = "PLA"
  <2>1. d = [Popped(c, 1) EXCEPT !.ac = Top(c, 1), !.sr = set_ZN_flags(@, Top(c, 1))]
    BY <1>9 DEF execute_instruction, Branches
  <2>2. d.ram = c.ram
    BY <2>1, PLAEffect, Zenon
  <2> QED
    BY <1>2, <2>2
<1>10. CASE op = "PLP"
  <2>1. d = [Popped(c, 1) EXCEPT !.sr = Pulled(@, Top(c, 1))]
    BY <1>10 DEF execute_instruction, Branches
  <2>2. d.ram = c.ram
    BY <2>1, PLPEffect, Zenon
  <2> QED
    BY <1>2, <2>2
<1>11. CASE op = "TXS"
  <2>1. d = [c EXCEPT !.sp = c.x]
    BY <1>11 DEF execute_instruction, Branches
  <2> QED
    BY <1>2, <1>4, <2>1, SetSp
<1>12. CASE op = "TSX"
  <2>1. d = [c EXCEPT !.x = c.sp, !.sr = set_ZN_flags(@, c.sp)]
    BY <1>12 DEF execute_instruction, Branches
  <2>2. d.ram = c.ram
    BY <2>1, TSXEffect, Zenon
  <2> QED
    BY <1>2, <2>2
<1>13. ASSUME NEW reg \in {"x", "y"}, op = IF reg = "x" THEN "SHX" ELSE "SHY"
       PROVE  Slot(d, p) = Slot(c, p)
  <2> DEFINE a == Size * HighAnd(c, reg) + (c.address % Size)
  <2>1. d = StoreHigh(c, reg)
    BY <1>13 DEF execute_instruction, Branches
  <2>2. StoresAt(c, op, mode) = {a}
    BY <1>13 DEF StoresAt, WritesOperand, Stores, Modifies
  <2>3. Cell(Size + p) # Cell(a)
    BY <1>3, <2>2
  <2>4. Writable(Size * HighAnd(c, reg))
    BY <1>1, <1>13
  <2> QED
    BY <2>1, <2>3, <2>4, HighEffect DEF Slot
<1>14. CASE op \notin Control
  <2>1. d = Data(c, op, mode, in) /\ op \in DataOps
    BY <1>1, <1>14 DEF execute_instruction, Control
  <2>2. CASE WritesOperand(op, mode)
    <3>1. StoresAt(c, op, mode) = {c.address}
      BY <2>2 DEF StoresAt, WritesOperand, Stores, Modifies
    <3>2. Cell(Size + p) # Cell(c.address)
      BY <1>3, <3>1
    <3> QED
      BY <1>1, <2>1, <3>2, DataEffect DEF Slot
  <2>3. CASE ~WritesOperand(op, mode)
    BY <1>2, <2>1, <2>3, DataEffect
  <2> QED
    BY <2>2, <2>3
<1> QED
  BY <1>5, <1>6, <1>7, <1>8, <1>9, <1>10, <1>11, <1>12, <1>13, <1>14 DEF Control

\* With the stack pointer below the frames after it, an NMI keeps them.
Kept == Types /\ Plain(cpu.sr) /\ Stacked(frames, cpu) /\ Below(frames, cpu.sp)

LEMMA BoundaryKept ==
    ASSUME Kept, Below(OpenFrames, Boundary.sp)
    PROVE  Stacked(OpenFrames, Boundary) /\ Plain(Boundary.sr)
<1> DEFINE c == [cpu EXCEPT !.cycles = 0]
           f == [kind |-> "NMI", to |-> cpu.pc, sr |-> cpu.sr, sp |-> cpu.sp]
           d == Interrupted(c)
<1>1. Typed(cpu) /\ prg \in DOMAIN Programs /\ frames \in Seq(Frame)
  BY TypedCpu DEF Kept, Types, CpuTypeOK
<1>2. /\ Typed(c) /\ c.pc = cpu.pc /\ c.sr = cpu.sr /\ c.sp = cpu.sp
      /\ c.ram = cpu.ram
  BY <1>1, SetCycles
<1>3. Boundary = IF pending_interrupt = "NMI" THEN d ELSE c
  BY DEF Boundary
<1>4. OpenFrames = IF pending_interrupt = "NMI" THEN Append(frames, f) ELSE frames
  BY DEF OpenFrames
<1>5. cpu.pc \in Address /\ cpu.sr \in SUBSET Flag /\ cpu.sp \in Byte
  BY <1>1, Registers
<1>6. /\ f \in Frame /\ f.kind = "NMI" /\ f.to = cpu.pc /\ f.sr = cpu.sr /\ f.sp = cpu.sp
      /\ Held(f) = 3
  BY <1>5 DEF Frame, Held
<1> HIDE DEF c, f
<1>7. Stacked(frames, c) /\ Plain(c.sr)
  BY <1>1, <1>2, SameRamKeeps DEF Kept
<1>8. CASE pending_interrupt # "NMI"
  BY <1>3, <1>4, <1>7, <1>8
<1>9. CASE pending_interrupt = "NMI"
  <2>1. /\ Typed(d) /\ d.sr = f.sr \cup {"I"} /\ d.sp = Down(f.sp, 3)
        /\ Slot(d, f.sp) = f.to \div Size /\ Slot(d, Down(f.sp, 1)) = f.to % Size
        /\ Slot(d, Down(f.sp, 2)) = StatusByte(f.sr)
        /\ \A p \in Byte \ {f.sp, Down(f.sp, 1), Down(f.sp, 2)} : Slot(d, p) = Slot(c, p)
    BY <1>1, <1>2, <1>6, InterruptedEffect
  <2>2. Boundary = d /\ OpenFrames = Append(frames, f)
    BY <1>3, <1>4, <1>9
  <2> HIDE DEF d
  <2>3. "B" \notin f.sr /\ "U" \in f.sr /\ Plain(f.sr)
    BY <1>6 DEF Kept, Plain
  <2>4. Intact(f, d)
    BY <1>5, <1>6, <2>1, <2>3, FramePushed
  <2>5. Below(frames, f.sp) /\ Below(Append(frames, f), Down(f.sp, Held(f)))
    BY <1>6, <2>1, <2>2 DEF Kept
  <2>6. \A p \in Byte : (\A k \in 0 .. Held(f) - 1 : p # Down(f.sp, k))
           => Slot(d, p) = Slot(c, p)
    BY <1>5, <1>6, <2>1, PushedPlaces
  <2>7. Stacked(Append(frames, f), d)
    <3>1. frames \in Seq(Frame) /\ f \in Frame /\ Stacked(frames, c) /\ Plain(f.sr)
      BY <1>1, <1>6, <1>7, <2>3
    <3> QED
      BY <2>4, <2>5, <2>6, <3>1, OpenKeeps
  <2>8. Plain(d.sr)
    BY <2>1, <2>3 DEF Plain
  <2> QED
    BY <2>2, <2>7, <2>8
<1> QED
  BY <1>8, <1>9

-----------------------------------------------------------------------------
(* An instruction that keeps the stack.                                    *)

\* What KeepsStack and the fetch give it.
LEMMA Start ==
    ASSUME Kept, NEW in \in Inputs, Execute(in), KeepsStack(in)
    PROVE  /\ Typed(Addressed(in)) /\ Plain(Addressed(in).sr)
           /\ Stacked(OpenFrames, Addressed(in)) /\ OpenFrames \in Seq(Frame)
           /\ Below(OpenFrames, Addressed(in).sp)
           /\ Addressed(in).sp \in Byte
<1> DEFINE c == Addressed(in)
<1>1. prg \in DOMAIN Programs /\ Typed(cpu) /\ CpuTypeOK
  BY TypedCpu DEF Kept, Types
<1>2. Opcode(in) # "JAM" /\ Typed(c)
  BY <1>1, ExecuteSound
<1>3. c.sp = Boundary.sp /\ c.ram = Boundary.ram /\ c.sr = Boundary.sr \cup {"U"}
  BY <1>1, <1>2, FetchedSound
<1>4. Below(OpenFrames, c.sp)
  BY KeepsStackIs
<1> HIDE DEF c
<1>5. Stacked(OpenFrames, Boundary) /\ Plain(Boundary.sr)
  BY <1>3, <1>4, BoundaryKept
<1>6. OpenFrames \in Seq(Frame)
  BY <1>1, OpenFramesType
<1>7. Stacked(OpenFrames, c) /\ Plain(c.sr)
  BY <1>3, <1>5, <1>6, SameRamKeeps DEF Plain
<1> QED
  BY <1>2, <1>4, <1>6, <1>7, Registers DEF c

\* JSR and BRK.
LEMMA CallKeeps ==
    ASSUME prg \in DOMAIN Programs, NEW c, Typed(c), NEW open \in Seq(Frame),
           Stacked(open, c), Plain(c.sr), Below(open, c.sp),
           Below(Append(open, [kind |-> "JSR", to |-> c.pc, sr |-> c.sr, sp |-> c.sp]),
                 JSR(c).sp)
    PROVE  Stacked(Append(open, [kind |-> "JSR", to |-> c.pc, sr |-> c.sr, sp |-> c.sp]),
                   JSR(c))
<1> DEFINE f == [kind |-> "JSR", to |-> c.pc, sr |-> c.sr, sp |-> c.sp]
           v == (c.pc + Space - 1) % Space
           d == JSR(c)
<1>1. c.pc \in Address /\ c.sr \in SUBSET Flag /\ c.sp \in Byte
  BY Registers
<1>2. /\ f \in Frame /\ f.kind = "JSR" /\ f.to = c.pc /\ f.sr = c.sr /\ f.sp = c.sp
      /\ Held(f) = 2
  BY <1>1 DEF Frame, Held
<1>3. (v + 1) % Space = c.pc
  <2>1. c.pc \in Nat /\ c.pc < 65536 /\ Space = 65536
    BY <1>1, Widths
  <2>2. v = IF c.pc = 0 THEN 65535 ELSE c.pc - 1
    <3>1. \A n \in Nat : 0 < n /\ n < 65536 => (n + 65535) % 65536 = n - 1
      BY SMT
    <3>2. c.pc + Space - 1 = c.pc + 65535
      BY <2>1
    <3> QED
      BY <2>1, <3>1, <3>2
  <2>3. CASE c.pc = 0
    BY <2>1, <2>2, <2>3
  <2>4. CASE c.pc # 0
    <3>1. v + 1 = c.pc
      BY <2>1, <2>2, <2>4
    <3>2. c.pc % 65536 = c.pc
      BY <2>1, SMT
    <3> QED
      BY <2>1, <3>1, <3>2
  <2> QED
    BY <2>3, <2>4
<1>4. /\ d.sp = Down(c.sp, 2) /\ v \in Address
      /\ Slot(d, c.sp) = v \div Size /\ Slot(d, Down(c.sp, 1)) = v % Size
      /\ \A p \in Byte \ {c.sp, Down(c.sp, 1)} : Slot(d, p) = Slot(c, p)
  BY JSREffect
<1>5. Below(Append(open, f), d.sp)
  OBVIOUS
<1> SUFFICES Stacked(Append(open, f), d)
  OBVIOUS
<1> HIDE DEF f, v, d
<1>6. Intact(f, d)
  BY <1>1, <1>2, <1>3, <1>4, FramePushed
<1>7. \A p \in Byte : (\A k \in 0 .. Held(f) - 1 : p # Down(f.sp, k))
         => Slot(d, p) = Slot(c, p)
  BY <1>1, <1>2, <1>4, PushedPlaces
<1>8. Below(Append(open, f), Down(f.sp, Held(f))) /\ Below(open, f.sp) /\ Plain(f.sr)
  BY <1>2, <1>4, <1>5
<1> QED
  BY <1>2, <1>6, <1>7, <1>8, OpenKeeps

LEMMA BreakKeeps ==
    ASSUME prg \in DOMAIN Programs, NEW c, Typed(c), NEW open \in Seq(Frame),
           NEW in \in Byte, Stacked(open, c), Plain(c.sr), Below(open, c.sp),
           Below(Append(open, [kind |-> "BRK", to |-> (c.pc + 1) % Space,
                               sr |-> c.sr, sp |-> c.sp]),
                 BRK(c, in).sp)
    PROVE  Stacked(Append(open, [kind |-> "BRK", to |-> (c.pc + 1) % Space,
                                 sr |-> c.sr, sp |-> c.sp]),
                   BRK(c, in))
<1> DEFINE v == (c.pc + 1) % Space
           sr == c.sr \cup {"B", "U"}
           f == [kind |-> "BRK", to |-> v, sr |-> c.sr, sp |-> c.sp]
           d == BRK(c, in)
<1>1. c.sr \in SUBSET Flag /\ c.sp \in Byte
  BY Registers
<1>2. sr \in SUBSET Flag /\ "B" \in sr /\ \A b \in Flag \ {"B", "U"} : b \in sr <=> b \in c.sr
  BY <1>1 DEF Flag
<1>3. /\ d.sp = Down(c.sp, 3) /\ v \in Address
      /\ Slot(d, c.sp) = v \div Size /\ Slot(d, Down(c.sp, 1)) = v % Size
      /\ Slot(d, Down(c.sp, 2)) = StatusByte(sr)
      /\ \A p \in Byte \ {c.sp, Down(c.sp, 1), Down(c.sp, 2)} : Slot(d, p) = Slot(c, p)
  BY BRKEffect
<1>4. Below(Append(open, f), d.sp)
  OBVIOUS
<1> SUFFICES Stacked(Append(open, f), d)
  OBVIOUS
<1> HIDE DEF v, d, sr
<1>5. /\ f \in Frame /\ f.kind = "BRK" /\ f.to = v /\ f.sr = c.sr /\ f.sp = c.sp
      /\ Held(f) = 3
  BY <1>1, <1>3 DEF Frame, Held
<1> HIDE DEF f
<1>6. Intact(f, d)
  BY <1>1, <1>2, <1>3, <1>5, FramePushed
<1>7. \A p \in Byte : (\A k \in 0 .. Held(f) - 1 : p # Down(f.sp, k))
         => Slot(d, p) = Slot(c, p)
  BY <1>1, <1>3, <1>5, PushedPlaces
<1>8. Below(Append(open, f), Down(f.sp, Held(f))) /\ Below(open, f.sp) /\ Plain(f.sr)
  BY <1>3, <1>4, <1>5
<1> QED
  BY <1>5, <1>6, <1>7, <1>8, OpenKeeps

\* PHA and PHP.
LEMMA PushKeeps ==
    ASSUME NEW c, Typed(c), NEW open \in Seq(Frame), Stacked(open, c), Below(open, c.sp),
           NEW v \in Byte
    PROVE  Stacked(open, Push(c, v))
<1> DEFINE d == Push(c, v)
<1>1. c.sp \in Byte /\ Down(c.sp, 0) = c.sp
  BY Registers, PushedPlaces
<1>2. \A p \in Byte : p # c.sp => Slot(d, p) = Slot(c, p)
  BY PushEffect
<1> HIDE DEF d
<1>3. ASSUME NEW i \in 1 .. Len(open), NEW k \in 0 .. Held(open[i]) - 1
      PROVE  Slot(d, Down(open[i].sp, k)) = Slot(c, Down(open[i].sp, k))
  <2>1. open[i] \in Frame /\ open[1] \in Frame
    <3>1. 1 \in 1 .. Len(open)
      OBVIOUS
    <3> QED
      BY <3>1
  <2>2. open[i].sp \in Byte /\ k \in 0 .. 3
    BY <2>1, FrameFields
  <2>3. Down(open[i].sp, k) \in Byte
    BY <2>2, DownPlace
  <2>4. Used(open, c.sp) + 0 < 256
    <3>1. Used(open, c.sp) = Depth(open[1].sp, c.sp)
      BY DEF Used, Depth
    <3> QED
      BY <1>1, <2>1, <3>1, FrameFields, DepthOf, Widths
  <2>5. 0 \in 0 .. 3
    OBVIOUS
  <2>6. Down(open[i].sp, k) # c.sp
    BY <1>1, <2>4, <2>5, Apart
  <2> QED
    BY <1>2, <2>3, <2>6
<1> QED
  BY <1>3, StayKeeps DEF d

\* The rest store, if at all, away from the frames.
LEMMA QuietKeeps ==
    ASSUME prg \in DOMAIN Programs, NEW c, Typed(c), NEW op, NEW mode,
           op \notin {"JSR", "BRK", "PHA", "PHP"},
           <<op, mode>> \in Instructions, NEW in \in Byte,
           ~Exits(c, op, mode, in),
           NEW open \in Seq(Frame), Stacked(open, c),
           \A a \in StoresAt(c, op, mode), i \in 1 .. Len(open) :
              \A p \in Places(open[i]) : Cell(a) # Size + p
    PROVE  Stacked(open, execute_instruction(c, op, mode, in))
<1> DEFINE d == execute_instruction(c, op, mode, in)
<1>1. ASSUME NEW i \in 1 .. Len(open), NEW k \in 0 .. Held(open[i]) - 1
      PROVE  Slot(d, Down(open[i].sp, k)) = Slot(c, Down(open[i].sp, k))
  <2> DEFINE p == Down(open[i].sp, k)
  <2>1. open[i].sp \in Byte /\ k \in 0 .. 3
    BY FrameAt, FrameFields
  <2>2. p \in Byte
    BY <2>1, DownPlace
  <2>3. p \in Places(open[i])
    BY DEF Places, Down
  <2> HIDE DEF p
  <2>4. \A a \in StoresAt(c, op, mode) : Cell(a) # Size + p
    BY <2>3
  <2>5. Slot(d, p) = Slot(c, p)
    BY <2>2, <2>4, QuietSlots
  <2> QED
    BY <2>5 DEF p
<1> HIDE DEF d
<1> QED
  BY <1>1, StayKeeps DEF d

LEMMA ExecuteKeeps ==
    ASSUME Kept, NEW in \in Inputs, Execute(in), KeepsStack(in)
    PROVE  Kept'
<1> DEFINE c == Addressed(in)
           op == Opcode(in)
           mode == Mode(in)
           open == OpenFrames
           j == [kind |-> "JSR", to |-> c.pc, sr |-> c.sr, sp |-> c.sp]
           b == [kind |-> "BRK", to |-> (c.pc + 1) % Space, sr |-> c.sr, sp |-> c.sp]
<1>1. prg \in DOMAIN Programs /\ Typed(cpu)
  BY TypedCpu DEF Kept, Types
<1>2. /\ Typed(c) /\ Plain(c.sr) /\ Stacked(open, c) /\ open \in Seq(Frame)
      /\ Below(open, c.sp)
  BY Start
<1>3. /\ in \in Byte /\ <<op, mode>> \in Instructions /\ ~Exits(c, op, mode, in)
      /\ cpu' = execute_instruction(c, op, mode, in)
      /\ Sound(c, op, cpu')
  BY <1>1, ExecuteSound, ExecuteIs
<1>4. Types'
  BY ExecuteTypes DEF Kept
<1>5. Plain(cpu'.sr)
  BY <1>2, <1>3 DEF Sound, Plain, SameBU
<1>6. /\ Below(frames', cpu'.sp)
      /\ \A a \in StoresAt(c, op, mode), i \in 1 .. Len(open) :
            \A p \in Places(open[i]) : Cell(a) # Size + p
  BY KeepsStackIs
<1>7. frames' = CASE op = "JSR" -> Append(open, j)
                  [] op = "BRK" -> Append(open, b)
                  [] op \in {"RTS", "RTI"} /\ open # <<>> -> SubSeq(open, 1, Len(open) - 1)
                  [] OTHER -> open
  BY ExecuteIs DEF Opened
<1>8. StatusByte(c.sr \cup {"B", "U"}) \in Byte /\ c.ac \in Byte
  BY <1>2, Pushed, Registers
<1> HIDE DEF c, op, mode, open
<1>9. CASE op = "JSR"
  <2>1. cpu' = JSR(c)
    BY <1>3, <1>9 DEF execute_instruction, Branches
  <2>2. frames' = Append(open, j)
    BY <1>7, <1>9
  <2>3. Stacked(frames', cpu')
    BY <1>1, <1>2, <1>6, <2>1, <2>2, CallKeeps
  <2> QED
    BY <1>4, <1>5, <1>6, <2>3 DEF Kept
<1>10. CASE op = "BRK"
  <2>1. cpu' = BRK(c, in)
    BY <1>3, <1>10 DEF execute_instruction, Branches
  <2>2. frames' = Append(open, b)
    BY <1>7, <1>10
  <2>3. Stacked(frames', cpu')
    BY <1>1, <1>2, <1>3, <1>6, <2>1, <2>2, BreakKeeps
  <2> QED
    BY <1>4, <1>5, <1>6, <2>3 DEF Kept
<1>11. CASE op \in {"PHA", "PHP"}
  <2>1. frames' = open
    BY <1>7, <1>11
  <2>2. PICK v \in Byte : cpu' = Push(c, v)
    BY <1>3, <1>8, <1>11 DEF execute_instruction, Branches
  <2>3. Stacked(frames', cpu')
    BY <1>2, <2>1, <2>2, PushKeeps
  <2> QED
    BY <1>4, <1>5, <1>6, <2>3 DEF Kept
<1>12. CASE op \notin {"JSR", "BRK", "PHA", "PHP"}
  <2>1. Stacked(open, cpu')
    BY <1>1, <1>2, <1>3, <1>6, <1>12, QuietKeeps
  <2>2. CASE op \in {"RTS", "RTI"} /\ open # <<>>
    <3>1. frames' = SubSeq(open, 1, Len(open) - 1)
      BY <1>7, <2>2
    <3>2. Stacked(frames', cpu')
      BY <1>2, <2>1, <2>2, <3>1, CloseKeeps
    <3> QED
      BY <1>4, <1>5, <1>6, <3>2 DEF Kept
  <2>3. CASE ~(op \in {"RTS", "RTI"} /\ open # <<>>)
    <3>1. frames' = open
      BY <1>7, <1>12, <2>3
    <3> QED
      BY <1>4, <1>5, <1>6, <2>1, <3>1 DEF Kept
  <2> QED
    BY <2>2, <2>3
<1> QED
  BY <1>9, <1>10, <1>11, <1>12

\* RTS and RTI find the frame of the call or the interrupt they end.
LEMMA RTSReturns ==
    ASSUME NEW c, Typed(c), NEW f \in Frame, Intact(f, c), f.kind = "JSR",
           c.sp = Down(f.sp, 2)
    PROVE  RTS(c).pc = f.to /\ RTS(c).sp = f.sp
<1>1. f.sp \in Byte
  BY FrameFields
<1>2. (c.sp + 1) % Size = Down(f.sp, 1) /\ (c.sp + 2) % Size = f.sp
  BY <1>1, DownPlace, UpPlace, Widths
<1>3. Top(c, 1) = Slot(c, Down(f.sp, 1)) /\ Top(c, 2) = Slot(c, f.sp)
  BY <1>2, TopByte
<1>4. Top(c, 1) \in Nat /\ Top(c, 2) \in Nat /\ Size \in Nat
  BY TopByte, Widths
<1>5. Top16(c, 1) = Size * Slot(c, f.sp) + Slot(c, Down(f.sp, 1))
  <2>1. Top16(c, 1) = Top(c, 1) + Size * Top(c, 2)
    BY DEF Top16
  <2> QED
    BY <1>3, <1>4, <2>1
<1>6. RTS(c).sp = (c.sp + 2) % Size /\ RTS(c).pc = (Top16(c, 1) + 1) % Space
  BY RTSEffect
<1> QED
  BY <1>2, <1>5, <1>6, IntactSlots

LEMMA RTIReturns ==
    ASSUME NEW c, Typed(c), Plain(c.sr), NEW f \in Frame, Plain(f.sr), Intact(f, c),
           f.kind # "JSR", c.sp = Down(f.sp, 3)
    PROVE  RTI(c).pc = f.to /\ RTI(c).sp = f.sp /\ RTI(c).sr = f.sr
<1>1. f.sp \in Byte /\ f.sr \in SUBSET Flag /\ c.sr \in SUBSET Flag
  BY FrameFields, Registers
<1>2. /\ (c.sp + 1) % Size = Down(f.sp, 2) /\ (c.sp + 2) % Size = Down(f.sp, 1)
      /\ (c.sp + 3) % Size = f.sp
  BY <1>1, DownPlace, UpPlace, Widths
<1>3. /\ Top(c, 1) = Slot(c, Down(f.sp, 2)) /\ Top(c, 2) = Slot(c, Down(f.sp, 1))
      /\ Top(c, 3) = Slot(c, f.sp)
  BY <1>2, TopByte
<1>4. Top(c, 2) \in Nat /\ Top(c, 3) \in Nat /\ Size \in Nat
  BY TopByte, Widths
<1>5. Top16(c, 2) = Size * Slot(c, f.sp) + Slot(c, Down(f.sp, 1))
  <2>1. Top16(c, 2) = Top(c, 2) + Size * Top(c, 3)
    BY DEF Top16
  <2> QED
    BY <1>3, <1>4, <2>1
<1>6. /\ RTI(c).sp = (c.sp + 3) % Size /\ RTI(c).pc = Top16(c, 2)
      /\ RTI(c).sr = Pulled(c.sr, Top(c, 1))
  BY RTIEffect
<1>7. /\ Top16(c, 2) = f.to
      /\ \A b \in Flag \ {"B", "U"} : HasBit(Top(c, 1), Weight[b]) <=> b \in f.sr
  BY <1>3, <1>5, IntactSlots
<1>8. Pulled(c.sr, Top(c, 1)) = f.sr
  <2>1. /\ Pulled(c.sr, Top(c, 1)) \in SUBSET Flag
        /\ "B" \in Pulled(c.sr, Top(c, 1)) <=> "B" \in f.sr
        /\ "U" \in Pulled(c.sr, Top(c, 1)) <=> "U" \in f.sr
        /\ \A b \in Flag \ {"B", "U"} : b \in Pulled(c.sr, Top(c, 1)) <=> b \in f.sr
    BY <1>1, <1>7, PulledFlags DEF Plain
  <2> QED
    BY <1>1, <2>1
<1> QED
  BY <1>2, <1>6, <1>7, <1>8

LEMMA ExecuteReturns ==
    ASSUME Kept, NEW in \in Inputs, Execute(in), KeepsStack(in)
    PROVE  ReturnsToCaller'
<1> DEFINE c == Addressed(in)
           op == Opcode(in)
           open == OpenFrames
           f == open[Len(open)]
<1>1. /\ Typed(c) /\ Plain(c.sr) /\ Stacked(open, c) /\ open \in Seq(Frame)
  BY Start
<1>2. cpu' = execute_instruction(c, op, Mode(in), in) /\ returned' = Returned(op)
  BY ExecuteIs
<1>3. Returned(op) = IF op \in {"RTS", "RTI"} /\ open # <<>> THEN f ELSE NoFrame
  BY DEF Returned
<1>4. op \in {"RTS", "RTI"} /\ open # <<>> =>
         /\ op = "RTS" <=> f.kind = "JSR"
         /\ c.sp = Down(f.sp, Held(f))
  BY KeepsStackIs DEF Down
<1> HIDE DEF c, op
<1>5. CASE ~(op \in {"RTS", "RTI"} /\ open # <<>>)
  BY <1>2, <1>3, <1>5 DEF ReturnsToCaller
<1>6. CASE op \in {"RTS", "RTI"} /\ open # <<>>
  <2>1. f \in Frame /\ Intact(f, c) /\ Plain(f.sr)
    <3>1. Len(open) \in 1 .. Len(open)
      BY <1>1, <1>6
    <3> QED
      BY <1>1, <3>1 DEF Stacked
  <2>2. returned' = f
    BY <1>2, <1>3, <1>6
  <2> HIDE DEF f
  <2>3. CASE op = "RTS"
    <3>1. f.kind = "JSR" /\ c.sp = Down(f.sp, 2)
      BY <1>4, <1>6, <2>3 DEF Held
    <3>2. cpu' = RTS(c)
      BY <1>2, <2>3 DEF execute_instruction, Branches
    <3> QED
      BY <1>1, <2>1, <2>2, <3>1, <3>2, RTSReturns DEF ReturnsToCaller
  <2>4. CASE op = "RTI"
    <3>1. f.kind # "JSR" /\ c.sp = Down(f.sp, 3)
      BY <1>4, <1>6, <2>4 DEF Held
    <3>2. cpu' = RTI(c)
      BY <1>2, <2>4 DEF execute_instruction, Branches
    <3> QED
      BY <1>1, <2>1, <2>2, <3>1, <3>2, RTIReturns DEF ReturnsToCaller
  <2> QED
    BY <1>6, <2>3, <2>4
<1> QED
  BY <1>5, <1>6

-----------------------------------------------------------------------------
(* What a program that keeps the stack can rely on.                        *)

Balanced == \A in \in Inputs : Execute(in) => KeepsStack(in)

LEMMA InitKept ==
    ASSUME CpuInit
    PROVE  Kept /\ ReturnsToCaller
<1>1. Types
  BY InitTypes
<1>2. Plain(cpu.sr) /\ frames = <<>> /\ returned = NoFrame
  BY DEF CpuInit, Plain
<1> QED
  BY <1>1, <1>2 DEF Kept, Stacked, Below, ReturnsToCaller

LEMMA NextKept ==
    ASSUME Kept, ReturnsToCaller, [CpuNext]_cpuVars, [Balanced]_cpuVars
    PROVE  Kept' /\ ReturnsToCaller'
<1>1. CASE UNCHANGED <<prg, cpu, frames, returned>>
  <2>1. Types'
    BY NextTypes DEF Kept
  <2> QED
    BY <1>1, <2>1 DEF Kept, ReturnsToCaller
<1>2. ASSUME NEW in \in Inputs, Execute(in), Balanced
      PROVE  Kept' /\ ReturnsToCaller'
  BY <1>2, ExecuteKeeps, ExecuteReturns DEF Balanced
<1> QED
  BY <1>1, <1>2 DEF CpuNext, cpu_run_cycle, Exit, cpu_set_interrupt, cpuVars

LEMMA KeptAlways == CpuSpec /\ StackDiscipline => [](Kept /\ ReturnsToCaller)
<1>1. CpuInit => Kept /\ ReturnsToCaller
  BY InitKept
<1>2. Kept /\ ReturnsToCaller /\ [CpuNext]_cpuVars /\ [Balanced]_cpuVars
        => (Kept /\ ReturnsToCaller)'
  BY NextKept
<1>3. StackDiscipline <=> [][Balanced]_cpuVars
  BY DEF StackDiscipline, Balanced
<1> QED
  BY <1>1, <1>2, <1>3, PTL DEF CpuSpec

\* Under every program that keeps the stack, however its calls, its interrupts
\* and its BRKs nest and wherever the stack pointer wraps, what each of them
\* pushed stays on the stack until it is returned from.
THEOREM StackIntact == CpuSpec /\ StackDiscipline => []FramesOnStack
<1>1. Kept => FramesOnStack
  BY DEF Kept, Stacked, FramesOnStack
<1> QED
  BY <1>1, KeptAlways, PTL

\* Such a program comes back from every call and every interrupt: to where it
\* was, with the stack pointer and, from an interrupt, the flags it had.
THEOREM Returns == CpuSpec /\ StackDiscipline => []ReturnsToCaller
BY KeptAlways, PTL

==============================================================================
