----------------------------- MODULE PortProofs -----------------------------
(***************************************************************************)
(* Proofs about the registers the ROM reads and writes through memory:     *)
(* OamPort, for an OAM of any size, HostInput, and IoPage, where they      *)
(* meet, for every set of keys, queue length, number of reads, frame rate  *)
(* and way of using the port; and VramPort, for every cartridge header     *)
(* and every set of bytes the ROM writes.                                  *)
(*                                                                         *)
(* A step of IoPage is a step of both parts or leaves one of them alone,   *)
(* so what is proved of a part carries over; the fairness of the two       *)
(* specifications plays no role in it.  A memory of VramPort is a function *)
(* on the cells written so far, so what a write does to it is one lemma    *)
(* about Poke.                                                             *)
(***************************************************************************)
EXTENDS IoPage, VramPort, Arithmetic

-----------------------------------------------------------------------------
(* The OAM port.                                                           *)

\* One wrap of the address register.
LEMMA WrapOnce ==
    ASSUME NEW a \in Cells, NEW i \in Cells
    PROVE  (a + i) % OamSize = IF a + i < OamSize THEN a + i ELSE a + i - OamSize
<1>1. OamSize \in Nat \ {0} /\ a \in 0 .. OamSize - 1 /\ i \in 0 .. OamSize - 1
  BY OamAssumption DEF Cells
<1>2. CASE a + i < OamSize
  BY <1>1, <1>2
<1>3. CASE a + i >= OamSize
  <2>1. (a + i - OamSize) % OamSize = a + i - OamSize
    BY <1>1, <1>3
  <2>2. (a + i) % OamSize = (a + i - OamSize) % OamSize
    BY <1>1, <1>3
  <2> QED
    BY <2>1, <2>2, <1>3, <1>1
<1> QED
  BY <1>1, <1>2, <1>3

\* What the two copies of ppu_dma() leave in each cell.
LEMMA DmaContents ==
    ASSUME OamTypeOK, ppu_dma, NEW j \in Cells
    PROVE  oam'[j] = IF j < oam_addr THEN page[OamSize - oam_addr + j]
                     ELSE page[j - oam_addr]
<1> DEFINE head == Copied(oam, oam_addr, page, 0, OamSize - oam_addr)
<1>1. /\ OamSize \in Nat \ {0}
      /\ oam_addr \in Nat /\ oam_addr < OamSize
      /\ j \in Nat /\ j < OamSize
  BY OamAssumption DEF Cells, OamTypeOK
<1>2. head[j] = IF oam_addr <= j /\ j < oam_addr + (OamSize - oam_addr)
                THEN page[0 + (j - oam_addr)] ELSE oam[j]
  BY DEF Copied
<1>3. oam' = IF oam_addr = 0 THEN head
             ELSE Copied(head, 0, page, OamSize - oam_addr, oam_addr)
  BY DEF ppu_dma
<1>4. CASE oam_addr = 0
  BY <1>1, <1>2, <1>3, <1>4
<1>5. CASE oam_addr # 0
  <2> HIDE DEF head
  <2>1. oam'[j] = IF 0 <= j /\ j < 0 + oam_addr
                  THEN page[OamSize - oam_addr + (j - 0)] ELSE head[j]
    BY <1>3, <1>5 DEF Copied
  <2>2. CASE j < oam_addr
    <3>1. oam'[j] = page[OamSize - oam_addr + (j - 0)]
      BY <2>1, <2>2, <1>1
    <3>2. OamSize - oam_addr + (j - 0) = OamSize - oam_addr + j
      BY <1>1
    <3> QED
      BY <3>1, <3>2, <2>2
  <2>3. CASE ~(j < oam_addr)
    <3>1. oam'[j] = head[j]
      BY <2>1, <2>3, <1>1
    <3>2. head[j] = page[0 + (j - oam_addr)]
      BY <1>2, <2>3, <1>1
    <3>3. 0 + (j - oam_addr) = j - oam_addr
      BY <1>1
    <3> QED
      BY <3>1, <3>2, <3>3, <2>3
  <2> QED
    BY <2>2, <2>3
<1> QED
  BY <1>4, <1>5

\* One DMA is the rotation DmaWraps describes.
LEMMA DmaStep ==
    ASSUME OamTypeOK, ppu_dma
    PROVE  /\ oam_addr' = oam_addr
           /\ \A i \in Cells : FromAddr(i)' = page[i]
<1>1. oam_addr' = oam_addr
  BY DEF ppu_dma
<1>2. ASSUME NEW i \in Cells
      PROVE  FromAddr(i)' = page[i]
  <2>1. /\ OamSize \in Nat \ {0}
        /\ oam_addr \in Cells /\ oam_addr \in Nat /\ oam_addr < OamSize
        /\ i \in Nat /\ i < OamSize
    BY OamAssumption DEF Cells, OamTypeOK
  <2>2. FromAddr(i)' = oam'[(oam_addr + i) % OamSize]
    BY <1>1 DEF FromAddr
  <2>3. CASE oam_addr + i < OamSize
    <3>1. (oam_addr + i) % OamSize = oam_addr + i
      BY <2>1, <2>3, WrapOnce
    <3>2. oam_addr + i \in Cells /\ ~(oam_addr + i < oam_addr)
      BY <2>1, <2>3 DEF Cells
    <3>3. oam'[oam_addr + i] = page[(oam_addr + i) - oam_addr]
      <4>1. ASSUME NEW j \in Cells, ~(j < oam_addr)
            PROVE  oam'[j] = page[j - oam_addr]
        BY <4>1, DmaContents
      <4> QED
        BY <4>1, <3>2
    <3>4. (oam_addr + i) - oam_addr = i
      BY <2>1
    <3> QED
      BY <2>2, <3>1, <3>3, <3>4
  <2>4. CASE ~(oam_addr + i < OamSize)
    <3>1. (oam_addr + i) % OamSize = oam_addr + i - OamSize
      BY <2>1, <2>4, WrapOnce
    <3>2. /\ oam_addr + i - OamSize \in Cells
          /\ oam_addr + i - OamSize < oam_addr
      BY <2>1, <2>4 DEF Cells
    <3>3. oam'[oam_addr + i - OamSize] = page[OamSize - oam_addr + (oam_addr + i - OamSize)]
      BY <3>2, DmaContents
    <3>4. OamSize - oam_addr + (oam_addr + i - OamSize) = i
      BY <2>1
    <3> QED
      BY <2>2, <3>1, <3>3, <3>4
  <2> QED
    BY <2>3, <2>4
<1> QED
  BY <1>1, <1>2

\* Copying keeps a memory a memory.
LEMMA CopiedType ==
    ASSUME NEW t \in [Cells -> Bytes], NEW s \in [Cells -> Bytes],
           NEW at \in Int, NEW from \in Int, NEW n \in Int,
           from >= 0, from + n <= OamSize
    PROVE  Copied(t, at, s, from, n) \in [Cells -> Bytes]
<1> SUFFICES ASSUME NEW i \in Cells, at <= i, i < at + n
             PROVE  s[from + (i - at)] \in Bytes
  BY DEF Copied
<1>1. from + (i - at) \in Cells
  BY OamAssumption DEF Cells
<1> QED
  BY <1>1

\* Every step keeps the address and the bytes in range.
LEMMA OamTypeInduction == OamTypeOK /\ [OamNext]_oamVars => OamTypeOK'
<1> SUFFICES ASSUME OamTypeOK, [OamNext]_oamVars PROVE OamTypeOK'
  OBVIOUS
<1>1. CASE RamWrite
  BY <1>1 DEF RamWrite, OamTypeOK
<1>2. CASE WriteOamAddr
  BY <1>2 DEF WriteOamAddr, OamTypeOK
<1>3. CASE WriteOamData
  <2>1. (oam_addr + 1) % OamSize \in Cells
    BY OamAssumption DEF OamTypeOK, Cells
  <2> QED
    BY <1>3, <2>1 DEF WriteOamData, OamTypeOK
<1>4. CASE ppu_dma
  <2>1. OamSize \in Nat \ {0} /\ oam_addr \in Nat /\ oam_addr < OamSize
    BY OamAssumption DEF OamTypeOK, Cells
  <2>2. Copied(oam, oam_addr, page, 0, OamSize - oam_addr) \in [Cells -> Bytes]
    BY <2>1, CopiedType DEF OamTypeOK
  <2>3. Copied(Copied(oam, oam_addr, page, 0, OamSize - oam_addr),
               0, page, OamSize - oam_addr, oam_addr) \in [Cells -> Bytes]
    BY <2>1, <2>2, CopiedType DEF OamTypeOK
  <2> QED
    BY <1>4, <2>2, <2>3 DEF ppu_dma, OamTypeOK
<1>5. CASE UNCHANGED oamVars
  BY <1>5 DEF oamVars, OamTypeOK
<1> QED
  BY <1>1, <1>2, <1>3, <1>4, <1>5 DEF OamNext

\* Type correctness: the address register never leaves OAM and neither copy
\* of the DMA reads or writes outside its memory.
THEOREM OamTypeCorrect == OamSpec => []OamTypeOK
<1>1. OamInit => OamTypeOK
  BY OamAssumption DEF OamInit, OamTypeOK, Cells
<1> QED
  BY <1>1, OamTypeInduction, PTL DEF OamSpec

\* For an OAM of any size and any value of $2003, the two copies of ppu_dma()
\* are one rotation of the page.
THEOREM DmaIsRotation == OamSpec => DmaWraps
<1>1. OamTypeOK /\ [OamNext]_oamVars =>
        [ppu_dma => /\ oam_addr' = oam_addr
                    /\ \A i \in Cells : FromAddr(i)' = page[i]]_oamVars
  BY DmaStep
<1> QED
  BY <1>1, OamTypeCorrect, PTL DEF OamSpec, DmaWraps

-----------------------------------------------------------------------------
(* Host input.                                                             *)

\* SerialReads is not inductive: the bit read next is where the register has
\* been shifted to.  Once MaxReads bits are recorded the register is of no
\* more interest.
RegisterHoldsRest ==
    Len(seen) < MaxReads =>
        \A i \in 1 .. 8 :
            controller_shift_register[i]
              = (i + Len(seen) <= 8 /\ ButtonOrder[i + Len(seen)] \in latched)

SerialInv == InputTypeOK /\ SerialReads /\ RegisterHoldsRest

\* A latch samples the keyboard into a register.
LEMMA ButtonByteType ==
    ASSUME NEW pressed
    PROVE  ButtonByte(pressed) \in [1 .. 8 -> BOOLEAN]
BY DEF ButtonByte

\* No key is down and no event queued when the window opens.
LEMMA SerialInit == InputInit => SerialInv
<1> SUFFICES ASSUME InputInit PROVE SerialInv
  OBVIOUS
<1>1. InputTypeOK
  <2>1. 0 \in 0 .. FrameRate - 1 /\ 0 <= MaxEvents
    BY InputAssumption
  <2>2. <<>> \in Seq({"key", "quit"}) /\ <<>> \in Seq(BOOLEAN) /\ Len(<<>>) = 0
    OBVIOUS
  <2> QED
    BY <2>1, <2>2, ButtonByteType DEF InputInit, InputTypeOK
<1>2. SerialReads
  BY DEF InputInit, SerialReads
<1>3. RegisterHoldsRest
  BY DEF InputInit, RegisterHoldsRest, ButtonByte
<1> QED
  BY <1>1, <1>2, <1>3 DEF SerialInv

\* The user adds to the queue and changes neither the register nor what was read.
LEMMA SerialUser ==
    ASSUME SerialInv, PressOrRelease \/ CloseWindow
    PROVE  SerialInv'
<1>1. /\ events \in Seq({"key", "quit"}) /\ Len(events) < MaxEvents /\ MaxEvents \in Nat
      /\ events' = Append(events, "key") \/ events' = Append(events, "quit")
  BY InputAssumption DEF SerialInv, InputTypeOK, PressOrRelease, CloseWindow
<1>2. events' \in Seq({"key", "quit"}) /\ Len(events') <= MaxEvents
  <2>1. ASSUME NEW e \in {"key", "quit"}, events' = Append(events, e)
        PROVE  events' \in Seq({"key", "quit"}) /\ Len(events') <= MaxEvents
    BY <1>1, <2>1
  <2> QED
    BY <1>1, <2>1
<1>3. held' \subseteq Keys
  BY DEF SerialInv, InputTypeOK, PressOrRelease, CloseWindow
<1>4. UNCHANGED <<controller_shift_register, is_running, cur_frame, latched, seen>>
  BY DEF PressOrRelease, CloseWindow, loopVars, history
<1> QED
  BY <1>2, <1>3, <1>4 DEF SerialInv, InputTypeOK, SerialReads, RegisterHoldsRest

\* A poll empties the queue and starts the register and the record anew.
LEMMA SerialPoll ==
    ASSUME SerialInv, sdl_poll_events
    PROVE  SerialInv'
<1>1. /\ events' = <<>> /\ seen' = <<>> /\ latched' = held
      /\ controller_shift_register' = ButtonByte(held)
      /\ UNCHANGED <<held, is_running, cur_frame>>
  BY DEF sdl_poll_events, loopVars
<1>2. InputTypeOK'
  <2>1. <<>> \in Seq({"key", "quit"}) /\ <<>> \in Seq(BOOLEAN) /\ Len(<<>>) = 0
    OBVIOUS
  <2> QED
    BY <1>1, <2>1, ButtonByteType, InputAssumption DEF SerialInv, InputTypeOK
<1>3. SerialReads'
  BY <1>1 DEF SerialReads
<1>4. RegisterHoldsRest'
  BY <1>1 DEF RegisterHoldsRest, ButtonByte
<1> QED
  BY <1>2, <1>3, <1>4 DEF SerialInv

\* A read records the head of the register and shifts it.
LEMMA SerialRead ==
    ASSUME SerialInv, PortRead
    PROVE  SerialInv'
<1> DEFINE n == Len(seen)
           R == controller_shift_register
<1>1. /\ R' = [i \in 1 .. 8 |-> i < 8 /\ R[i + 1]]
      /\ seen' = IF n < MaxReads THEN Append(seen, R[1]) ELSE seen
      /\ UNCHANGED <<events, held, is_running, cur_frame, latched>>
  BY DEF PortRead, hostVars, loopVars
<1>2. n \in Nat /\ seen \in Seq(BOOLEAN) /\ MaxReads \in Nat /\ R \in [1 .. 8 -> BOOLEAN]
  BY InputAssumption DEF SerialInv, InputTypeOK
<1>3. InputTypeOK'
  <2>1. R' \in [1 .. 8 -> BOOLEAN]
    BY <1>1, <1>2
  <2>2. seen' \in Seq(BOOLEAN)
    <3> DEFINE b == R[1]
    <3>1. seen' = Append(seen, b) \/ seen' = seen
      BY <1>1
    <3>2. b \in BOOLEAN
      BY <1>2
    <3>3. seen \in Seq(BOOLEAN)
      BY <1>2
    <3> HIDE DEF b
    <3>4. Append(seen, b) \in Seq(BOOLEAN)
      BY <3>2, <3>3
    <3> QED
      BY <3>1, <3>3, <3>4
  <2> QED
    BY <1>1, <2>1, <2>2 DEF SerialInv, InputTypeOK
<1>4. CASE n < MaxReads
  <2>1. \A i \in 1 .. 8 : R[i] = (i + n <= 8 /\ ButtonOrder[i + n] \in latched)
    BY <1>4 DEF SerialInv, RegisterHoldsRest
  <2>2. /\ Len(seen') = n + 1 /\ seen'[n + 1] = R[1]
        /\ \A i \in 1 .. n : seen'[i] = seen[i]
    <3> DEFINE b == R[1]
    <3>1. seen' = Append(seen, b)
      BY <1>1, <1>4
    <3>2. b \in BOOLEAN
      BY <1>2
    <3> HIDE DEF b
    <3>3. Len(seen') = n + 1
      BY <1>2, <3>1, <3>2
    <3>4. seen'[n + 1] = b
      BY <1>2, <3>1, <3>2
    <3>5. \A i \in 1 .. n : seen'[i] = seen[i]
      BY <1>2, <3>1, <3>2
    <3> QED
      BY <3>3, <3>4, <3>5 DEF b
  <2>3. SerialReads'
    <3> SUFFICES ASSUME NEW i \in 1 .. n + 1
                 PROVE  seen'[i] = (i <= 8 /\ ButtonOrder[i] \in latched)
      BY <1>1, <2>2 DEF SerialReads
    <3>1. CASE i = n + 1
      <4>1. 1 + n = i
        BY <1>2, <3>1
      <4> QED
        BY <2>1, <2>2, <3>1, <4>1
    <3>2. CASE i # n + 1
      BY <1>2, <2>2, <3>2 DEF SerialInv, SerialReads
    <3> QED
      BY <3>1, <3>2
  <2>4. RegisterHoldsRest'
    <3> SUFFICES ASSUME NEW i \in 1 .. 8
                 PROVE  R'[i] = (i + (n + 1) <= 8 /\ ButtonOrder[i + (n + 1)] \in latched)
      BY <1>1, <2>2 DEF RegisterHoldsRest
    <3>1. R'[i] = (i < 8 /\ R[i + 1])
      BY <1>1
    <3>2. CASE i < 8
      <4>1. i + 1 \in 1 .. 8 /\ (i + 1) + n = i + (n + 1)
        BY <1>2, <3>2
      <4> QED
        BY <2>1, <3>1, <3>2, <4>1
    <3>3. CASE ~(i < 8)
      <4>1. ~(i + (n + 1) <= 8)
        BY <1>2, <3>3
      <4> QED
        BY <3>1, <3>3, <4>1
    <3> QED
      BY <3>2, <3>3
  <2> QED
    BY <1>3, <2>3, <2>4 DEF SerialInv
<1>5. CASE ~(n < MaxReads)
  <2>1. seen' = seen /\ latched' = latched
    BY <1>1, <1>5
  <2> QED
    BY <1>3, <1>5, <2>1 DEF SerialInv, SerialReads, RegisterHoldsRest
<1> QED
  BY <1>4, <1>5

\* The end of a frame takes events off the queue, no bit off the register.
LEMMA SerialFrame ==
    ASSUME SerialInv, EndFrame
    PROVE  SerialInv'
<1>1. UNCHANGED <<held, controller_shift_register, latched, seen>>
  BY DEF EndFrame, history
<1>2. events \in Seq({"key", "quit"}) /\ Len(events) <= MaxEvents /\ MaxEvents \in Nat
  BY InputAssumption DEF SerialInv, InputTypeOK
<1>3. events' \in Seq({"key", "quit"}) /\ Len(events') <= MaxEvents
  <2>1. CASE sdl_window_quit
    <3>1. PICK q \in 1 .. Len(events) : events' = SubSeq(events, q + 1, Len(events))
      BY <2>1 DEF EndFrame
    <3> QED
      BY <1>2, <3>1
  <2>2. CASE ~sdl_window_quit
    <3>1. events' = <<>> /\ Len(<<>>) = 0 /\ <<>> \in Seq({"key", "quit"})
      BY <2>2 DEF EndFrame
    <3> QED
      BY <1>2, <3>1
  <2> QED
    BY <2>1, <2>2
<1>4. is_running' \in BOOLEAN
  BY DEF EndFrame, sdl_window_quit
<1>5. cur_frame' \in 0 .. FrameRate - 1
  BY InputAssumption DEF EndFrame, NextFrame, SerialInv, InputTypeOK
<1> QED
  BY <1>1, <1>3, <1>4, <1>5 DEF SerialInv, InputTypeOK, SerialReads, RegisterHoldsRest

\* The invariant is inductive.
LEMMA SerialInduction == SerialInv /\ [InputNext]_inputVars => SerialInv'
<1> SUFFICES ASSUME SerialInv, [InputNext]_inputVars PROVE SerialInv'
  OBVIOUS
<1>1. CASE PressOrRelease \/ CloseWindow
  BY <1>1, SerialUser
<1>2. CASE StrobeWrite \/ DmaWrite
  BY <1>2, SerialPoll DEF StrobeWrite, DmaWrite
<1>3. CASE PortRead
  BY <1>3, SerialRead
<1>4. CASE EndFrame
  BY <1>4, SerialFrame
<1>5. CASE UNCHANGED inputVars
  BY <1>5 DEF inputVars, hostVars, loopVars, history, SerialInv, InputTypeOK, SerialReads,
              RegisterHoldsRest
<1> QED
  BY <1>1, <1>2, <1>3, <1>4, <1>5 DEF InputNext, Rom

\* Only a poll of the ROM takes a close request off the queue unheard.
LEMMA QuitStep ==
    ASSUME [InputNext]_inputVars, QuitPending, ~QuitPending', events \in Seq({"key", "quit"})
    PROVE  ~is_running' \/ Polls
<1>1. PICK k \in 1 .. Len(events) : events[k] = "quit"
  BY DEF QuitPending
<1>2. events' # events
  BY DEF QuitPending
<1>3. CASE PressOrRelease \/ CloseWindow
  <2>1. PICK e \in {"key", "quit"} : events' = Append(events, e)
    BY <1>3 DEF PressOrRelease, CloseWindow
  <2>2. k \in 1 .. Len(events') /\ events'[k] = "quit"
    BY <1>1, <2>1
  <2> QED
    BY <2>2 DEF QuitPending
<1>4. CASE StrobeWrite \/ DmaWrite
  BY <1>4 DEF Polls
<1>5. CASE EndFrame
  BY <1>1, <1>5 DEF EndFrame, sdl_window_quit
<1>6. CASE PortRead \/ UNCHANGED inputVars
  BY <1>2, <1>6 DEF PortRead, inputVars, hostVars
<1> QED
  BY <1>3, <1>4, <1>5, <1>6 DEF InputNext, Rom

-----------------------------------------------------------------------------
(* The I/O page.                                                           *)

\* A step of the page is one of sprite memory and one of host input, where
\* either may be a stutter.
LEMMA PageStep ==
    [IoNext]_ioVars => [OamNext]_oamVars /\ [InputNext]_inputVars
<1> SUFFICES ASSUME [IoNext]_ioVars
             PROVE  [OamNext]_oamVars /\ [InputNext]_inputVars
  OBVIOUS
<1>1. CASE User
  BY <1>1 DEF User, InputNext
<1>2. CASE OamAccess
  BY <1>2 DEF OamAccess, OamNext
<1>3. CASE ControllerAccess
  BY <1>3 DEF ControllerAccess, InputNext, Rom
<1>4. CASE WriteDma
  BY <1>4 DEF WriteDma, OamNext, InputNext, Rom
<1>5. CASE FrameEnds
  BY <1>5 DEF FrameEnds, InputNext
<1>6. CASE UNCHANGED ioVars
  BY <1>6 DEF ioVars
<1> QED
  BY <1>1, <1>2, <1>3, <1>4, <1>5, <1>6 DEF IoNext

\* The page behaves as sprite memory does alone.
THEOREM PageIsOam == IoSpec => OamSpec
<1>1. IoInit => OamInit
  BY DEF IoInit
<1> QED
  BY <1>1, PageStep, PTL DEF IoSpec, OamSpec

\* Type correctness of sprite memory beside host input.
THEOREM PageOamTypes == IoSpec => []OamTypeOK
BY PageIsOam, OamTypeCorrect, PTL

\* In the page too the two copies of a DMA are one rotation, whatever its
\* fall-through does to the controller.
THEOREM PageDma == IoSpec => DmaWraps
BY PageIsOam, DmaIsRotation, PTL

\* The strengthened invariant of host input.
THEOREM PageSerialInv == IoSpec => []SerialInv
<1>1. IoInit => SerialInv
  BY SerialInit DEF IoInit
<1> QED
  BY <1>1, PageStep, SerialInduction, PTL DEF IoSpec

\* Type correctness of host input.
THEOREM InputTypes == IoSpec => []InputTypeOK
<1>1. SerialInv => InputTypeOK
  BY DEF SerialInv
<1> QED
  BY <1>1, PageSerialInv, PTL

\* However many bits the ROM reads, and whatever the user does meanwhile, they
\* are the keyboard at the last latch, A first.
THEOREM SerialOrder == IoSpec => []SerialReads
<1>1. SerialInv => SerialReads
  BY DEF SerialInv
<1> QED
  BY <1>1, PageSerialInv, PTL

\* The front end loses no close request; a poll of the ROM, a DMA included, may.
THEOREM QuitOnlyPolled == IoSpec => OnlyPollsEatQuit
<1>1. InputTypeOK /\ [IoNext]_ioVars
        => [QuitPending /\ ~QuitPending' => ~is_running' \/ Polls]_inputVars
  BY PageStep, QuitStep DEF InputTypeOK
<1> QED
  BY <1>1, InputTypes, PTL DEF IoSpec, OnlyPollsEatQuit

-----------------------------------------------------------------------------
(* The registers of the PPU.                                               *)

\* Ranges with large bounds, as inequalities.
LEMMA InRange ==
    ASSUME NEW k \in Nat, NEW n
    PROVE  n \in 0 .. k <=> n \in Nat /\ n <= k
OBVIOUS

\* The 16-bit registers.
LEMMA WordRange == \A n : n \in Word <=> n \in Nat /\ n <= 65535
<1> DEFINE k == 256 * 256 - 1
<1>1. Word = 0 .. k
  BY DEF Word
<1>2. k \in Nat
  OBVIOUS
<1> HIDE DEF k
<1>3. \A n : n \in Word <=> n \in Nat /\ n <= k
  BY <1>1, <1>2, InRange
<1> QED
  BY <1>3 DEF k

\* The bytes.
LEMMA ByteRange == \A n : n \in Byte <=> n \in Nat /\ n <= 255
<1> DEFINE k == 255
<1>1. Byte = 0 .. k
  BY DEF Byte
<1>2. k \in Nat
  OBVIOUS
<1> HIDE DEF k
<1>3. \A n : n \in Byte <=> n \in Nat /\ n <= k
  BY <1>1, <1>2, InRange
<1> QED
  BY <1>3 DEF k

\* The 8 KB arrays.
LEMMA CellRange ==
    /\ ChrCells = VramCells
    /\ \A n : n \in ChrCells <=> n \in Nat /\ n <= 8191
<1> DEFINE k == 8191
<1>1. ChrCells = 0 .. k /\ VramCells = 0 .. k
  BY DEF ChrCells, VramCells
<1>2. k \in Nat
  OBVIOUS
<1> HIDE DEF k
<1>3. \A n : n \in ChrCells <=> n \in Nat /\ n <= k
  BY <1>1, <1>2, InRange
<1> QED
  BY <1>1, <1>3 DEF k

\* A write changes one cell and no other.
LEMMA PeekPoke ==
    ASSUME NEW memory, NEW i, NEW v, NEW j
    PROVE  Peek(Poke(memory, i, v), j) = IF j = i THEN v ELSE Peek(memory, j)
BY DEF Peek, Poke

\* A write of a byte keeps a memory in its cells.
LEMMA PokeType ==
    ASSUME NEW memory, NEW cells, BytesIn(memory, cells), NEW i \in cells, NEW v \in Byte
    PROVE  BytesIn(Poke(memory, i, v), cells)
BY DEF Poke, BytesIn

\* A field taken out of a register.
LEMMA Quotient ==
    ASSUME NEW n \in Nat, NEW d \in Nat \ {0}
    PROVE  /\ n = d * (n \div d) + (n % d)
           /\ n % d \in Nat
           /\ n % d < d
           /\ n \div d \in Nat
<1>1. n % d \in 0 .. d - 1 /\ n \div d \in Nat /\ n = d * (n \div d) + (n % d)
  BY DivMod, Zenon
<1>2. \A r \in 0 .. d - 1 : r \in Nat /\ r < d
  OBVIOUS
<1>3. n % d \in Nat /\ n % d < d
  BY <1>1, <1>2, Zenon
<1> QED
  BY <1>1, <1>3, Zenon

\* Each setter of a field of VRAM_ADDR_REGISTER keeps its 16 bits.
LEMMA FieldTypes ==
    ASSUME NEW reg \in Word
    PROVE  \A v \in Nat :
              /\ v < 32 => SetCoarseX(reg, v) \in Word
              /\ v < 32 => SetCoarseY(reg, v) \in Word
              /\ v < 4 => SetNametable(reg, v) \in Word
              /\ v < 8 => SetFineY(reg, v) \in Word
              /\ v < 256 => SetLow(reg, v) \in Word
              /\ v < 256 => SetHigh(reg, v) \in Word
<1>0. reg \in Nat /\ reg <= 65535
  BY WordRange
<1>1. ASSUME NEW v \in Nat, v < 32
      PROVE  SetCoarseX(reg, v) \in Word
  <2> DEFINE q == reg \div 1
             l == reg % 1
             h == q \div 32
             f == q % 32
  <2>1. reg = 1 * q + l /\ l \in Nat /\ l < 1 /\ q \in Nat
    BY <1>0, Quotient
  <2>2. q = 32 * h + f /\ f \in Nat /\ f < 32 /\ h \in Nat
    <3> HIDE DEF q
    <3> QED
      BY <2>1, Quotient
  <2>3. SetCoarseX(reg, v) = reg + (v - f) * 1
    BY DEF SetCoarseX, SetField, Field
  <2> HIDE DEF q, l, h, f
  <2>4. reg + (v - f) * 1 \in Nat /\ reg + (v - f) * 1 <= 65535
    BY <1>0, <1>1, <2>1, <2>2, SMT
  <2> QED
    BY <2>3, <2>4, WordRange
<1>2. ASSUME NEW v \in Nat, v < 32
      PROVE  SetCoarseY(reg, v) \in Word
  <2> DEFINE q == reg \div 32
             l == reg % 32
             h == q \div 32
             f == q % 32
  <2>1. reg = 32 * q + l /\ l \in Nat /\ l < 32 /\ q \in Nat
    BY <1>0, Quotient
  <2>2. q = 32 * h + f /\ f \in Nat /\ f < 32 /\ h \in Nat
    <3> HIDE DEF q
    <3> QED
      BY <2>1, Quotient
  <2>3. SetCoarseY(reg, v) = reg + (v - f) * 32
    BY DEF SetCoarseY, SetField, Field
  <2> HIDE DEF q, l, h, f
  <2>4. reg + (v - f) * 32 \in Nat /\ reg + (v - f) * 32 <= 65535
    BY <1>0, <1>2, <2>1, <2>2, SMT
  <2> QED
    BY <2>3, <2>4, WordRange
<1>3. ASSUME NEW v \in Nat, v < 4
      PROVE  SetNametable(reg, v) \in Word
  <2> DEFINE q == reg \div 1024
             l == reg % 1024
             h == q \div 4
             f == q % 4
  <2>1. reg = 1024 * q + l /\ l \in Nat /\ l < 1024 /\ q \in Nat
    BY <1>0, Quotient
  <2>2. q = 4 * h + f /\ f \in Nat /\ f < 4 /\ h \in Nat
    <3> HIDE DEF q
    <3> QED
      BY <2>1, Quotient
  <2>3. SetNametable(reg, v) = reg + (v - f) * 1024
    BY DEF SetNametable, SetField, Field
  <2> HIDE DEF q, l, h, f
  <2>4. reg + (v - f) * 1024 \in Nat /\ reg + (v - f) * 1024 <= 65535
    BY <1>0, <1>3, <2>1, <2>2, SMT
  <2> QED
    BY <2>3, <2>4, WordRange
<1>4. ASSUME NEW v \in Nat, v < 8
      PROVE  SetFineY(reg, v) \in Word
  <2> DEFINE q == reg \div 4096
             l == reg % 4096
             h == q \div 8
             f == q % 8
  <2>1. reg = 4096 * q + l /\ l \in Nat /\ l < 4096 /\ q \in Nat
    BY <1>0, Quotient
  <2>2. q = 8 * h + f /\ f \in Nat /\ f < 8 /\ h \in Nat
    <3> HIDE DEF q
    <3> QED
      BY <2>1, Quotient
  <2>3. SetFineY(reg, v) = reg + (v - f) * 4096
    BY DEF SetFineY, SetField, Field
  <2> HIDE DEF q, l, h, f
  <2>4. reg + (v - f) * 4096 \in Nat /\ reg + (v - f) * 4096 <= 65535
    BY <1>0, <1>4, <2>1, <2>2, SMT
  <2> QED
    BY <2>3, <2>4, WordRange
<1>5. ASSUME NEW v \in Nat, v < 256
      PROVE  SetLow(reg, v) \in Word
  <2> DEFINE q == reg \div 1
             l == reg % 1
             h == q \div 256
             f == q % 256
  <2>1. reg = 1 * q + l /\ l \in Nat /\ l < 1 /\ q \in Nat
    BY <1>0, Quotient
  <2>2. q = 256 * h + f /\ f \in Nat /\ f < 256 /\ h \in Nat
    <3> HIDE DEF q
    <3> QED
      BY <2>1, Quotient
  <2>3. SetLow(reg, v) = reg + (v - f) * 1
    BY DEF SetLow, SetField, Field
  <2> HIDE DEF q, l, h, f
  <2>4. reg + (v - f) * 1 \in Nat /\ reg + (v - f) * 1 <= 65535
    BY <1>0, <1>5, <2>1, <2>2, SMT
  <2> QED
    BY <2>3, <2>4, WordRange
<1>6. ASSUME NEW v \in Nat, v < 256
      PROVE  SetHigh(reg, v) \in Word
  <2> DEFINE q == reg \div 256
             l == reg % 256
             h == q \div 256
             f == q % 256
  <2>1. reg = 256 * q + l /\ l \in Nat /\ l < 256 /\ q \in Nat
    BY <1>0, Quotient
  <2>2. q = 256 * h + f /\ f \in Nat /\ f < 256 /\ h \in Nat
    <3> HIDE DEF q
    <3> QED
      BY <2>1, Quotient
  <2>3. SetHigh(reg, v) = reg + (v - f) * 256
    BY DEF SetHigh, SetField, Field
  <2> HIDE DEF q, l, h, f
  <2>4. reg + (v - f) * 256 \in Nat /\ reg + (v - f) * 256 <= 65535
    BY <1>0, <1>6, <2>1, <2>2, SMT
  <2> QED
    BY <2>3, <2>4, WordRange
<1> QED
  BY <1>1, <1>2, <1>3, <1>4, <1>5, <1>6

\* The index of every nametable address is a cell of the 8 KB array, address
\* $3000 and the field behind the map included.
LEMMA VramIndexType ==
    ASSUME NEW address \in Nat, address < 16384, IsNametable(address)
    PROVE  VramIndex(address) \in VramCells
<1> DEFINE folded == IF address > 12288 THEN address - 4096 ELSE address
           table == (folded - 8192) \div 1024
           base == IF table = 4 THEN PastTheMap ELSE NametableMap[table + 1]
           offset == (folded - 8192) % 1023
<1>1. folded \in Nat /\ 8192 <= folded /\ folded <= 12288
  BY SMT DEF IsNametable, IsPattern, IsPalette
<1> HIDE DEF folded
<1>2. table \in 0 .. 4 /\ offset \in Nat /\ offset < 1023
  <2> DEFINE n == folded - 8192
  <2>1. n \in Nat /\ n <= 4096
    BY <1>1
  <2> HIDE DEF n
  <2>2. n \div 1024 \in 0 .. 4
    BY <2>1, SMT
  <2>3. n % 1023 \in Nat /\ n % 1023 < 1023
    BY <2>1, SMT
  <2>4. n = folded - 8192
    BY DEF n
  <2> QED
    BY <2>2, <2>3, <2>4
<1>3. base \in Nat /\ base <= 3072
  <2> HIDE DEF table
  <2>1. Mirroring \in {"HORIZONTAL", "VERTICAL", "FOUR_SCREEN"}
    BY DEF Mirroring
  <2>2. ASSUME NEW k \in 1 .. 4
        PROVE  NametableMap[k] \in {0, 1024, 2048, 3072}
    BY <2>1, <2>2, SMT DEF NametableMap
  <2>3. CASE table = 4
    BY <2>3 DEF PastTheMap
  <2>4. CASE table # 4
    <3>1. table + 1 \in 1 .. 4
      BY <1>2, <2>4
    <3> QED
      BY <2>2, <2>4, <3>1
  <2> QED
    BY <2>3, <2>4
<1>4. VramIndex(address) = base + offset
  BY DEF VramIndex, folded
<1> HIDE DEF base, offset
<1>5. base + offset \in Nat /\ base + offset <= 8191
  BY <1>2, <1>3
<1> QED
  BY <1>4, <1>5, CellRange

-----------------------------------------------------------------------------
(* Types.                                                                  *)

\* The parts of a byte that a register write takes.
LEMMA ByteParts ==
    ASSUME NEW value \in Byte
    PROVE  /\ value \in Nat /\ value < 256
           /\ value % 4 \in Nat /\ value % 4 < 4
           /\ value % 8 \in Nat /\ value % 8 < 8
           /\ value \div 8 \in Nat /\ value \div 8 < 32
           /\ value % 64 \in Nat /\ value % 64 < 256
<1>1. value \in Nat /\ value < 256
  BY ByteRange
<1>2. value % 4 \in Nat /\ value % 4 < 4
  BY <1>1, Quotient
<1>3. value % 8 \in Nat /\ value % 8 < 8 /\ value \div 8 \in Nat /\ value \div 8 < 32
  BY <1>1, Quotient
<1>4. value % 64 \in Nat /\ value % 64 < 256
  BY <1>1, Quotient
<1> QED
  BY <1>1, <1>2, <1>3, <1>4

\* The bytes the ROM writes are bytes.
LEMMA RomBytes ==
    /\ CtrlBytes \subseteq Byte /\ ScrollBytes \subseteq Byte /\ HighBytes \subseteq Byte
    /\ LowBytes \subseteq Byte /\ DataBytes \subseteq Byte
    /\ ChrByte \in Byte /\ MaxAccesses \in Nat
BY VramAssumption

\* A write to $2000, $2005 or $2006, or a read of $2002: the registers that change.
LEMMA RegisterRanges ==
    ASSUME PortTypeOK,
           ppu_set_ctrl \/ ppu_read_status \/ ppu_set_scroll \/ ppu_set_vram_addr
    PROVE  /\ increment' \in {1, 32} /\ write_latch' \in 0 .. 1
           /\ temp_addr' \in Word /\ vram_addr' \in Word /\ fine_x' \in 0 .. 7
<1>1. /\ increment \in {1, 32} /\ write_latch \in 0 .. 1
      /\ temp_addr \in Word /\ vram_addr \in Word /\ fine_x \in 0 .. 7
  BY DEF PortTypeOK
<1>2. CASE ppu_set_ctrl
  <2>1. PICK value \in CtrlBytes :
          /\ increment' = IF Field(value, 4, 2) = 1 THEN 32 ELSE 1
          /\ temp_addr' = SetNametable(temp_addr, value % 4)
    BY <1>2 DEF ppu_set_ctrl
  <2>2. temp_addr' \in Word
    BY <1>1, <2>1, RomBytes, ByteParts, FieldTypes
  <2>3. increment' \in {1, 32}
    BY <2>1
  <2> QED
    BY <1>1, <1>2, <2>2, <2>3 DEF ppu_set_ctrl
<1>3. CASE ppu_read_status
  BY <1>1, <1>3 DEF ppu_read_status
<1>4. CASE ppu_set_scroll
  <2>1. temp_addr' \in Word /\ fine_x' \in 0 .. 7 /\ write_latch' \in 0 .. 1
    <3>1. CASE ScrollX
      <4>1. PICK value \in ScrollBytes :
              /\ fine_x' = value % 8
              /\ temp_addr' = SetCoarseX(temp_addr, value \div 8)
        BY <3>1 DEF ScrollX
      <4>2. value \in Byte
        BY RomBytes
      <4>3. temp_addr' \in Word
        BY <1>1, <4>1, <4>2, ByteParts, FieldTypes
      <4>4. fine_x' \in Nat /\ fine_x' < 8
        BY <4>1, <4>2, ByteParts
      <4> QED
        BY <3>1, <4>3, <4>4 DEF ScrollX
    <3>2. CASE ScrollY
      <4>1. PICK value \in ScrollBytes :
              temp_addr' = SetCoarseY(SetFineY(temp_addr, value % 8), value \div 8)
        BY <3>2 DEF ScrollY
      <4>2. value \in Byte
        BY RomBytes
      <4>3. SetFineY(temp_addr, value % 8) \in Word
        BY <1>1, <4>2, ByteParts, FieldTypes
      <4>4. temp_addr' \in Word
        BY <4>1, <4>2, <4>3, ByteParts, FieldTypes
      <4> QED
        BY <1>1, <3>2, <4>4 DEF ScrollY
    <3> QED
      BY <1>4, <3>1, <3>2 DEF ppu_set_scroll
  <2> QED
    BY <1>1, <1>4, <2>1 DEF ppu_set_scroll
<1>5. CASE ppu_set_vram_addr
  <2>1. temp_addr' \in Word /\ vram_addr' \in Word /\ write_latch' \in 0 .. 1
    <3>1. CASE AddrHigh
      <4>1. PICK value \in HighBytes : temp_addr' = SetHigh(temp_addr, value % 64)
        BY <3>1 DEF AddrHigh
      <4>2. temp_addr' \in Word
        BY <1>1, <4>1, RomBytes, ByteParts, FieldTypes
      <4> QED
        BY <1>1, <3>1, <4>2 DEF AddrHigh
    <3>2. CASE AddrLow
      <4>1. PICK value \in LowBytes : temp_addr' = SetLow(temp_addr, value)
        BY <3>2 DEF AddrLow
      <4>2. temp_addr' \in Word
        BY <1>1, <4>1, RomBytes, ByteParts, FieldTypes
      <4> QED
        BY <3>2, <4>2 DEF AddrLow
    <3> QED
      BY <1>5, <3>1, <3>2 DEF ppu_set_vram_addr
  <2> QED
    BY <1>1, <1>5, <2>1 DEF ppu_set_vram_addr
<1> QED
  BY <1>2, <1>3, <1>4, <1>5

\* They touch no memory.
LEMMA RegisterTypes ==
    ASSUME PortTypeOK,
           ppu_set_ctrl \/ ppu_read_status \/ ppu_set_scroll \/ ppu_set_vram_addr
    PROVE  PortTypeOK'
<1>1. UNCHANGED <<data_read_buffer, chr_ram, vram, palette, accesses>>
  BY DEF ppu_set_ctrl, ppu_read_status, ppu_set_scroll, ppu_set_vram_addr, memVars
<1> QED
  BY <1>1, RegisterRanges DEF PortTypeOK

\* What an access to $2007 does to the address and to the counter of accesses.
LEMMA AccessTypes ==
    ASSUME PortTypeOK, ppu_write_vram_data \/ ppu_read_vram_data
    PROVE  /\ PortAddress \in Nat /\ PortAddress < 16384
           /\ vram_addr' \in Word /\ accesses' \in 0 .. MaxAccesses
<1>1. vram_addr \in Word /\ increment \in {1, 32} /\ accesses \in 0 .. MaxAccesses
  BY DEF PortTypeOK
<1>2. vram_addr \in Nat
  BY <1>1, WordRange
<1>3. PortAddress \in Nat /\ PortAddress < 16384
  BY <1>2, Quotient DEF PortAddress
<1>4. vram_addr' \in Word
  <2>1. vram_addr' = vram_addr \/ vram_addr' = (vram_addr + increment) % 65536
    BY DEF ppu_write_vram_data, ppu_read_vram_data, NextAddress
  <2> DEFINE n == vram_addr + increment
  <2>2. n \in Nat
    BY <1>1, <1>2
  <2> HIDE DEF n
  <2>3. n % 65536 \in Nat /\ n % 65536 < 65536
    BY <2>2, Quotient
  <2>4. n % 65536 \in Word
    BY <2>3, WordRange
  <2> QED
    BY <1>1, <2>1, <2>4 DEF n
<1>5. accesses' \in 0 .. MaxAccesses
  BY <1>1, RomBytes DEF ppu_write_vram_data, ppu_read_vram_data
<1> QED
  BY <1>3, <1>4, <1>5

\* The palette index and its twin.
LEMMA PaletteCellTypes ==
    ASSUME NEW address \in Nat
    PROVE  LET i == PaletteIndex(address)
           IN  i \in PaletteCells /\ PaletteTwin(i) \in PaletteCells
<1> DEFINE i == PaletteIndex(address)
<1>1. i \in Nat /\ i < 32
  BY Quotient DEF PaletteIndex
<1> HIDE DEF i
<1>2. i \in PaletteCells /\ PaletteTwin(i) \in PaletteCells
  BY <1>1 DEF PaletteCells, PaletteTwin
<1> QED
  BY <1>2 DEF i

\* A write to $2007.
LEMMA WriteTypes ==
    ASSUME PortTypeOK, ppu_write_vram_data
    PROVE  PortTypeOK'
<1> DEFINE address == PortAddress
           i == PaletteIndex(address)
<1>1. /\ address \in Nat /\ address < 16384
      /\ vram_addr' \in Word /\ accesses' \in 0 .. MaxAccesses
  BY AccessTypes
<1>2. i \in PaletteCells /\ PaletteTwin(i) \in PaletteCells
  BY <1>1, PaletteCellTypes
<1>3. PICK value \in DataBytes :
         \/ /\ IsPattern(address)
            /\ chr_ram' = Poke(chr_ram, address, value)
            /\ UNCHANGED <<vram, palette>>
         \/ /\ IsNametable(address)
            /\ vram' = Poke(vram, VramIndex(address), value)
            /\ UNCHANGED <<chr_ram, palette>>
         \/ /\ IsPalette(address)
            /\ palette' = IF i % 4 = 0
                          THEN Poke(Poke(palette, i, value), PaletteTwin(i), value)
                          ELSE Poke(palette, i, value)
            /\ UNCHANGED <<chr_ram, vram>>
  BY DEF ppu_write_vram_data
<1>4. value \in Byte
  BY RomBytes
<1>5. /\ BytesIn(chr_ram, ChrCells) /\ BytesIn(vram, VramCells)
      /\ BytesIn(palette, PaletteCells)
  BY DEF PortTypeOK
<1> HIDE DEF address, i
<1>6. /\ BytesIn(chr_ram', ChrCells) /\ BytesIn(vram', VramCells)
      /\ BytesIn(palette', PaletteCells)
  <2>1. CASE IsPattern(address) /\ chr_ram' = Poke(chr_ram, address, value)
             /\ UNCHANGED <<vram, palette>>
    <3>1. address < 8192
      BY <2>1 DEF IsPattern
    <3>2. address \in ChrCells
      BY <1>1, <3>1, CellRange
    <3>3. BytesIn(Poke(chr_ram, address, value), ChrCells)
      BY <1>4, <1>5, <3>2, PokeType
    <3> QED
      BY <1>5, <2>1, <3>3 DEF BytesIn
  <2>2. CASE IsNametable(address) /\ vram' = Poke(vram, VramIndex(address), value)
             /\ UNCHANGED <<chr_ram, palette>>
    <3>1. VramIndex(address) \in VramCells
      BY <1>1, <2>2, VramIndexType
    <3>2. BytesIn(Poke(vram, VramIndex(address), value), VramCells)
      BY <1>4, <1>5, <3>1, PokeType
    <3> QED
      BY <1>5, <2>2, <3>2 DEF BytesIn
  <2>3. CASE /\ palette' = IF i % 4 = 0
                           THEN Poke(Poke(palette, i, value), PaletteTwin(i), value)
                           ELSE Poke(palette, i, value)
             /\ UNCHANGED <<chr_ram, vram>>
    <3>1. BytesIn(Poke(palette, i, value), PaletteCells)
      BY <1>2, <1>4, <1>5, PokeType
    <3>2. BytesIn(Poke(Poke(palette, i, value), PaletteTwin(i), value), PaletteCells)
      BY <1>2, <1>4, <3>1, PokeType
    <3> QED
      BY <1>5, <2>3, <3>1, <3>2 DEF BytesIn
  <2> QED
    BY <1>3, <2>1, <2>2, <2>3
<1>7. UNCHANGED <<increment, write_latch, temp_addr, fine_x, data_read_buffer>>
  BY DEF ppu_write_vram_data, addrVars
<1> QED
  BY <1>1, <1>6, <1>7 DEF PortTypeOK

\* A read of $2007.
LEMMA ReadTypes ==
    ASSUME PortTypeOK, ppu_read_vram_data
    PROVE  PortTypeOK'
<1>1. vram_addr' \in Word /\ accesses' \in 0 .. MaxAccesses
  BY AccessTypes
<1>2. data_read_buffer' \in Byte
  <2>1. /\ \A j \in DOMAIN chr_ram : chr_ram[j] \in Byte
        /\ \A j \in DOMAIN vram : vram[j] \in Byte
    BY DEF PortTypeOK, BytesIn
  <2>2. 0 \in Byte /\ ChrByte \in Byte
    BY RomBytes, ByteRange
  <2>3. Fetched(PortAddress) \in Byte
    BY <2>1, <2>2 DEF Fetched, Peek
  <2> QED
    BY <2>3 DEF ppu_read_vram_data
<1>3. UNCHANGED <<increment, write_latch, temp_addr, fine_x, chr_ram, vram, palette>>
  BY DEF ppu_read_vram_data, addrVars, memVars
<1> QED
  BY <1>1, <1>2, <1>3 DEF PortTypeOK

\* The registers keep their widths and every index into a memory lies in it,
\* for every header and every program.
THEOREM PortTypes == PortSpec => []PortTypeOK
<1>1. PortInit => PortTypeOK
  <2>1. 0 \in Byte /\ 0 \in Word /\ 0 \in 0 .. MaxAccesses
    BY RomBytes, ByteRange, WordRange
  <2>2. \A cells : BytesIn([i \in {} |-> 0], cells)
    BY DEF BytesIn
  <2> QED
    BY <2>1, <2>2 DEF PortInit, PortTypeOK
<1>2. PortTypeOK /\ [PortNext]_portVars => PortTypeOK'
  <2> SUFFICES ASSUME PortTypeOK, [PortNext]_portVars
               PROVE  PortTypeOK'
    OBVIOUS
  <2>1. CASE UNCHANGED portVars
    BY <2>1 DEF portVars, addrVars, memVars, PortTypeOK
  <2> QED
    BY <2>1, RegisterTypes, WriteTypes, ReadTypes DEF PortNext
<1> QED
  BY <1>1, <1>2, PTL DEF PortSpec

-----------------------------------------------------------------------------
(* The palette.                                                            *)

\* A write to one of two linked entries writes both, and one to any other
\* entry neither.
LEMMA PaletteWrite ==
    ASSUME PortTypeOK, PaletteMirrored, ppu_write_vram_data
    PROVE  PaletteMirrored'
<1> DEFINE n == PaletteIndex(PortAddress)
<1>1. n \in 0 .. 31
  BY AccessTypes, PaletteCellTypes DEF PaletteCells
<1>2. PICK value :
         \/ palette' = palette
         \/ n % 4 = 0 /\ palette' = Poke(Poke(palette, n, value), PaletteTwin(n), value)
         \/ n % 4 # 0 /\ palette' = Poke(palette, n, value)
  BY DEF ppu_write_vram_data
<1> HIDE DEF n
<1> SUFFICES ASSUME NEW i \in {0, 4, 8, 12}
             PROVE  Peek(palette', i) = Peek(palette', i + 16)
  BY DEF PaletteMirrored, Peek
<1>3. Peek(palette, i) = Peek(palette, i + 16) /\ i # i + 16 /\ i % 4 = 0 /\ (i + 16) % 4 = 0
  BY DEF PaletteMirrored
<1>4. CASE n % 4 = 0 /\ palette' = Poke(Poke(palette, n, value), PaletteTwin(n), value)
  <2>1. (n = i \/ PaletteTwin(n) = i) <=> (n = i + 16 \/ PaletteTwin(n) = i + 16)
    BY <1>1, SMT DEF PaletteTwin
  <2>2. \A j : Peek(palette', j) = IF j = PaletteTwin(n) \/ j = n THEN value
                                   ELSE Peek(palette, j)
    BY <1>4, PeekPoke
  <2> QED
    BY <1>3, <2>1, <2>2
<1>5. CASE n % 4 # 0 /\ palette' = Poke(palette, n, value)
  <2>1. n # i /\ n # i + 16
    BY <1>3, <1>5
  <2>2. \A j : Peek(palette', j) = IF j = n THEN value ELSE Peek(palette, j)
    BY <1>5, PeekPoke
  <2> QED
    BY <1>3, <2>1, <2>2
<1> QED
  BY <1>2, <1>3, <1>4, <1>5

\* The two names of a background colour read the same after every sequence of
\* register accesses.
THEOREM PaletteTwins == PortSpec => []PaletteMirrored
<1>1. PortInit => PaletteMirrored
  BY DEF PortInit, PaletteMirrored, Peek
<1>2. PortTypeOK /\ PaletteMirrored /\ [PortNext]_portVars => PaletteMirrored'
  <2> SUFFICES ASSUME PortTypeOK, PaletteMirrored, [PortNext]_portVars
               PROVE  PaletteMirrored'
    OBVIOUS
  <2>1. CASE ppu_write_vram_data
    BY <2>1, PaletteWrite
  <2>2. CASE palette' = palette
    BY <2>2 DEF PaletteMirrored, Peek
  <2> QED
    BY <2>1, <2>2
    DEF PortNext, ppu_set_ctrl, ppu_read_status, ppu_set_scroll, ppu_set_vram_addr,
        ppu_read_vram_data, portVars, memVars
<1> QED
  BY <1>1, <1>2, PortTypes, PTL DEF PortSpec

-----------------------------------------------------------------------------
(* The address the ROM has named.                                          *)

\* Between the halves of an address the temporary register holds the first
\* one, and a named address is where the port is.  The latch tells the halves
\* apart exactly when the author of the ROM does.
NamedRight ==
    /\ half \in 0 .. 65 /\ named \in 0 .. 16384
    /\ half = NoHalf <=> write_latch = 0
    /\ half < 64 => temp_addr \div 256 = half
    /\ named # Unnamed => named = PortAddress

\* The two halves of a register of 16 bits.
LEMMA SetHalves ==
    ASSUME NEW reg \in Word, NEW v \in Nat, v < 256
    PROVE  /\ SetHigh(reg, v) \div 256 = v
           /\ SetLow(reg, v) = 256 * (reg \div 256) + v
<1> DEFINE q == reg \div 256
           l == reg % 256
<1>1. reg \in Nat /\ reg <= 65535
  BY WordRange
<1>2. reg = 256 * q + l /\ l \in Nat /\ l < 256 /\ q \in Nat
  BY <1>1, Quotient
<1> HIDE DEF q, l
<1>3. q < 256
  BY <1>1, <1>2
<1>4. q % 256 = q
  BY <1>2, <1>3, SMT
<1>5. SetHigh(reg, v) = 256 * v + l
  <2>1. SetHigh(reg, v) = reg + (v - (q % 256)) * 256
    BY DEF SetHigh, SetField, Field, q
  <2> QED
    BY <1>2, <1>4, <2>1
<1>6. (256 * v + l) \div 256 = v
  BY <1>2, SMT
<1>7. SetLow(reg, v) = 256 * q + v
  <2>1. SetLow(reg, v) = reg + (v - ((reg \div 1) % 256)) * 1
    BY DEF SetLow, SetField, Field
  <2>2. reg \div 1 = reg
    BY <1>1, SMT
  <2>3. reg % 256 = l
    BY DEF l
  <2> QED
    BY <1>2, <2>1, <2>2, <2>3
<1> QED
  BY <1>5, <1>6, <1>7 DEF q

\* One access further, in the register and in the author's count.
LEMMA NamedStep ==
    ASSUME NEW n \in Nat, NEW k \in {1, 32}
    PROVE  ((n + k) % 65536) % 16384 = ((n % 16384) + k) % 16384
<1> DEFINE q == n \div 16384
           r == n % 16384
           m == n + k
           a == m \div 65536
           b == m % 65536
           c == b \div 16384
           d == b % 16384
<1>1. n = 16384 * q + r /\ q \in Nat /\ r \in 0 .. 16383
  BY DivMod
<1>2. m \in Nat /\ m = 65536 * a + b /\ a \in Nat /\ b \in Nat
  BY Quotient
<1>3. b = 16384 * c + d /\ c \in Nat /\ d \in 0 .. 16384 - 1
  <2> HIDE DEF b
  <2> QED
    BY <1>2, DivMod
<1>4. m = n + k
  OBVIOUS
<1> HIDE DEF q, r, m, a, b, c, d
<1> DEFINE e == 4 * a + c - q
<1>5. r + k = 16384 * e + d /\ e \in Int
  BY <1>1, <1>2, <1>3, <1>4
<1> HIDE DEF e
<1> DEFINE t == r + k
<1>6. t \in Nat /\ d \in Nat /\ d < 16384
  BY <1>1, <1>3
<1>7. t = 16384 * e + d
  BY <1>5
<1> HIDE DEF t
<1>8. e \in Nat
  BY <1>5, <1>6, <1>7
<1>9. t % 16384 = d
  BY <1>3, <1>6, <1>7, <1>8, DivModUnique
<1> QED
  BY <1>9 DEF b, d, m, r, t

\* A write to $2000, $2002's read or a write to $2005 names nothing.
LEMMA NamedRegisters ==
    ASSUME PortTypeOK, NamedRight, ppu_set_ctrl \/ ppu_read_status \/ ppu_set_scroll
    PROVE  NamedRight'
<1>1. UNCHANGED <<named, vram_addr>>
  BY DEF ppu_set_ctrl, ppu_read_status, ppu_set_scroll
<1>2. half' \in {NoHalf, Spoilt} /\ (half' = NoHalf <=> write_latch' = 0)
  <2>1. CASE ppu_set_ctrl
    BY <2>1 DEF ppu_set_ctrl, NamedRight, NoHalf, Spoilt
  <2>2. CASE ppu_read_status
    BY <2>2 DEF ppu_read_status
  <2>3. CASE ppu_set_scroll
    BY <2>3 DEF ppu_set_scroll, ScrollX, ScrollY, NamedRight, NoHalf, Spoilt
  <2> QED
    BY <2>1, <2>2, <2>3
<1> QED
  BY <1>1, <1>2 DEF NamedRight, NoHalf, Spoilt, PortAddress

\* A write to $2006.
LEMMA NamedHalves ==
    ASSUME PortTypeOK, NamedRight, ppu_set_vram_addr
    PROVE  NamedRight'
<1>1. temp_addr \in Word /\ half \in Nat /\ named \in 0 .. 16384
  BY DEF PortTypeOK, NamedRight
<1>2. CASE AddrHigh
  <2>1. PICK value \in HighBytes :
          temp_addr' = SetHigh(temp_addr, value % 64) /\ NameHalf(value)
    BY <1>2 DEF AddrHigh
  <2>2. value \in Nat
    BY RomBytes, ByteRange
  <2>3. value % 64 \in Nat /\ value % 64 < 64
    BY <2>2, Quotient
  <2>4. half = NoHalf
    BY <1>2 DEF AddrHigh, NamedRight
  <2>5. half' = value % 64 /\ named' = named
    BY <2>1, <2>4 DEF NameHalf
  <2> DEFINE v == value % 64
  <2> HIDE DEF v
  <2>6. SetHigh(temp_addr, v) \div 256 = v
    BY <1>1, <2>3, SetHalves DEF v
  <2>7. temp_addr' \div 256 = half'
    BY <2>1, <2>5, <2>6 DEF v
  <2>8. half' \in 0 .. 65 /\ half' # NoHalf /\ write_latch' = 1 /\ UNCHANGED vram_addr
    BY <1>2, <2>3, <2>5 DEF AddrHigh, NoHalf
  <2> QED
    BY <2>5, <2>7, <2>8 DEF NamedRight, PortAddress
<1>3. CASE AddrLow
  <2>1. PICK value \in LowBytes :
          temp_addr' = SetLow(temp_addr, value) /\ NameHalf(value)
    BY <1>3 DEF AddrLow
  <2>2. value \in Nat /\ value < 256
    BY RomBytes, ByteRange
  <2>3. half # NoHalf /\ write_latch' = 0 /\ vram_addr' = temp_addr'
    BY <1>3 DEF AddrLow, NamedRight
  <2>4. half' = NoHalf
    BY <2>1, <2>3 DEF NameHalf
  <2>5. CASE half = Spoilt
    <3>1. named' = Unnamed
      BY <2>1, <2>3, <2>5 DEF NameHalf
    <3> QED
      BY <2>3, <2>4, <3>1 DEF NamedRight, NoHalf, Unnamed
  <2>6. CASE half # Spoilt
    <3>1. half < 64
      BY <2>3, <2>6 DEF NamedRight, NoHalf, Spoilt
    <3>2. named' = 256 * half + value
      BY <2>1, <2>3, <2>6 DEF NameHalf
    <3>3. temp_addr \div 256 = half
      BY <3>1 DEF NamedRight
    <3>4. temp_addr' = 256 * half + value
      BY <1>1, <2>1, <2>2, <3>3, SetHalves
    <3> DEFINE n == 256 * half + value
    <3>5. n \in Nat /\ n < 16384
      BY <1>1, <2>2, <3>1
    <3>6. vram_addr' = n /\ named' = n
      BY <2>3, <3>2, <3>4
    <3> HIDE DEF n
    <3>7. n % 16384 = n /\ n \in 0 .. 16384
      BY <3>5, SMT
    <3>8. named' \in 0 .. 16384 /\ named' = PortAddress'
      BY <3>6, <3>7 DEF PortAddress
    <3> QED
      BY <2>3, <2>4, <3>8 DEF NamedRight, NoHalf
  <2> QED
    BY <2>5, <2>6
<1> QED
  BY <1>2, <1>3 DEF ppu_set_vram_addr

\* An access to $2007.
LEMMA NamedAccess ==
    ASSUME PortTypeOK, NamedRight, ppu_write_vram_data \/ ppu_read_vram_data
    PROVE  NamedRight'
<1>1. UNCHANGED <<half, write_latch, temp_addr>>
  BY DEF ppu_write_vram_data, ppu_read_vram_data, NameNext, addrVars
<1>2. vram_addr \in Nat /\ increment \in {1, 32}
  BY WordRange DEF PortTypeOK
<1>3. CASE named' = Unnamed
  BY <1>1, <1>3 DEF NamedRight, Unnamed
<1>4. CASE named' # Unnamed
  <2>1. named' = (named + increment) % 16384 /\ NextAddress /\ named = PortAddress
    <3>1. NameNext
      BY <1>4 DEF ppu_write_vram_data, ppu_read_vram_data
    <3>2. named # Unnamed /\ named' = (named + increment) % 16384
      BY <1>4, <3>1 DEF NameNext
    <3>3. named = PortAddress
      BY <3>2 DEF NamedRight
    <3>4. NextAddress
      <4>1. CASE ppu_write_vram_data
        BY <4>1 DEF ppu_write_vram_data
      <4>2. CASE ppu_read_vram_data
        BY <1>4, <3>3, <4>2 DEF ppu_read_vram_data
      <4> QED
        BY <4>1, <4>2
    <3> QED
      BY <3>2, <3>3, <3>4
  <2>2. PortAddress' = named'
    BY <1>2, <2>1, NamedStep DEF NextAddress, PortAddress
  <2>3. named' \in 0 .. 16384
    <3>1. named + increment \in Nat
      BY <1>2 DEF NamedRight
    <3> DEFINE n == named + increment
               z == n % 16384
    <3>2. named' = z
      BY <2>1
    <3> HIDE DEF n
    <3>3. z \in Nat /\ z < 16384
      BY <3>1, Quotient DEF n
    <3> HIDE DEF z
    <3>4. named' \in Nat /\ named' <= 16384
      BY <3>2, <3>3
    <3> QED
      BY <3>4
  <2> QED
    BY <1>1, <2>2, <2>3 DEF NamedRight
<1> QED
  BY <1>3, <1>4

\* An address named by two writes to $2006 in a row is where the port is,
\* whatever the ROM did before them with the latch and the register that
\* $2000, $2002 and $2005 also move.
THEOREM NamedAddress == PortSpec => []NamedRight
<1>1. PortInit => NamedRight
  BY DEF PortInit, NamedRight, NoHalf, Unnamed, PortAddress
<1>2. PortTypeOK /\ NamedRight /\ [PortNext]_portVars => NamedRight'
  <2> SUFFICES ASSUME PortTypeOK, NamedRight, [PortNext]_portVars
               PROVE  NamedRight'
    OBVIOUS
  <2>1. CASE UNCHANGED portVars
    BY <2>1 DEF portVars, addrVars, authorVars, NamedRight, PortAddress
  <2> QED
    BY <2>1, NamedRegisters, NamedHalves, NamedAccess DEF PortNext
<1> QED
  BY <1>1, <1>2, PortTypes, PTL DEF PortSpec

-----------------------------------------------------------------------------
(* The nametables.                                                         *)

\* The nametable an address is in, and where in it.
TableOf(address) == ((address - 8192) % 4096) \div 1024
OffsetOf(address) == ((address - 8192) % 4096) % 1024

\* The addresses that calculate_vram_index(), which reduces by 1023, does not
\* send back to the start of their nametable, or past the map.
Straight(address) == address # 12288 /\ TableOf(address) + OffsetOf(address) < 1023

\* The ROM names no other address of a nametable when it writes.
StraightWrites ==
    [][ppu_write_vram_data /\ IsNametable(named) => Straight(named)]_portVars

\* The cell of the console that a table and an offset name.
CellAt(t, o) == 1024 * t + o

\* With a table of its own for each nametable the console's cell is the offset
\* in the table, and the code's index lies t cells behind it.
LEMMA StraightIndex ==
    ASSUME Mirroring = "FOUR_SCREEN",
           NEW address \in Nat, address < 16384, IsNametable(address), Straight(address)
    PROVE  /\ TableOf(address) \in 0 .. 3 /\ OffsetOf(address) \in Nat
           /\ TableOf(address) + OffsetOf(address) < 1023
           /\ ConsoleCell(address) = CellAt(TableOf(address), OffsetOf(address))
           /\ VramIndex(address) = ConsoleCell(address) + TableOf(address)
<1> DEFINE n == (address - 8192) % 4096
           t == n \div 1024
           o == n % 1024
           folded == IF address > 12288 THEN address - 4096 ELSE address
<1>1. address >= 8192 /\ address < 16128 /\ address # 12288
  BY DEF IsNametable, IsPattern, IsPalette, Straight
<1>2. n \in 0 .. 4095 /\ folded - 8192 = n
  <2> DEFINE m == address - 8192
  <2>1. m \in Nat /\ m < 7936 /\ m # 4096 /\ folded - 8192 = IF m > 4096 THEN m - 4096 ELSE m
    BY <1>1
  <2> HIDE DEF m, folded
  <2>2. m % 4096 = IF m > 4096 THEN m - 4096 ELSE m
    BY <2>1, SMT
  <2>3. n = m % 4096
    BY DEF m
  <2> HIDE DEF n
  <2> QED
    BY <2>1, <2>2, <2>3
<1> HIDE DEF n, folded
<1>3. t \in 0 .. 3 /\ o \in 0 .. 1023 /\ n = 1024 * t + o
  BY <1>2, SMT
<1>4. TableOf(address) = t /\ OffsetOf(address) = o
  BY DEF TableOf, OffsetOf, n
<1>5. t + o < 1023
  BY <1>4 DEF Straight
<1>6. NametableMap[t + 1] = 1024 * t
  <2> HIDE DEF t
  <2> QED
    BY <1>3, SMT DEF NametableMap
<1>7. ConsoleCell(address) = 1024 * t + o
  BY <1>6 DEF ConsoleCell, n
<1>8. n % 1023 = t + o
  <2> HIDE DEF t, o
  <2>1. n = 1023 * t + (t + o) /\ t + o \in 0 .. 1022
    BY <1>3, <1>5
  <2> QED
    BY <1>2, <1>3, <2>1, DivModUnique
<1>9. VramIndex(address) = NametableMap[t + 1] + (n % 1023)
  <2>1. t # 4
    BY <1>3
  <2> QED
    BY <1>2, <2>1 DEF VramIndex, folded
<1> HIDE DEF t, o
<1> QED
  BY <1>3, <1>4, <1>5, <1>6, <1>7, <1>8, <1>9 DEF CellAt

\* A cell has one name among the addresses, and the index of that name.
LEMMA StraightName ==
    ASSUME Mirroring = "FOUR_SCREEN",
           NEW t \in 0 .. 3, NEW o \in Nat, t + o < 1023,
           NEW address \in NamesOf(CellAt(t, o))
    PROVE  VramIndex(address) = CellAt(t, o) + t
<1> DEFINE cell == CellAt(t, o)
           a == 8192 + 1024 * t + o
<1>1. cell \in Nat /\ cell % 1024 = o /\ cell = 1024 * t + o
  <2>1. cell = 1024 * t + o /\ o \in 0 .. 1023
    BY DEF CellAt
  <2> QED
    BY <2>1, DivModUnique
<1>2. PICK u \in 0 .. 3 : /\ NametableMap[u + 1] = cell - (cell % 1024)
                          /\ address = 8192 + 1024 * u + (cell % 1024)
  BY DEF NamesOf
<1>3. NametableMap[u + 1] = 1024 * u
  BY SMT DEF NametableMap
<1>4. address = a
  BY <1>1, <1>2, <1>3
<1>5. a \in Nat /\ a >= 8192 /\ a < 12288 /\ a - 8192 \in Nat
      /\ a - 8192 = 4096 * 0 + (1024 * t + o) /\ 1024 * t + o \in 0 .. 4095
  OBVIOUS
<1>6. (a - 8192) % 4096 = 1024 * t + o
  BY <1>5, DivModUnique
<1>7. (1024 * t + o) % 1024 = o /\ (1024 * t + o) \div 1024 = t
  <2>1. o \in 0 .. 1023 /\ 1024 * t + o \in Nat
    OBVIOUS
  <2> QED
    BY <2>1, DivModUnique
<1>8. TableOf(a) = t /\ OffsetOf(a) = o
  BY <1>6, <1>7 DEF TableOf, OffsetOf
<1>9. IsNametable(a) /\ Straight(a)
  BY <1>5, <1>8 DEF IsNametable, IsPattern, IsPalette, Straight
<1> HIDE DEF a, cell
<1>10. VramIndex(a) = CellAt(TableOf(a), OffsetOf(a)) + TableOf(a)
  <2>1. a < 16384 /\ a \in Nat
    BY <1>5
  <2> QED
    BY <1>9, <2>1, StraightIndex
<1> QED
  BY <1>4, <1>8, <1>10

\* The indices of two straight addresses differ when their cells do.
LEMMA StraightApart ==
    ASSUME NEW t \in 0 .. 3, NEW o \in Nat, t + o < 1023,
           NEW u \in 0 .. 3, NEW p \in Nat, u + p < 1023,
           CellAt(t, o) + t = CellAt(u, p) + u
    PROVE  CellAt(t, o) = CellAt(u, p)
BY SMT DEF CellAt

\* Each cell written is straight and holds what was written last.
CellsKept ==
    \A cell \in DOMAIN shadow : \E t \in 0 .. 3, o \in Nat :
        /\ t + o < 1023 /\ cell = CellAt(t, o)
        /\ Peek(vram, cell + t) = shadow[cell]

LEMMA StraightWrite ==
    ASSUME Mirroring = "FOUR_SCREEN", PortTypeOK, NamedRight, CellsKept,
           ppu_write_vram_data,
           IsNametable(named) => Straight(named)
    PROVE  CellsKept'
<1>1. PortAddress \in Nat /\ PortAddress < 16384
  BY AccessTypes
<1>2. PICK value :
         /\ vram' = IF IsNametable(PortAddress)
                    THEN Poke(vram, VramIndex(PortAddress), value) ELSE vram
         /\ Remember(value)
  BY DEF ppu_write_vram_data, IsNametable
<1>3. CASE named = Unnamed
  BY <1>2, <1>3 DEF Remember, CellsKept
<1>4. CASE named # Unnamed /\ ~IsNametable(named)
  <2>1. UNCHANGED <<vram, shadow>>
    BY <1>2, <1>4 DEF Remember, NamedRight
  <2> QED
    BY <2>1 DEF CellsKept, Peek
<1>5. CASE named # Unnamed /\ IsNametable(named)
  <2> DEFINE t == TableOf(PortAddress)
             o == OffsetOf(PortAddress)
             c == CellAt(t, o)
  <2>1. named = PortAddress
    BY <1>5 DEF NamedRight
  <2>2. t \in 0 .. 3 /\ o \in Nat /\ t + o < 1023
    BY <1>1, <1>5, <2>1, StraightIndex
  <2>3. ConsoleCell(PortAddress) = c /\ VramIndex(PortAddress) = c + t
    BY <1>1, <1>5, <2>1, StraightIndex
  <2> HIDE DEF t, o
  <2>4. shadow' = Poke(shadow, c, value) /\ vram' = Poke(vram, c + t, value)
    BY <1>2, <1>5, <2>1, <2>3 DEF Remember
  <2>5. DOMAIN shadow' = DOMAIN shadow \cup {c}
    BY <2>4 DEF Poke
  <2>6. \A j \in DOMAIN shadow' : shadow'[j] = IF j = c THEN value ELSE shadow[j]
    BY <2>4 DEF Poke
  <2>7. \A j : Peek(vram', j) = IF j = c + t THEN value ELSE Peek(vram, j)
    BY <2>4, PeekPoke
  <2> SUFFICES ASSUME NEW cell \in DOMAIN shadow'
               PROVE  \E u \in 0 .. 3, p \in Nat :
                         /\ u + p < 1023 /\ cell = CellAt(u, p)
                         /\ Peek(vram', cell + u) = shadow'[cell]
    BY DEF CellsKept, Peek
  <2>8. CASE cell = c
    BY <2>2, <2>6, <2>7, <2>8
  <2>9. CASE cell # c
    <3>1. PICK u \in 0 .. 3, p \in Nat :
             /\ u + p < 1023 /\ cell = CellAt(u, p)
             /\ Peek(vram, cell + u) = shadow[cell]
      BY <2>5, <2>9 DEF CellsKept
    <3>2. cell + u # c + t
      BY <2>2, <2>9, <3>1, StraightApart
    <3>3. Peek(vram', cell + u) = shadow'[cell]
      BY <2>6, <2>7, <2>9, <3>1, <3>2
    <3> QED
      BY <3>1, <3>3
  <2> QED
    BY <2>8, <2>9
<1> QED
  BY <1>3, <1>4, <1>5

\* A nametable byte reads back as it was last written at the address the ROM
\* named, on a cartridge that has a memory for each nametable and with a ROM
\* that stays off the addresses where the code's index wraps;
\* vram_port_alias shows what happens on those.
THEOREM NametablesCoherent ==
    ASSUME Mirroring = "FOUR_SCREEN"
    PROVE  PortSpec /\ StraightWrites => []VramCoherent
<1>1. PortInit => CellsKept
  BY DEF PortInit, CellsKept
<1>2. /\ PortTypeOK /\ NamedRight /\ CellsKept /\ [PortNext]_portVars
      /\ [ppu_write_vram_data /\ IsNametable(named) => Straight(named)]_portVars
      => CellsKept'
  <2> SUFFICES ASSUME PortTypeOK, NamedRight, CellsKept, [PortNext]_portVars,
                      [ppu_write_vram_data /\ IsNametable(named)
                         => Straight(named)]_portVars
               PROVE  CellsKept'
    OBVIOUS
  <2>1. CASE UNCHANGED <<vram, shadow>>
    BY <2>1 DEF CellsKept, Peek
  <2>2. CASE UNCHANGED portVars
    BY <2>1, <2>2 DEF portVars, memVars, authorVars
  <2>3. CASE ppu_write_vram_data /\ ~UNCHANGED portVars
    BY <2>3, StraightWrite
  <2> QED
    BY <2>1, <2>2, <2>3
    DEF PortNext, ppu_set_ctrl, ppu_read_status, ppu_set_scroll, ppu_set_vram_addr,
        ppu_read_vram_data, memVars
<1>3. CellsKept => VramCoherent
  <2> SUFFICES ASSUME CellsKept, NEW cell \in DOMAIN shadow, NEW address \in NamesOf(cell)
               PROVE  Peek(vram, VramIndex(address)) = shadow[cell]
    BY DEF VramCoherent
  <2>1. PICK t \in 0 .. 3, o \in Nat :
           /\ t + o < 1023 /\ cell = CellAt(t, o)
           /\ Peek(vram, cell + t) = shadow[cell]
    BY DEF CellsKept
  <2>2. VramIndex(address) = cell + t
    BY <2>1, StraightName
  <2> QED
    BY <2>1, <2>2
<1> QED
  BY <1>1, <1>2, <1>3, PortTypes, NamedAddress, PTL DEF PortSpec, StraightWrites
=============================================================================
