------------------------------- MODULE VblkBench -------------------------------
(***************************************************************************)
(* The benchmarks vblk_writetest and vblk_readtest: for the first channel, *)
(* the first two, and so on, a virtual block is made of block 0 of all     *)
(* their LUNs, and written or read through with requests that double in    *)
(* size from pass to pass.  The programs are run one after the other, in   *)
(* any order, on a device that keeps its data.                             *)
(*                                                                         *)
(* Sizes are counted in the smallest request, one page on all planes of a  *)
(* LUN, and held in an int, as the code holds them.  liblightnvm is        *)
(* external: pages of a virtual block are dealt to its LUNs in turn, a     *)
(* block is written page after page, a page can be read once written, and  *)
(* a request that fails leaves positions and data alone.                   *)
(***************************************************************************)
EXTENDS Integers, Sequences, FiniteSets

CONSTANTS
  nchannels, nluns,   \* of the device
  npages,             \* pages of a physical block
  IntMax              \* the largest int, in units of the smallest request

ASSUME BenchAssumption == {nchannels, nluns, npages, IntMax} \subseteq Nat \ {0}

(* A power of two: no divisor but 1 is odd. *)
PowerOfTwo(s) == \A d \in 2 .. s : s % d = 0 => d % 2 = 0

(* An int has 32 bits, and the smallest request is a power of two.         *)
ASSUME IntAssumption == PowerOfTwo(IntMax + 1)

(* Block 0 of all LUNs is no larger than an unsigned int can say. *)
ASSUME SizeAssumption == nchannels * nluns * npages <= 2 * (IntMax + 1)

VARIABLES
  nvme0n1,     \* the device is /dev/nvme0n1
  program,     \* writetest, readtest or none
  pc,          \* where it is
  channel,     \* main's loop variable
  channels,    \* the channels of the virtual block
  end_size, start_size, i,   \* locals of test_vblk
  pos,         \* write or read position of the virtual block
  pages,       \* pages written in block 0 of each LUN of each channel
  passes,      \* history: sizes of the passes made over this virtual block
  clean,       \* history: no request of this program failed, no size was
               \* too large for an int
  filled       \* history: the last writetest on this device was clean

locals == <<end_size, start_size, i, pos, passes>>
vars == <<nvme0n1, program, pc, channel, channels, locals, pages, clean, filled>>

Channels == 0 .. nchannels - 1
Luns == 0 .. nluns - 1

-----------------------------------------------------------------------------

(* main: on nvme0n1 every second pair of channels is left out. *)
Working(c) == ~nvme0n1 \/ (c \div 2) % 2 # 1

(* The physical blocks of the virtual block over channels chs, in the      *)
(* order of "units", and its size.                                         *)
Unit(chs, n) == <<chs[(n \div nluns) + 1], n % nluns>>
NumUnits(chs) == Len(chs) * nluns
UnitNumbers(chs) == 0 .. NumUnits(chs) - 1
SizeOver(chs) == NumUnits(chs) * npages
Nbytes == SizeOver(channels)

(* A size_t or the product of two ints, stored in an int. *)
ToInt(x) == ((x + IntMax + 1) % (2 * (IntMax + 1))) - (IntMax + 1)

(* The pages of unit n among the first p pages of the virtual block. *)
Share(chs, p, n) == (p + NumUnits(chs) - 1 - n) \div NumUnits(chs)

(* The device with just the first p pages of the virtual block written. *)
PagesWith(chs, p) ==
  [ch \in Channels |-> [lun \in Luns |->
     LET here == {n \in UnitNumbers(chs) : Unit(chs, n) = <<ch, lun>>}
     IN IF here = {} THEN pages[ch][lun] ELSE Share(chs, p, CHOOSE n \in here : TRUE)]]

Readable(p) ==
  \A n \in UnitNumbers(channels) :
    Share(channels, p, n) <= pages[Unit(channels, n)[1]][Unit(channels, n)[2]]

Init ==
  /\ nvme0n1 \in BOOLEAN
  /\ program = "none"
  /\ pc = "main"
  /\ channel = 0
  /\ channels = << >>
  /\ end_size = 0 /\ start_size = 0 /\ i = 0 /\ pos = 0
  /\ passes = {}
  /\ pages = [ch \in Channels |-> [lun \in Luns |-> 0]]
  /\ clean = FALSE
  /\ filled = FALSE

Start(p) ==
  /\ program = "none"
  /\ program' = p
  /\ pc' = "main"
  /\ channel' = 0
  /\ channels' = << >>
  /\ clean' = TRUE
  /\ filled' = (filled /\ p = "readtest")
  /\ UNCHANGED <<nvme0n1, locals, pages>>

SkipChannel ==
  /\ program # "none" /\ pc = "main"
  /\ channel < nchannels
  /\ ~Working(channel)
  /\ channel' = channel + 1
  /\ UNCHANGED <<nvme0n1, program, pc, channels, locals, pages, clean, filled>>

(* channels.push_back; test_vblk up to its loop.  The write test erases    *)
(* the block; a buffer of a negative size cannot be had, which ends        *)
(* test_vblk.                                                              *)
EnterTest ==
  /\ program # "none" /\ pc = "main"
  /\ channel < nchannels
  /\ Working(channel)
  /\ channels' = Append(channels, channel)
  /\ end_size' = ToInt(SizeOver(channels'))
  /\ start_size' = 1
  /\ pos' = 0
  /\ passes' = {}
  /\ pages' = IF program = "writetest" THEN PagesWith(channels', 0) ELSE pages
  /\ clean' = (clean /\ end_size' = SizeOver(channels'))
  /\ pc' = IF end_size' < 0 THEN "leave" ELSE "passes"
  /\ UNCHANGED <<nvme0n1, program, channel, i, filled>>

(* nvm_vblk_alloc returns NULL, which nvm_vblk_get_nbytes does not expect. *)
AllocVblkFails ==
  /\ program # "none" /\ pc = "main"
  /\ channel < nchannels
  /\ Working(channel)
  /\ channels' = Append(channels, channel)
  /\ pc' = "aborted"
  /\ UNCHANGED <<nvme0n1, program, channel, locals, pages, clean, filled>>

(* The remainder of C is zero for the same divisors as that of their       *)
(* magnitude.                                                              *)
Magnitude(x) == IF x < 0 THEN 0 - x ELSE x

(* Faulty variant: the request as large as the block is left out. *)
AnotherPassBelow == start_size < end_size /\ end_size % Magnitude(start_size) = 0

AnotherPass == start_size <= end_size /\ end_size % Magnitude(start_size) = 0

(* Faulty variant: the write position is not set back for the next pass. *)
BeginPassOn ==
  /\ pc = "passes"
  /\ AnotherPass
  /\ i' = 0
  /\ pos' = IF program = "writetest" THEN 0 ELSE pos
  /\ pages' = IF program = "writetest" THEN PagesWith(channels, 0) ELSE pages
  /\ pc' = "requests"
  /\ UNCHANGED <<nvme0n1, program, channel, channels, end_size, start_size, passes, clean, filled>>

(* Erase before a pass of writes; the position is set to 0 for both. *)
BeginPass ==
  /\ pc = "passes"
  /\ AnotherPass
  /\ i' = 0
  /\ pos' = 0
  /\ pages' = IF program = "writetest" THEN PagesWith(channels, 0) ELSE pages
  /\ pc' = "requests"
  /\ UNCHANGED <<nvme0n1, program, channel, channels, end_size, start_size, passes, clean, filled>>

InRequests == pc = "requests" /\ i < end_size \div start_size

(* nvm_vblk_write *)
Write ==
  /\ program = "writetest" /\ InRequests
  /\ pos + start_size <= Nbytes
  /\ pages' = PagesWith(channels, pos + start_size)
  /\ pos' = pos + start_size
  /\ i' = i + 1
  /\ UNCHANGED <<nvme0n1, program, pc, channel, channels, end_size, start_size, passes, clean, filled>>

(* nvm_vblk_read *)
Read ==
  /\ program = "readtest" /\ InRequests
  /\ pos + start_size <= Nbytes
  /\ Readable(pos + start_size)
  /\ pos' = pos + start_size
  /\ i' = i + 1
  /\ UNCHANGED <<nvme0n1, program, pc, channel, channels, end_size, start_size, passes, pages, clean, filled>>

(* A write fails, for a reason of the device, or a read meets a page that  *)
(* is not written: a line is printed, the loop goes on.                    *)
RequestFails ==
  /\ InRequests
  /\ \/ program = "writetest"
     \/ pos + start_size > Nbytes
     \/ ~Readable(pos + start_size)
  /\ i' = i + 1
  /\ clean' = FALSE
  /\ UNCHANGED <<nvme0n1, program, pc, channel, channels, end_size, start_size, pos, passes, pages, filled>>

(* start_size *= 2 *)
Doubled == ToInt(2 * start_size)

(* The pass is over: its size is doubled, and the write test asserts that  *)
(* the block has been written to its end.                                  *)
EndPass ==
  /\ pc = "requests"
  /\ i = end_size \div start_size
  /\ passes' = passes \cup {start_size}
  /\ start_size' = Doubled
  /\ pc' = IF program = "writetest" /\ pos # end_size THEN "aborted" ELSE "passes"
  /\ UNCHANGED <<nvme0n1, program, channel, channels, end_size, i, pos, pages, clean, filled>>

EndPasses ==
  /\ pc = "passes"
  /\ ~AnotherPass
  /\ pc' = "leave"
  /\ UNCHANGED <<nvme0n1, program, channel, channels, locals, pages, clean, filled>>

LeaveTest ==
  /\ pc = "leave"
  /\ pc' = "main"
  /\ channel' = channel + 1
  /\ UNCHANGED <<nvme0n1, program, channels, locals, pages, clean, filled>>

(* main returns, or the assertion or a NULL ends the program. *)
Exit ==
  /\ program # "none"
  /\ pc = "aborted" \/ (pc = "main" /\ channel = nchannels)
  /\ program' = "none"
  /\ pc' = "main"
  /\ filled' = IF program = "writetest" THEN clean /\ pc = "main" ELSE filled
  /\ UNCHANGED <<nvme0n1, channel, channels, locals, pages, clean>>

Step ==
  \/ SkipChannel \/ EnterTest \/ AllocVblkFails \/ BeginPass \/ Write \/ Read \/ RequestFails
  \/ EndPass \/ EndPasses \/ LeaveTest \/ Exit

Next == (\E p \in {"writetest", "readtest"} : Start(p)) \/ Step

Spec == Init /\ [][Next]_vars

-----------------------------------------------------------------------------

Sizes == {s \in 1 .. Nbytes : PowerOfTwo(s) /\ Nbytes % s = 0}

(* A virtual block whose size an int can hold is measured with every       *)
(* power-of-two request size that divides it and with no other: the size   *)
(* that ends the loop may no longer fit an int, but the negative number it *)
(* then is does not divide the block.  One that is too large is not        *)
(* measured at all.                                                        *)
AllSizesMeasured ==
  pc = "leave" => passes = IF Nbytes <= IntMax THEN Sizes ELSE {}

(* After a write test without errors every read of a read test succeeds,   *)
(* for each of its sets of channels, although it puts together other       *)
(* virtual blocks than the one the pages were written through last.        *)
WrittenIsReadable == program = "readtest" /\ filled => clean

=============================================================================
