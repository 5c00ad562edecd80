--------------------------- MODULE VblkBenchProofs ---------------------------
(***************************************************************************)
(* A read test after a write test without errors reads every page, and the *)
(* loop over the request sizes misses none and takes no other, for every   *)
(* geometry of the device and every width of int.                          *)
(***************************************************************************)
EXTENDS VblkBench, FiniteSetTheorems, FunctionTheorems, SequenceTheorems, TLAPS

WorkingChannels == {ch \in Channels : Working(ch)}

(* The channels of the virtual block are the working ones main has passed, *)
(* with the one it is at while test_vblk runs, each once.                  *)
Passed == IF pc = "main" THEN channel ELSE channel + 1

Apart(chs) == \A j, k \in DOMAIN chs : chs[j] = chs[k] => j = k

ChannelsPassed ==
  /\ channels \in Seq(Channels)
  /\ Apart(channels)
  /\ \A ch \in Channels :
       Working(ch) /\ ch < Passed <=> \E k \in DOMAIN channels : channels[k] = ch
  /\ pc # "main" => channels # << >>

InTest == pc \in {"passes", "requests", "leave"}

(* Every page of block 0 of the LUNs of a channel is written. *)
ChannelFull(ch) == \A lun \in Luns : pages[ch][lun] = npages

BlockFull == \A k \in DOMAIN channels : ChannelFull(channels[k])

(* Of the virtual block, the first p pages are written. *)
WrittenTo(p) ==
  \A n \in UnitNumbers(channels) :
    pages[Unit(channels, n)[1]][Unit(channels, n)[2]] = Share(channels, p, n)

(* The requests of a pass follow each other without a gap. *)
InPass ==
  /\ start_size \in 1 .. end_size
  /\ end_size % start_size = 0
  /\ i \in 0 .. end_size \div start_size
  /\ pos = i * start_size

Sound ==
  /\ InTest => end_size = Nbytes
  /\ pc = "requests" => InPass

Writing ==
  /\ Sound
  /\ Nbytes <= IntMax
  /\ pc = "requests" => WrittenTo(pos)
  /\ pc = "passes" /\ passes = {} => start_size = 1
  /\ pc = "passes" /\ passes # {} => BlockFull
  /\ pc \in {"leave", "main"} => BlockFull

(* What a write test without errors leaves behind. *)
DeviceFull ==
  /\ \A ch \in WorkingChannels : ChannelFull(ch)
  /\ Cardinality(WorkingChannels) * nluns * npages <= IntMax

Labels == {"main", "passes", "requests", "leave", "aborted"}

BenchTypes ==
  /\ program \in {"none", "writetest", "readtest"}
  /\ pc \in Labels
  /\ channel \in 0 .. nchannels
  /\ pc # "main" => channel < nchannels /\ program # "none"
  /\ end_size \in Int /\ start_size \in Int /\ i \in Int /\ pos \in Int
  /\ filled \in BOOLEAN /\ clean \in BOOLEAN

BenchInv ==
  /\ BenchTypes
  /\ program # "none" => ChannelsPassed
  /\ filled => program # "writetest" /\ DeviceFull
  /\ program = "writetest" /\ clean /\ pc # "aborted" => Writing
  /\ program = "readtest" /\ filled => clean /\ Sound

-----------------------------------------------------------------------------
(* The sizes measured                                                      *)

(* Every request size is one of a pass made, or a multiple of the size     *)
(* that is next.                                                           *)
Doubling ==
  /\ start_size \in Nat \ {0} /\ PowerOfTwo(start_size)
  /\ passes \subseteq Sizes
  /\ \A t \in Sizes : t \in passes \/ t % start_size = 0

(* The size that is next has overflowed; there is none left, and the loop  *)
(* does not take it for one.                                               *)
Overflowed == start_size < 0 /\ passes = Sizes /\ ~AnotherPass

Measuring ==
  /\ pc = "passes" /\ Nbytes <= IntMax => end_size = Nbytes /\ (Doubling \/ Overflowed)
  /\ pc = "passes" /\ Nbytes > IntMax => end_size <= 0 /\ start_size = 1 /\ passes = {}
  /\ pc = "requests" => /\ end_size = Nbytes /\ Nbytes <= IntMax
                        /\ Doubling /\ start_size \in Sizes
  /\ AllSizesMeasured

-----------------------------------------------------------------------------
(* Numbers                                                                 *)

(* The sizes are positive. *)
LEMMA BenchNumbers ==
  nchannels \in Nat \ {0} /\ nluns \in Nat \ {0} /\ npages \in Nat \ {0} /\ IntMax \in Nat \ {0}
BY BenchAssumption

(* Quotient and remainder. *)
LEMMA Parts ==
  ASSUME NEW R \in Nat \ {0}, NEW x \in Nat
  PROVE  /\ x \div R \in Nat /\ x % R \in 0 .. R - 1
         /\ x = (x % R) + R * (x \div R)
OBVIOUS

(* They are what a number is put together from. *)
LEMMA PartsOf ==
  ASSUME NEW R \in Nat \ {0}, NEW q \in Nat, NEW r \in 0 .. R - 1
  PROVE  (r + R * q) \div R = q /\ (r + R * q) % R = r
OBVIOUS

(* A quotient is bounded as its number is. *)
LEMMA QuotientBelow ==
  ASSUME NEW R \in Nat \ {0}, NEW x \in Nat, NEW k \in Nat, x < R * k
  PROVE  x \div R < k
OBVIOUS

(* And from below. *)
LEMMA QuotientAbove ==
  ASSUME NEW R \in Nat \ {0}, NEW x \in Nat, NEW k \in Nat, R * k <= x
  PROVE  k <= x \div R
OBVIOUS

(* A number an int can hold is stored as it is; what is stored fits. *)
LEMMA Stored ==
  ASSUME NEW x \in Nat
  PROVE  /\ ToInt(x) \in Int /\ ToInt(x) <= IntMax
         /\ x <= IntMax => ToInt(x) = x
<1>1. PICK M \in Nat \ {0} : M = IntMax
  BY BenchNumbers
<1>2. 2 * (M + 1) \in Nat \ {0} /\ x + M + 1 \in Nat
  BY <1>1
<1>3. (x + M + 1) % (2 * (M + 1)) \in 0 .. 2 * (M + 1) - 1
  BY <1>2, Parts
<1>4. x <= M => (x + M + 1) % (2 * (M + 1)) = x + M + 1
  <2> SUFFICES ASSUME x <= M PROVE (x + M + 1) % (2 * (M + 1)) = x + M + 1
    OBVIOUS
  <2>1. x + M + 1 \in 0 .. 2 * (M + 1) - 1
    BY <1>1
  <2>2. ((x + M + 1) + (2 * (M + 1)) * 0) % (2 * (M + 1)) = x + M + 1
    BY <1>2, <2>1, PartsOf
  <2> QED
    BY <1>1, <2>2
<1> QED
  BY <1>1, <1>3, <1>4 DEF ToInt

(* The same of a doubled request size, which may have passed below zero. *)
LEMMA StoredIsInt == \A x \in Int : ToInt(x) \in Int
<1> SUFFICES ASSUME NEW x \in Int PROVE ToInt(x) \in Int
  OBVIOUS
<1>1. PICK M \in Nat \ {0} : M = IntMax
  BY BenchNumbers
<1> QED
  BY <1>1 DEF ToInt

-----------------------------------------------------------------------------
(* Virtual blocks                                                          *)

(* The number of blocks of a virtual block, and its size. *)
LEMMA Sizing ==
  ASSUME NEW chs \in Seq(Channels)
  PROVE  /\ NumUnits(chs) \in Nat /\ NumUnits(chs) = nluns * Len(chs)
         /\ SizeOver(chs) \in Nat /\ SizeOver(chs) = NumUnits(chs) * npages
         /\ chs # << >> => NumUnits(chs) > 0 /\ SizeOver(chs) > 0
<1>1. PICK n \in Nat, l \in Nat \ {0}, m \in Nat \ {0} : n = Len(chs) /\ l = nluns /\ m = npages
  BY BenchNumbers, LenProperties
<1>2. PICK u \in Nat : u = n * l /\ (n > 0 => u > 0)
  BY <1>1
<1>3. u * m \in Nat /\ (u > 0 => u * m > 0) /\ n * l = l * n
  BY <1>1, <1>2
<1>4. chs # << >> => n > 0
  BY <1>1, EmptySeq
<1> QED
  BY <1>1, <1>2, <1>3, <1>4 DEF NumUnits, SizeOver

(* Unit n is a LUN of one of the channels. *)
LEMMA UnitPlace ==
  ASSUME NEW chs \in Seq(Channels), NEW n \in UnitNumbers(chs)
  PROVE  /\ n \in Nat /\ n < NumUnits(chs) /\ (n \div nluns) + 1 \in DOMAIN chs
         /\ n \div nluns \in Nat /\ n % nluns \in Luns
         /\ Unit(chs, n)[1] = chs[(n \div nluns) + 1] /\ Unit(chs, n)[2] = n % nluns
         /\ Unit(chs, n)[1] \in Channels
<1>1. PICK l \in Nat \ {0}, k \in Nat : l = nluns /\ k = Len(chs) /\ DOMAIN chs = 1 .. k
  BY BenchNumbers, LenProperties
<1>2. n \in Nat /\ n < NumUnits(chs) /\ n < l * k
  BY <1>1, Sizing DEF UnitNumbers
<1>3. n \div l \in Nat /\ n % l \in 0 .. l - 1 /\ n \div l < k
  BY <1>1, <1>2, Parts, QuotientBelow
<1>4. (n \div l) + 1 \in 1 .. k
  BY <1>1, <1>3
<1>5. chs[(n \div l) + 1] \in Channels
  BY <1>1, <1>4
<1> QED
  BY <1>1, <1>2, <1>3, <1>4, <1>5 DEF Unit, Luns

(* No LUN is in a virtual block twice. *)
LEMMA UnitsDiffer ==
  ASSUME NEW chs \in Seq(Channels), Apart(chs),
         NEW m \in UnitNumbers(chs), NEW n \in UnitNumbers(chs), Unit(chs, m) = Unit(chs, n)
  PROVE  m = n
<1>1. /\ m \in Nat /\ n \in Nat /\ m \div nluns \in Nat /\ n \div nluns \in Nat
      /\ (m \div nluns) + 1 \in DOMAIN chs /\ (n \div nluns) + 1 \in DOMAIN chs
  BY UnitPlace
<1>2. chs[(m \div nluns) + 1] = chs[(n \div nluns) + 1] /\ m % nluns = n % nluns
  BY DEF Unit
<1>3. (m \div nluns) + 1 = (n \div nluns) + 1
  BY <1>1, <1>2 DEF Apart
<1>4. m \div nluns = n \div nluns
  BY <1>1, <1>3
<1>5. m = (m % nluns) + nluns * (m \div nluns) /\ n = (n % nluns) + nluns * (n \div nluns)
  BY <1>1, BenchNumbers, Parts
<1> QED
  BY <1>2, <1>4, <1>5, Zenon

(* What PagesWith leaves on a unit. *)
LEMMA PagesOnUnit ==
  ASSUME NEW chs \in Seq(Channels), Apart(chs), NEW p, NEW n \in UnitNumbers(chs)
  PROVE  PagesWith(chs, p)[Unit(chs, n)[1]][Unit(chs, n)[2]] = Share(chs, p, n)
<1> DEFINE here == {m \in UnitNumbers(chs) : Unit(chs, m) = Unit(chs, n)}
<1>1. PICK ch \in Channels, lun \in Luns :
        Unit(chs, n)[1] = ch /\ Unit(chs, n)[2] = lun /\ Unit(chs, n) = <<ch, lun>>
  <2>1. Unit(chs, n)[1] \in Channels /\ Unit(chs, n)[2] \in Luns
    BY UnitPlace
  <2>2. Unit(chs, n) = <<Unit(chs, n)[1], Unit(chs, n)[2]>>
    BY DEF Unit
  <2> QED
    BY <2>1, <2>2
<1>2. here = {n}
  BY UnitsDiffer
<1>3. here # {} /\ (CHOOSE m \in here : TRUE) = n
  BY <1>2
<1>4. here = {m \in UnitNumbers(chs) : Unit(chs, m) = <<ch, lun>>}
  BY <1>1
<1> HIDE DEF here
<1>5. PagesWith(chs, p)[ch][lun] = Share(chs, p, n)
  BY <1>3, <1>4 DEF PagesWith
<1> QED
  BY <1>1, <1>5

(* No unit has a share of more than npages in what fits the block, and     *)
(* each has npages in the whole of it.                                     *)
LEMMA ShareBounds ==
  ASSUME NEW chs \in Seq(Channels), NEW n \in UnitNumbers(chs),
         NEW p \in Nat, p <= SizeOver(chs)
  PROVE  /\ Share(chs, p, n) <= npages
         /\ p = SizeOver(chs) => Share(chs, p, n) = npages
<1>1. PICK u \in Nat, m \in Nat : u = NumUnits(chs) /\ m = npages /\ SizeOver(chs) = u * m
  BY Sizing, BenchNumbers
<1>2. n \in Nat /\ n < u
  BY <1>1, UnitPlace
<1>3. u \in Nat \ {0}
  BY <1>1, <1>2
<1>4. PICK x \in Nat : x = p + u - 1 - n
  BY <1>2
<1>5. Share(chs, p, n) = x \div u /\ x \div u \in Nat
  BY <1>1, <1>3, <1>4, Parts DEF Share
<1>6. PICK s \in Nat : s = u * m /\ u * (m + 1) = s + u
  BY <1>1
<1>7. p <= s /\ SizeOver(chs) = s
  BY <1>1, <1>6
<1>8. x < s + u /\ (p = s => s <= x)
  BY <1>2, <1>4, <1>6, <1>7
<1>9. x \div u < m + 1
  <2>1. x < u * (m + 1) /\ m + 1 \in Nat
    BY <1>1, <1>6, <1>8
  <2> QED
    BY <1>3, <1>4, <2>1, QuotientBelow
<1>10. p = s => m <= x \div u
  <2>1. p = s => u * m <= x
    BY <1>6, <1>8
  <2> QED
    BY <1>1, <1>3, <1>4, <2>1, QuotientAbove
<1>11. PICK q \in Nat : q = x \div u
  BY <1>5
<1>12. q <= m /\ (p = s => q = m)
  BY <1>1, <1>9, <1>10, <1>11
<1> QED
  BY <1>1, <1>5, <1>7, <1>11, <1>12, Zenon

(* The units of a channel, of those before it and of those behind it. *)
LEMMA Beyond ==
  ASSUME NEW l \in Nat, NEW q \in Nat, NEW d \in Nat
  PROVE  l * (q + 1 + d) = l * q + l + l * d /\ l * d \in Nat /\ l * q \in Nat
OBVIOUS

(* The whole of the virtual block is written: so is every LUN of it. *)
LEMMA WholeBlockFull ==
  ASSUME channels \in Seq(Channels), WrittenTo(Nbytes)
  PROVE  BlockFull
<1> SUFFICES ASSUME NEW k \in DOMAIN channels, NEW lun \in Luns
             PROVE  pages[channels[k]][lun] = npages
  BY DEF BlockFull, ChannelFull
<1>1. PICK l \in Nat \ {0}, m \in Nat : l = nluns /\ m = Len(channels) /\ DOMAIN channels = 1 .. m
  BY BenchNumbers, LenProperties
<1>2. PICK q \in Nat : q = k - 1 /\ q < m
  BY <1>1
<1>3. lun \in 0 .. l - 1
  BY <1>1 DEF Luns
<1>4. PICK n \in Nat : n = lun + l * q
  BY <1>1, <1>2, <1>3
<1>5. n \div l = q /\ n % l = lun
  BY <1>1, <1>2, <1>3, <1>4, PartsOf
<1>6. n \in UnitNumbers(channels)
  <2>1. PICK d \in Nat : m = q + 1 + d
    <3>1. m - (q + 1) \in Nat /\ m = q + 1 + (m - (q + 1))
      BY <1>1, <1>2
    <3> QED
      BY <3>1
  <2>2. l * m = l * q + l + l * d /\ l * d \in Nat /\ l * q \in Nat
    BY <2>1, Beyond
  <2>3. n < l * m
    BY <1>1, <1>3, <1>4, <2>2
  <2>4. NumUnits(channels) = l * m /\ NumUnits(channels) \in Nat
    BY <1>1, Sizing
  <2> QED
    BY <1>4, <2>3, <2>4 DEF UnitNumbers
<1>7. Unit(channels, n)[1] = channels[k] /\ Unit(channels, n)[2] = lun
  BY <1>1, <1>2, <1>5 DEF Unit
<1>8. Share(channels, Nbytes, n) = npages
  <2>1. Nbytes \in Nat /\ Nbytes = SizeOver(channels) /\ Nbytes <= SizeOver(channels)
    BY Sizing DEF Nbytes
  <2> QED
    BY <1>6, <2>1, ShareBounds
<1> QED
  BY <1>6, <1>7, <1>8, Zenon DEF WrittenTo

(* The virtual block of a read test is within what was written. *)
LEMMA ReadableWithin ==
  ASSUME channels \in Seq(Channels), \A k \in DOMAIN channels : ChannelFull(channels[k]),
         NEW p \in Nat, p <= Nbytes
  PROVE  Readable(p)
<1> SUFFICES ASSUME NEW n \in UnitNumbers(channels)
             PROVE  Share(channels, p, n) <= pages[Unit(channels, n)[1]][Unit(channels, n)[2]]
  BY DEF Readable
<1>1. /\ (n \div nluns) + 1 \in DOMAIN channels /\ n % nluns \in Luns
      /\ Unit(channels, n)[1] = channels[(n \div nluns) + 1] /\ Unit(channels, n)[2] = n % nluns
  BY UnitPlace
<1>2. pages[Unit(channels, n)[1]][Unit(channels, n)[2]] = npages
  BY <1>1, Zenon DEF ChannelFull
<1>3. Share(channels, p, n) <= npages
  BY ShareBounds DEF Nbytes
<1> QED
  BY <1>2, <1>3, Zenon

(* More channels have more pages. *)
LEMMA SizesGrow ==
  ASSUME NEW a \in Nat, NEW b \in Nat, a <= b, NEW l \in Nat, NEW m \in Nat
  PROVE  a * l * m <= b * l * m
<1>1. PICK d \in Nat : b = a + d
  <2>1. b - a \in Nat /\ b = a + (b - a)
    OBVIOUS
  <2> QED
    BY <2>1
<1>2. PICK x \in Nat, y \in Nat : x = a * l /\ y = d * l /\ b * l = x + y
  BY <1>1
<1>3. (x + y) * m = x * m + y * m /\ x * m \in Nat /\ y * m \in Nat
  BY <1>2
<1> QED
  BY <1>2, <1>3

(* There are finitely many channels. *)
LEMMA AllFinite == IsFiniteSet(WorkingChannels)
<1>1. IsFiniteSet(Channels)
  BY BenchNumbers, FS_Interval DEF Channels
<1>2. WorkingChannels \in SUBSET Channels
  BY DEF WorkingChannels
<1> QED
  BY <1>1, <1>2, FS_Subset

(* A virtual block is no larger than the working channels together ... *)
LEMMA BlockWithinDevice ==
  ASSUME NEW chs \in Seq(WorkingChannels), Apart(chs)
  PROVE  SizeOver(chs) <= Cardinality(WorkingChannels) * nluns * npages
<1>1. IsFiniteSet(WorkingChannels)
  BY AllFinite
<1>2. PICK k \in Nat : k = Len(chs) /\ DOMAIN chs = 1 .. k
  BY LenProperties
<1>3. chs \in Injection(1 .. k, WorkingChannels)
  <2>1. chs \in [1 .. k -> WorkingChannels]
    BY <1>2, LenProperties
  <2> QED
    BY <1>2, <2>1 DEF Injection, IsInjective, Apart
<1>4. Cardinality(1 .. k) <= Cardinality(WorkingChannels)
  BY <1>1, <1>3, FS_Injection
<1>5. PICK w \in Nat : w = Cardinality(WorkingChannels) /\ k <= w
  <2>1. Cardinality(1 .. k) = k
    BY FS_Interval
  <2>2. Cardinality(WorkingChannels) \in Nat
    BY <1>1, FS_CardinalityType
  <2> QED
    BY <1>4, <2>1, <2>2
<1> QED
  BY <1>2, <1>5, BenchNumbers, SizesGrow DEF SizeOver, NumUnits

(* ... and with all of them no smaller. *)
LEMMA DeviceWithinBlock ==
  ASSUME NEW chs \in Seq(Channels),
         \A ch \in WorkingChannels : \E k \in DOMAIN chs : chs[k] = ch
  PROVE  Cardinality(WorkingChannels) * nluns * npages <= SizeOver(chs)
<1>1. PICK k \in Nat : k = Len(chs) /\ DOMAIN chs = 1 .. k
  BY LenProperties
<1> DEFINE T == {chs[j] : j \in 1 .. k}
<1>2. chs \in Surjection(1 .. k, T)
  <2>1. chs \in [1 .. k -> T]
    BY <1>1, LenProperties
  <2>2. \A y \in T : \E j \in 1 .. k : chs[j] = y
    OBVIOUS
  <2> QED
    BY <2>1, <2>2 DEF Surjection
<1>3. WorkingChannels \in SUBSET T
  BY <1>1
<1> HIDE DEF T
<1>4. IsFiniteSet(1 .. k) /\ Cardinality(1 .. k) = k
  BY FS_Interval
<1>5. IsFiniteSet(T) /\ Cardinality(T) <= k
  BY <1>2, <1>4, FS_Surjection
<1>6. IsFiniteSet(WorkingChannels) /\ Cardinality(WorkingChannels) <= Cardinality(T)
  BY <1>3, <1>5, FS_Subset
<1>7. PICK w \in Nat, v \in Nat : w = Cardinality(WorkingChannels) /\ v = Cardinality(T)
  BY <1>5, <1>6, FS_CardinalityType
<1>8. w <= k
  BY <1>5, <1>6, <1>7
<1> QED
  BY <1>1, <1>7, <1>8, BenchNumbers, SizesGrow DEF SizeOver, NumUnits

-----------------------------------------------------------------------------
(* The steps                                                               *)

(* A step that leaves the device alone. *)
LEMMA SameDevice ==
  ASSUME UNCHANGED <<nvme0n1, pages>>
  PROVE  (DeviceFull' <=> DeviceFull) /\ WorkingChannels' = WorkingChannels
BY DEF DeviceFull, ChannelFull, WorkingChannels, Working

(* A step within test_vblk has the channels it had. *)
LEMMA SameChannels ==
  ASSUME UNCHANGED <<nvme0n1, channels>>, Passed' = Passed, pc' # "main" => pc # "main"
  PROVE  /\ ChannelsPassed => ChannelsPassed'
         /\ Nbytes' = Nbytes /\ UnitNumbers(channels)' = UnitNumbers(channels)
BY DEF ChannelsPassed, Working, Nbytes, SizeOver, NumUnits, UnitNumbers

(* Before the first program nothing is promised. *)
LEMMA BenchInit == Init => BenchInv
<1> SUFFICES ASSUME Init PROVE BenchInv
  OBVIOUS
<1>1. /\ program = "none" /\ pc = "main" /\ channel = 0 /\ ~filled /\ ~clean
      /\ filled \in BOOLEAN /\ clean \in BOOLEAN
      /\ end_size = 0 /\ start_size = 0 /\ i = 0 /\ pos = 0
  BY DEF Init
<1>2. BenchTypes
  BY <1>1, BenchNumbers DEF BenchTypes, Labels
<1> QED
  BY <1>1, <1>2 DEF BenchInv

(* A program starts with no channel passed. *)
LEMMA BenchStart ==
  ASSUME BenchInv, NEW p \in {"writetest", "readtest"}, Start(p)
  PROVE  BenchInv'
<1>1. /\ program = "none" /\ program' = p /\ pc' = "main" /\ channel' = 0 /\ channels' = << >>
      /\ clean' = TRUE /\ filled' = (filled /\ p = "readtest")
      /\ UNCHANGED <<nvme0n1, end_size, start_size, i, pos, passes, pages>>
  BY DEF Start, locals
<1>2. Nbytes' = 0 /\ BlockFull' /\ channels' \in Seq(Channels) /\ Apart(channels)'
  <2>1. Len(channels') = 0 /\ DOMAIN channels' = {} /\ channels' \in Seq(Channels)
    BY <1>1, EmptySeq
  <2>2. 0 * nluns = 0 /\ 0 * npages = 0
    BY BenchNumbers
  <2>3. Nbytes' = 0
    BY <2>1, <2>2 DEF Nbytes, SizeOver, NumUnits
  <2> QED
    BY <2>1, <2>3 DEF BlockFull, Apart
<1>3. BenchTypes'
  BY <1>1, BenchNumbers DEF BenchInv, BenchTypes, Labels
<1>4. ChannelsPassed'
  <2>1. \A ch \in Channels : ~(ch < 0)
    BY BenchNumbers DEF Channels
  <2>2. DOMAIN channels' = {}
    BY <1>1
  <2> QED
    BY <1>1, <1>2, <2>1, <2>2 DEF ChannelsPassed, Passed
<1>5. Sound'
  BY <1>1 DEF Sound, InTest
<1>6. Writing'
  <2>1. 0 <= IntMax
    BY BenchNumbers
  <2> QED
    BY <1>1, <1>2, <1>5, <2>1 DEF Writing
<1>7. filled' => program' # "writetest" /\ DeviceFull'
  BY <1>1, SameDevice DEF BenchInv
<1> QED
  BY <1>1, <1>3, <1>4, <1>5, <1>6, <1>7 DEF BenchInv

(* A channel that does not work is passed. *)
LEMMA BenchSkipChannel ==
  ASSUME BenchInv, SkipChannel
  PROVE  BenchInv'
<1>1. /\ program # "none" /\ pc = "main" /\ channel < nchannels /\ ~Working(channel)
      /\ channel' = channel + 1
      /\ UNCHANGED <<nvme0n1, program, pc, channels, end_size, start_size, i, pos, passes,
                     pages, clean, filled>>
  BY DEF SkipChannel, locals
<1>2. BenchTypes'
  BY <1>1, BenchNumbers DEF BenchInv, BenchTypes
<1>3. ChannelsPassed'
  <2>1. PICK n \in Nat : n = channel
    BY DEF BenchInv, BenchTypes
  <2>2. \A ch \in Channels : ch < n + 1 <=> ch < n \/ ch = n
    BY <2>1 DEF Channels
  <2>3. \A ch \in Channels : Working(ch)' <=> Working(ch)
    BY <1>1 DEF Working
  <2> QED
    BY <1>1, <2>1, <2>2, <2>3 DEF BenchInv, ChannelsPassed, Passed
<1>4. Nbytes' = Nbytes /\ (BlockFull => BlockFull')
  BY <1>1 DEF Nbytes, SizeOver, NumUnits, BlockFull, ChannelFull
<1>5. Sound'
  BY <1>1 DEF Sound, InTest
<1>6. program = "writetest" /\ clean => Writing'
  BY <1>1, <1>4, <1>5 DEF BenchInv, Writing
<1>7. filled => program # "writetest" /\ DeviceFull'
  BY <1>1, SameDevice DEF BenchInv
<1> QED
  BY <1>1, <1>2, <1>3, <1>5, <1>6, <1>7 DEF BenchInv

(* The channel main is at joins the virtual block. *)
LEMMA ChannelJoins ==
  ASSUME BenchInv, EnterTest \/ AllocVblkFails
  PROVE  /\ ChannelsPassed' /\ channels' \in Seq(WorkingChannels) /\ Nbytes' > 0
         /\ Nbytes' = SizeOver(channels')
<1>1. /\ program # "none" /\ pc = "main" /\ channel < nchannels /\ Working(channel)
      /\ channels' = Append(channels, channel)
      /\ pc' \in {"leave", "passes", "aborted"} /\ UNCHANGED <<nvme0n1, channel>>
  BY DEF EnterTest, AllocVblkFails
<1>2. /\ channels \in Seq(Channels) /\ Apart(channels) /\ Passed = channel
      /\ \A ch \in Channels :
            Working(ch) /\ ch < channel <=> \E k \in DOMAIN channels : channels[k] = ch
  BY <1>1 DEF BenchInv, ChannelsPassed, Passed
<1>3. channel \in Channels /\ channel \in Nat
  BY <1>1, BenchNumbers DEF BenchInv, BenchTypes, Channels
<1>4. PICK n \in Nat : n = Len(channels) /\ DOMAIN channels = 1 .. n
  BY <1>2, LenProperties
<1>5. /\ channels' \in Seq(Channels) /\ DOMAIN channels' = 1 .. n + 1 /\ Len(channels') = n + 1
      /\ channels'[n + 1] = channel /\ \A k \in 1 .. n : channels'[k] = channels[k]
  BY <1>1, <1>2, <1>3, <1>4, AppendProperties, LenProperties
<1>6. \A k \in 1 .. n + 1 : k \in 1 .. n \/ k = n + 1
  BY <1>4
<1>7. \A k \in 1 .. n : channels[k] \in Channels /\ channels[k] # channel /\ Working(channels[k])
  <2> SUFFICES ASSUME NEW k \in 1 .. n
               PROVE  channels[k] \in Channels /\ channels[k] # channel /\ Working(channels[k])
    OBVIOUS
  <2>1. PICK ch \in Channels : ch = channels[k]
    BY <1>2, <1>4
  <2>2. Working(ch) /\ ch < channel
    BY <1>2, <1>4, <2>1
  <2>3. ch # channel
    BY <1>3, <2>2 DEF Channels
  <2> QED
    BY <2>1, <2>2, <2>3
<1>8. Apart(channels)'
  <2>1. \A j, k \in 1 .. n : channels[j] = channels[k] => j = k
    BY <1>2, <1>4 DEF Apart
  <2> QED
    BY <1>5, <1>6, <1>7, <2>1 DEF Apart
<1>9. \A ch \in Channels : ch < channel + 1 <=> ch < channel \/ ch = channel
  BY <1>3 DEF Channels
<1>10. \A ch \in Channels :
         Working(ch) /\ ch < channel + 1 <=> \E k \in 1 .. n + 1 : channels'[k] = ch
  <2> SUFFICES ASSUME NEW ch \in Channels
               PROVE  Working(ch) /\ ch < channel + 1 <=> \E k \in 1 .. n + 1 : channels'[k] = ch
    OBVIOUS
  <2>1. n + 1 \in 1 .. n + 1 /\ \A k \in 1 .. n : k \in 1 .. n + 1
    BY <1>4
  <2>2. CASE ch = channel
    BY <1>1, <1>5, <1>9, <2>1, <2>2
  <2>3. CASE ch # channel
    <3>1. (\E k \in 1 .. n + 1 : channels'[k] = ch) <=> \E k \in 1 .. n : channels[k] = ch
      BY <1>5, <1>6, <2>1, <2>3
    <3> QED
      BY <1>2, <1>4, <1>9, <2>3, <3>1
  <2> QED
    BY <2>2, <2>3
<1>11. Passed' = channel + 1 /\ \A ch \in Channels : Working(ch)' <=> Working(ch)
  BY <1>1 DEF Passed, Working
<1>12. channels' # << >>
  BY <1>4, <1>5, EmptySeq
<1>13. ChannelsPassed'
  BY <1>5, <1>8, <1>10, <1>11, <1>12 DEF ChannelsPassed
<1>14. channels' \in Seq(WorkingChannels)
  <2>1. \A k \in 1 .. n + 1 : channels'[k] \in WorkingChannels
    BY <1>1, <1>3, <1>5, <1>6, <1>7 DEF WorkingChannels
  <2> QED
    BY <1>5, <2>1
<1> QED
  BY <1>5, <1>12, <1>13, <1>14, Sizing DEF Nbytes, SizeOver, NumUnits

(* test_vblk begins: after a write test without errors no block is too     *)
(* large for an int.                                                       *)
LEMMA BenchEnterTest ==
  ASSUME BenchInv, EnterTest
  PROVE  BenchInv'
<1>1. /\ program # "none" /\ pc = "main" /\ channel < nchannels
      /\ end_size' = ToInt(SizeOver(channels')) /\ start_size' = 1 /\ pos' = 0 /\ passes' = {}
      /\ pages' = IF program = "writetest" THEN PagesWith(channels', 0) ELSE pages
      /\ clean' = (clean /\ end_size' = SizeOver(channels'))
      /\ pc' = IF end_size' < 0 THEN "leave" ELSE "passes"
      /\ UNCHANGED <<nvme0n1, program, channel, i, filled>>
  BY DEF EnterTest
<1>2. /\ ChannelsPassed' /\ channels' \in Seq(WorkingChannels) /\ Nbytes' > 0
      /\ Nbytes' = SizeOver(channels')
  BY ChannelJoins
<1>3. channels' \in Seq(Channels) /\ Apart(channels') /\ SizeOver(channels') \in Nat
  <2>1. channels' \in Seq(Channels) /\ Apart(channels')
    BY <1>2 DEF ChannelsPassed, Apart
  <2> QED
    BY <2>1, Sizing
<1>4. /\ end_size' \in Int /\ end_size' <= IntMax
      /\ SizeOver(channels') <= IntMax => end_size' = SizeOver(channels')
  BY <1>1, <1>3, Stored
<1>5. clean' \in BOOLEAN /\ (clean' <=> clean /\ end_size' = SizeOver(channels'))
  BY <1>1
<1>6. BenchTypes'
  BY <1>1, <1>4, <1>5 DEF BenchInv, BenchTypes, Labels
<1>7. end_size' = SizeOver(channels') => pc' = "passes" /\ Sound'
  BY <1>1, <1>2, <1>3 DEF Sound, InTest
<1>8. program = "writetest" /\ clean' => Writing'
  BY <1>1, <1>2, <1>4, <1>5, <1>7 DEF Writing
<1>9. ASSUME filled PROVE program # "writetest" /\ DeviceFull' /\ DeviceFull /\ WorkingChannels' = WorkingChannels
  BY <1>1, <1>9, SameDevice DEF BenchInv
<1>10. ASSUME program = "readtest", filled PROVE clean' /\ Sound'
  <2>1. clean
    BY <1>10 DEF BenchInv
  <2>2. Cardinality(WorkingChannels) * nluns * npages <= IntMax
    BY <1>9, <1>10 DEF DeviceFull
  <2>3. SizeOver(channels') <= Cardinality(WorkingChannels) * nluns * npages
    BY <1>2, <1>3, BlockWithinDevice
  <2>4. Cardinality(WorkingChannels) * nluns * npages \in Nat
    <3>1. PICK w \in Nat, l \in Nat, m \in Nat :
            w = Cardinality(WorkingChannels) /\ l = nluns /\ m = npages
      BY AllFinite, FS_CardinalityType, BenchNumbers
    <3> QED
      BY <3>1
  <2>5. SizeOver(channels') <= IntMax
    BY <1>3, <2>2, <2>3, <2>4, BenchNumbers
  <2> QED
    BY <1>4, <1>5, <1>7, <2>1, <2>5
<1> QED
  BY <1>1, <1>2, <1>6, <1>8, <1>9, <1>10 DEF BenchInv

(* nvm_vblk_alloc returns NULL, and the program ends. *)
LEMMA BenchAllocVblkFails ==
  ASSUME BenchInv, AllocVblkFails
  PROVE  BenchInv'
<1>1. /\ program # "none" /\ pc = "main" /\ channel < nchannels /\ pc' = "aborted"
      /\ UNCHANGED <<nvme0n1, program, channel, end_size, start_size, i, pos, passes, pages,
                     clean, filled>>
  BY DEF AllocVblkFails, locals
<1>2. ChannelsPassed'
  BY ChannelJoins
<1>3. BenchTypes'
  BY <1>1 DEF BenchInv, BenchTypes, Labels
<1>4. Sound'
  BY <1>1 DEF Sound, InTest
<1>5. filled => program # "writetest" /\ DeviceFull'
  BY <1>1, SameDevice DEF BenchInv
<1> QED
  BY <1>1, <1>2, <1>3, <1>4, <1>5 DEF BenchInv

(* The pages PagesWith leaves are the first ones of the virtual block. *)
LEMMA WrittenNow ==
  ASSUME ChannelsPassed, channels' = channels, pages' = PagesWith(channels, pos')
  PROVE  WrittenTo(pos)'
<1>1. channels \in Seq(Channels) /\ Apart(channels)
  BY DEF ChannelsPassed
<1>2. \A n \in UnitNumbers(channels) :
        pages'[Unit(channels, n)[1]][Unit(channels, n)[2]] = Share(channels, pos', n)
  BY <1>1, PagesOnUnit
<1> QED
  BY <1>2 DEF WrittenTo, UnitNumbers, NumUnits, Unit, Share

(* The numbers of requests of one size. *)
LEMMA Multiples ==
  ASSUME NEW s \in Nat \ {0}, NEW e \in Nat, e % s = 0, NEW k \in Nat
  PROVE  /\ e \div s \in Nat /\ (k + 1) * s = k * s + s
         /\ k < e \div s => k * s + s <= e
         /\ k = e \div s => k * s = e
<1>1. PICK q \in Nat : q = e \div s /\ e = s * q
  BY Parts
<1>2. k < q => k * s + s <= s * q
  <2> SUFFICES ASSUME k < q PROVE k * s + s <= s * q
    OBVIOUS
  <2>1. PICK d \in Nat : q = k + 1 + d
    <3>1. q - (k + 1) \in Nat /\ q = k + 1 + (q - (k + 1))
      BY <1>1
    <3> QED
      BY <3>1
  <2>2. s * (k + 1 + d) = s * k + s + s * d /\ s * d \in Nat /\ s * k \in Nat
    BY <2>1, Beyond
  <2>3. s * k = k * s
    OBVIOUS
  <2> QED
    BY <2>1, <2>2, <2>3
<1>3. (k + 1) * s = k * s + s /\ (k = q => k * s = s * q)
  OBVIOUS
<1> QED
  BY <1>1, <1>2, <1>3

(* A pass has room for each of its requests, and fills the block. *)
LEMMA RequestFits ==
  ASSUME InPass, end_size \in Int, start_size \in Int
  PROVE  /\ end_size \div start_size \in Nat /\ i \in Nat /\ pos \in Nat /\ pos + start_size \in Nat
         /\ (i + 1) * start_size = pos + start_size
         /\ i < end_size \div start_size =>
              i + 1 \in 0 .. end_size \div start_size /\ pos + start_size <= end_size
         /\ i = end_size \div start_size => pos = end_size
<1>1. PICK s \in Nat \ {0}, e \in Nat : s = start_size /\ e = end_size /\ e % s = 0
  <2>1. start_size \in Nat \ {0} /\ end_size \in Nat /\ end_size % start_size = 0
    BY DEF InPass
  <2> QED
    BY <2>1
<1>2. PICK q \in Nat : q = e \div s
  BY <1>1, Parts
<1>3. PICK k \in Nat : k = i /\ k <= q /\ pos = k * s
  BY <1>1, <1>2 DEF InPass
<1>4. PICK x \in Nat : x = k * s
  BY <1>1, <1>3
<1>5. (k + 1) * s = x + s /\ (k < q => x + s <= e) /\ (k = q => x = e)
  BY <1>1, <1>2, <1>3, <1>4, Multiples
<1>6. k < q => k + 1 \in 0 .. q
  BY <1>2, <1>3
<1>7. x + s \in Nat
  BY <1>1, <1>4
<1> QED
  BY <1>1, <1>2, <1>3, <1>4, <1>5, <1>6, <1>7, Zenon

(* The loop goes on with a size that divides the block: neither one that   *)
(* has overflowed nor one for a block too large for an int.                *)
LEMMA PassDivides ==
  ASSUME BenchInv, Measuring, pc = "passes", AnotherPass
  PROVE  /\ start_size \in 1 .. end_size /\ end_size % start_size = 0
         /\ Nbytes <= IntMax /\ end_size = Nbytes /\ Doubling
<1>1. channels \in Seq(Channels)
  BY DEF BenchInv, BenchTypes, ChannelsPassed
<1>2. PICK n \in Nat : n = Nbytes /\ (n > IntMax \/ n <= IntMax)
  BY <1>1, Sizing, BenchNumbers DEF Nbytes
<1>3. PICK s \in Int, e \in Int : s = start_size /\ e = end_size /\ s <= e
  BY DEF BenchInv, BenchTypes, AnotherPass
<1>4. n <= IntMax
  BY <1>2, <1>3 DEF Measuring
<1>5. end_size = Nbytes /\ Doubling
  BY <1>2, <1>4 DEF Measuring, Overflowed
<1>6. s \in 1 .. e
  BY <1>3, <1>5 DEF Doubling
<1>7. Magnitude(start_size) = start_size
  BY <1>3, <1>6 DEF Magnitude
<1> QED
  BY <1>2, <1>3, <1>4, <1>5, <1>6, <1>7 DEF AnotherPass

(* The block is erased before a pass of writes. *)
LEMMA BenchBeginPass ==
  ASSUME BenchInv, Measuring, BeginPass
  PROVE  BenchInv'
<1>1. /\ pc = "passes" /\ pc' = "requests" /\ AnotherPass /\ i' = 0 /\ pos' = 0
      /\ pages' = IF program = "writetest" THEN PagesWith(channels, 0) ELSE pages
      /\ UNCHANGED <<nvme0n1, program, channel, channels, end_size, start_size, passes, clean, filled>>
  BY DEF BeginPass
<1>2. program # "none" /\ ChannelsPassed
  BY <1>1 DEF BenchInv, BenchTypes
<1>3. BenchTypes'
  BY <1>1 DEF BenchInv, BenchTypes, Labels
<1>4. Passed' = Passed
  BY <1>1 DEF Passed
<1>5. ChannelsPassed' /\ Nbytes' = Nbytes
  BY <1>1, <1>2, <1>4, SameChannels
<1>6. InPass'
  <2>1. start_size \in 1 .. end_size /\ end_size % start_size = 0
    BY <1>1, PassDivides
  <2>2. PICK s \in Nat \ {0}, e \in Nat : s = start_size /\ e = end_size
    BY <2>1 DEF BenchInv, BenchTypes
  <2>3. 0 \in 0 .. e \div s /\ 0 = 0 * s
    BY <2>2, Parts
  <2> QED
    BY <1>1, <2>1, <2>2, <2>3 DEF InPass
<1>7. Sound => Sound'
  BY <1>1, <1>5, <1>6 DEF Sound, InTest
<1>8. ASSUME program = "writetest", clean PROVE Writing'
  <2>1. Writing
    BY <1>1, <1>8 DEF BenchInv
  <2>2. WrittenTo(pos)'
    BY <1>1, <1>2, <1>8, WrittenNow
  <2> QED
    BY <1>1, <1>5, <1>7, <2>1, <2>2 DEF Writing
<1>9. filled => program # "writetest" /\ DeviceFull'
  BY <1>1, SameDevice DEF BenchInv
<1> QED
  BY <1>1, <1>3, <1>5, <1>7, <1>8, <1>9 DEF BenchInv

(* A write goes on where the one before it ended. *)
LEMMA BenchWrite ==
  ASSUME BenchInv, Write
  PROVE  BenchInv'
<1>1. /\ program = "writetest" /\ pc = "requests" /\ i < end_size \div start_size
      /\ pages' = PagesWith(channels, pos') /\ pos' = pos + start_size /\ i' = i + 1
      /\ UNCHANGED <<nvme0n1, program, pc, channel, channels, end_size, start_size, passes, clean, filled>>
  BY DEF Write, InRequests
<1>2. ChannelsPassed
  BY <1>1 DEF BenchInv
<1>3. BenchTypes'
  BY <1>1 DEF BenchInv, BenchTypes
<1>4. Passed' = Passed
  BY <1>1 DEF Passed
<1>5. ChannelsPassed' /\ Nbytes' = Nbytes
  BY <1>1, <1>2, <1>4, SameChannels
<1>6. ASSUME clean PROVE Writing'
  <2>1. Writing /\ InPass
    BY <1>1, <1>6 DEF BenchInv, Writing, Sound
  <2>2. /\ i + 1 \in 0 .. end_size \div start_size /\ pos + start_size = (i + 1) * start_size
    BY <1>1, <2>1, RequestFits DEF BenchInv, BenchTypes
  <2>3. InPass'
    BY <1>1, <2>1, <2>2 DEF InPass
  <2>4. Sound'
    BY <1>1, <1>5, <2>1, <2>3 DEF Writing, Sound, InTest
  <2>5. WrittenTo(pos)'
    BY <1>1, <1>2, WrittenNow
  <2> QED
    BY <1>1, <1>5, <2>1, <2>4, <2>5 DEF Writing
<1>7. ~filled
  BY <1>1 DEF BenchInv
<1> QED
  BY <1>1, <1>3, <1>5, <1>6, <1>7 DEF BenchInv

(* So does a read. *)
LEMMA BenchRead ==
  ASSUME BenchInv, Read
  PROVE  BenchInv'
<1>1. /\ program = "readtest" /\ pc = "requests" /\ i < end_size \div start_size
      /\ pos' = pos + start_size /\ i' = i + 1
      /\ UNCHANGED <<nvme0n1, program, pc, channel, channels, end_size, start_size, passes, pages, clean, filled>>
  BY DEF Read, InRequests
<1>2. ChannelsPassed
  BY <1>1 DEF BenchInv
<1>3. BenchTypes'
  BY <1>1 DEF BenchInv, BenchTypes
<1>4. Passed' = Passed
  BY <1>1 DEF Passed
<1>5. ChannelsPassed' /\ Nbytes' = Nbytes
  BY <1>1, <1>2, <1>4, SameChannels
<1>6. ASSUME filled PROVE clean /\ Sound'
  <2>1. clean /\ Sound /\ InPass
    BY <1>1, <1>6 DEF BenchInv, Sound
  <2>2. /\ i + 1 \in 0 .. end_size \div start_size /\ pos + start_size = (i + 1) * start_size
    BY <1>1, <2>1, RequestFits DEF BenchInv, BenchTypes
  <2>3. InPass'
    BY <1>1, <2>1, <2>2 DEF InPass
  <2> QED
    BY <1>1, <1>5, <2>1, <2>3 DEF Sound, InTest
<1>7. filled => DeviceFull'
  BY <1>1, SameDevice DEF BenchInv
<1> QED
  BY <1>1, <1>3, <1>5, <1>6, <1>7 DEF BenchInv

(* A read of a written block does not fail. *)
LEMMA BenchRequestFails ==
  ASSUME BenchInv, RequestFails
  PROVE  BenchInv'
<1>1. /\ pc = "requests" /\ i < end_size \div start_size /\ i' = i + 1 /\ clean' = FALSE
      /\ program = "writetest" \/ pos + start_size > Nbytes \/ ~Readable(pos + start_size)
      /\ UNCHANGED <<nvme0n1, program, pc, channel, channels, end_size, start_size, pos, passes, pages, filled>>
  BY DEF RequestFails, InRequests
<1>2. program # "none" /\ ChannelsPassed
  BY <1>1 DEF BenchInv, BenchTypes
<1>3. BenchTypes'
  <2>1. PICK n \in Int : n = i
    BY DEF BenchInv, BenchTypes
  <2>2. n + 1 \in Int
    BY <2>1
  <2> QED
    BY <1>1, <2>1, <2>2, Zenon DEF BenchInv, BenchTypes
<1>4. Passed' = Passed
  BY <1>1 DEF Passed
<1>5. ChannelsPassed'
  BY <1>1, <1>2, <1>4, SameChannels
<1>6. ASSUME program = "readtest", filled PROVE FALSE
  <2>1. DeviceFull /\ InPass /\ end_size = Nbytes
    BY <1>1, <1>6 DEF BenchInv, Sound, InTest
  <2>2. pos + start_size \in Nat /\ pos + start_size <= Nbytes
    BY <1>1, <2>1, RequestFits DEF BenchInv, BenchTypes
  <2>3. channels \in Seq(Channels) /\ \A k \in DOMAIN channels : ChannelFull(channels[k])
    <3>1. channels \in Seq(Channels)
      BY <1>2 DEF ChannelsPassed
    <3>2. \A k \in DOMAIN channels : channels[k] \in Channels
      BY <3>1, LenProperties
    <3>3. \A k \in DOMAIN channels : Working(channels[k])
      BY <1>2, <3>2, Zenon DEF ChannelsPassed
    <3> QED
      BY <2>1, <3>1, <3>2, <3>3, Zenon DEF DeviceFull, WorkingChannels
  <2>4. Readable(pos + start_size)
    BY <2>2, <2>3, ReadableWithin
  <2>5. Nbytes \in Nat
    BY <2>3, Sizing DEF Nbytes
  <2>6. ~(pos + start_size > Nbytes)
    BY <2>2, <2>5
  <2> QED
    BY <1>1, <1>6, <2>4, <2>6
<1>7. filled => program # "writetest" /\ DeviceFull'
  BY <1>1, SameDevice DEF BenchInv
<1> QED
  BY <1>1, <1>3, <1>5, <1>6, <1>7 DEF BenchInv

(* A pass of writes without errors has filled the block. *)
LEMMA BenchEndPass ==
  ASSUME BenchInv, EndPass
  PROVE  BenchInv'
<1>1. /\ pc = "requests" /\ i = end_size \div start_size
      /\ passes' = passes \cup {start_size} /\ start_size' = Doubled
      /\ pc' = IF program = "writetest" /\ pos # end_size THEN "aborted" ELSE "passes"
      /\ UNCHANGED <<nvme0n1, program, channel, channels, end_size, i, pos, pages, clean, filled>>
  BY DEF EndPass
<1>2. program # "none" /\ ChannelsPassed /\ pc' # "main"
  BY <1>1 DEF BenchInv, BenchTypes
<1>3. BenchTypes'
  <2>1. start_size' \in Int
    <3>1. 2 * start_size \in Int
      BY DEF BenchInv, BenchTypes
    <3> QED
      BY <1>1, <3>1, StoredIsInt DEF Doubled
  <2> QED
    BY <1>1, <2>1 DEF BenchInv, BenchTypes, Labels
<1>4. Passed' = Passed
  BY <1>1, <1>2 DEF Passed
<1>5. ChannelsPassed' /\ Nbytes' = Nbytes
  BY <1>1, <1>2, <1>4, SameChannels
<1>6. Sound => Sound'
  BY <1>1, <1>5 DEF Sound, InTest
<1>7. ASSUME program = "writetest", clean PROVE Writing'
  <2>1. Writing /\ InPass /\ end_size = Nbytes /\ WrittenTo(pos)
    BY <1>1, <1>7 DEF BenchInv, Writing, Sound, InTest
  <2>2. pos = Nbytes
    BY <1>1, <2>1, RequestFits DEF BenchInv, BenchTypes
  <2>3. BlockFull
    BY <1>2, <2>1, <2>2, WholeBlockFull DEF ChannelsPassed
  <2>4. BlockFull' /\ passes' # {} /\ pc' = "passes"
    BY <1>1, <2>1, <2>2, <2>3 DEF BlockFull, ChannelFull
  <2> QED
    BY <1>5, <1>6, <2>1, <2>4 DEF Writing
<1>8. filled => program # "writetest" /\ DeviceFull'
  BY <1>1, SameDevice DEF BenchInv
<1> QED
  BY <1>1, <1>3, <1>5, <1>6, <1>7, <1>8 DEF BenchInv

(* There has been a pass: requests of one unit always divide the block. *)
LEMMA BenchEndPasses ==
  ASSUME BenchInv, EndPasses
  PROVE  BenchInv'
<1>1. /\ pc = "passes" /\ ~AnotherPass /\ pc' = "leave"
      /\ UNCHANGED <<nvme0n1, program, channel, channels, end_size, start_size, i, pos, passes, pages, clean, filled>>
  BY DEF EndPasses, locals
<1>2. program # "none" /\ ChannelsPassed
  BY <1>1 DEF BenchInv, BenchTypes
<1>3. BenchTypes'
  BY <1>1 DEF BenchInv, BenchTypes, Labels
<1>4. Passed' = Passed
  BY <1>1 DEF Passed
<1>5. ChannelsPassed' /\ Nbytes' = Nbytes
  BY <1>1, <1>2, <1>4, SameChannels
<1>6. Sound => Sound'
  BY <1>1, <1>5 DEF Sound, InTest
<1>7. ASSUME program = "writetest", clean PROVE Writing'
  <2>1. Writing /\ end_size = Nbytes
    BY <1>1, <1>7 DEF BenchInv, Writing, Sound, InTest
  <2>2. passes # {}
    <3> SUFFICES ASSUME passes = {} PROVE FALSE
      OBVIOUS
    <3>1. start_size = 1
      BY <1>1, <2>1 DEF Writing
    <3>2. PICK n \in Nat : n = Nbytes /\ n > 0
      BY <1>1, <1>2, Sizing DEF ChannelsPassed, Nbytes
    <3>3. 1 <= n /\ n % Magnitude(1) = 0
      BY <3>2 DEF Magnitude
    <3> QED
      BY <1>1, <2>1, <3>1, <3>2, <3>3 DEF AnotherPass
  <2>3. BlockFull'
    BY <1>1, <2>1, <2>2 DEF Writing, BlockFull, ChannelFull
  <2> QED
    BY <1>1, <1>5, <1>6, <2>1, <2>3 DEF Writing
<1>8. filled => program # "writetest" /\ DeviceFull'
  BY <1>1, SameDevice DEF BenchInv
<1> QED
  BY <1>1, <1>3, <1>5, <1>6, <1>7, <1>8 DEF BenchInv

(* main goes on to the next channel. *)
LEMMA BenchLeaveTest ==
  ASSUME BenchInv, LeaveTest
  PROVE  BenchInv'
<1>1. /\ pc = "leave" /\ pc' = "main" /\ channel' = channel + 1
      /\ UNCHANGED <<nvme0n1, program, channels, end_size, start_size, i, pos, passes, pages, clean, filled>>
  BY DEF LeaveTest, locals
<1>2. program # "none" /\ ChannelsPassed
  BY <1>1 DEF BenchInv, BenchTypes
<1>3. BenchTypes'
  BY <1>1, BenchNumbers DEF BenchInv, BenchTypes, Labels
<1>4. Passed' = Passed
  BY <1>1 DEF Passed
<1>5. ChannelsPassed' /\ Nbytes' = Nbytes
  BY <1>1, <1>2, <1>4, SameChannels
<1>6. Sound'
  BY <1>1 DEF Sound, InTest
<1>7. ASSUME program = "writetest", clean PROVE Writing'
  <2>1. Writing
    BY <1>1, <1>7 DEF BenchInv
  <2>2. BlockFull'
    BY <1>1, <2>1 DEF Writing, BlockFull, ChannelFull
  <2> QED
    BY <1>1, <1>5, <1>6, <2>1, <2>2 DEF Writing
<1>8. filled => program # "writetest" /\ DeviceFull'
  BY <1>1, SameDevice DEF BenchInv
<1> QED
  BY <1>1, <1>3, <1>5, <1>6, <1>7, <1>8 DEF BenchInv

(* The last virtual block of a write test was made of all channels. *)
LEMMA BenchExit ==
  ASSUME BenchInv, Exit
  PROVE  BenchInv'
<1>1. /\ program # "none" /\ program' = "none" /\ pc' = "main"
      /\ pc = "aborted" \/ (pc = "main" /\ channel = nchannels)
      /\ filled' = IF program = "writetest" THEN clean /\ pc = "main" ELSE filled
      /\ UNCHANGED <<nvme0n1, channel, channels, end_size, start_size, i, pos, passes, pages, clean>>
  BY DEF Exit, locals
<1>2. ChannelsPassed
  BY <1>1 DEF BenchInv
<1>3. BenchTypes'
  <2>1. filled' \in BOOLEAN
    BY <1>1, Zenon DEF BenchInv, BenchTypes
  <2> QED
    BY <1>1, <2>1 DEF BenchInv, BenchTypes, Labels
<1>4. DeviceFull' <=> DeviceFull
  BY <1>1, SameDevice
<1>5. ASSUME program = "writetest", clean, pc = "main" PROVE DeviceFull
  <2>1. Writing /\ BlockFull /\ Nbytes <= IntMax /\ channel = nchannels
    BY <1>1, <1>5 DEF BenchInv, Writing
  <2>2. \A ch \in WorkingChannels : \E k \in DOMAIN channels : channels[k] = ch
    <3> SUFFICES ASSUME NEW ch \in WorkingChannels PROVE \E k \in DOMAIN channels : channels[k] = ch
      OBVIOUS
    <3>1. ch \in Channels /\ Working(ch)
      BY DEF WorkingChannels
    <3>2. ch < Passed
      BY <1>5, <2>1, <3>1, BenchNumbers DEF Passed, Channels
    <3> QED
      BY <1>2, <3>1, <3>2 DEF ChannelsPassed
  <2>3. \A ch \in WorkingChannels : ChannelFull(ch)
    BY <2>1, <2>2, Zenon DEF BlockFull
  <2>4. channels \in Seq(Channels)
    BY <1>2 DEF ChannelsPassed
  <2>5. Cardinality(WorkingChannels) * nluns * npages <= Nbytes
    BY <2>2, <2>4, DeviceWithinBlock DEF Nbytes
  <2>6. PICK w \in Nat, l \in Nat, m \in Nat :
          w = Cardinality(WorkingChannels) /\ l = nluns /\ m = npages
    BY AllFinite, FS_CardinalityType, BenchNumbers
  <2>7. PICK n \in Nat : n = Nbytes
    BY <2>4, Sizing DEF Nbytes
  <2>8. w * l * m \in Nat
    BY <2>6
  <2>9. w * l * m <= IntMax
    BY <2>1, <2>5, <2>6, <2>7, <2>8, BenchNumbers
  <2> QED
    BY <2>3, <2>6, <2>9 DEF DeviceFull
<1>6. filled' => DeviceFull
  BY <1>1, <1>5 DEF BenchInv
<1> QED
  BY <1>1, <1>3, <1>4, <1>6 DEF BenchInv

(* A step that changes nothing. *)
LEMMA BenchStutter ==
  ASSUME BenchInv, UNCHANGED vars
  PROVE  BenchInv'
<1>1. UNCHANGED <<nvme0n1, program, pc, channel, channels, end_size, start_size, i, pos, passes,
                  pages, clean, filled>>
  BY DEF vars, locals
<1>2. BenchTypes' <=> BenchTypes
  BY <1>1 DEF BenchTypes
<1>3. ChannelsPassed => ChannelsPassed'
  BY <1>1, SameChannels DEF Passed
<1>4. Nbytes' = Nbytes /\ (BlockFull => BlockFull') /\ (WrittenTo(pos) => WrittenTo(pos)')
  BY <1>1 DEF Nbytes, SizeOver, NumUnits, BlockFull, ChannelFull, WrittenTo, UnitNumbers, Unit, Share
<1>5. Sound => Sound'
  BY <1>1, <1>4 DEF Sound, InTest, InPass
<1>6. Writing => Writing'
  BY <1>1, <1>4, <1>5 DEF Writing
<1> QED
  BY <1>1, <1>2, <1>3, <1>5, <1>6, SameDevice DEF BenchInv

(* Every step of the programs keeps the invariant. *)
LEMMA BenchStep == BenchInv /\ Measuring /\ [Next]_vars => BenchInv'
<1> SUFFICES ASSUME BenchInv, Measuring, [Next]_vars PROVE BenchInv'
  OBVIOUS
<1>1. CASE \E p \in {"writetest", "readtest"} : Start(p)
  BY <1>1, BenchStart
<1>2. CASE SkipChannel
  BY <1>2, BenchSkipChannel
<1>3. CASE EnterTest
  BY <1>3, BenchEnterTest
<1>4. CASE BeginPass
  BY <1>4, BenchBeginPass
<1>5. CASE Write
  BY <1>5, BenchWrite
<1>6. CASE Read
  BY <1>6, BenchRead
<1>7. CASE RequestFails
  BY <1>7, BenchRequestFails
<1>8. CASE EndPass
  BY <1>8, BenchEndPass
<1>9. CASE EndPasses
  BY <1>9, BenchEndPasses
<1>10. CASE LeaveTest
  BY <1>10, BenchLeaveTest
<1>11. CASE Exit
  BY <1>11, BenchExit
<1>12. CASE UNCHANGED vars
  BY <1>12, BenchStutter
<1>13. CASE AllocVblkFails
  BY <1>13, BenchAllocVblkFails
<1> QED
  BY <1>1, <1>2, <1>3, <1>4, <1>5, <1>6, <1>7, <1>8, <1>9, <1>10, <1>11, <1>12, <1>13
     DEF Next, Step

-----------------------------------------------------------------------------
(* Divisors                                                                *)

(* A number that is divided is a multiple, and the other way round. *)
LEMMA Multiple ==
  ASSUME NEW R \in Nat \ {0}, NEW x \in Nat
  PROVE  /\ x % R = 0 => \E q \in Nat : x = R * q
         /\ \A q \in Nat : x = R * q => x % R = 0
<1>1. x % R = 0 => \E q \in Nat : x = R * q
  <2>1. x \div R \in Nat /\ x = (x % R) + R * (x \div R)
    BY Parts
  <2>2. PICK q \in Nat : q = x \div R /\ x = (x % R) + R * q
    BY <2>1
  <2>3. x % R = 0 => x = R * q
    BY <2>2
  <2> QED
    BY <2>3
<1>2. ASSUME NEW q \in Nat, x = R * q PROVE x % R = 0
  <2>1. 0 \in 0 .. R - 1 /\ (0 + R * q) % R = 0
    BY PartsOf
  <2>2. 0 + R * q = x
    BY <1>2
  <2> QED
    BY <2>1, <2>2, Zenon
<1> QED
  BY <1>1, <1>2

(* Products. *)
LEMMA Regroup ==
  ASSUME NEW a \in Nat, NEW p \in Nat, NEW q \in Nat
  PROVE  (a * p) * q = a * (p * q) /\ p * q \in Nat /\ p * q = q * p
OBVIOUS

(* A divisor of a divisor of a number divides it. *)
LEMMA DividesOn ==
  ASSUME NEW a \in Nat \ {0}, NEW b \in Nat \ {0}, NEW c \in Nat, b % a = 0, c % b = 0
  PROVE  c % a = 0
<1>1. PICK p \in Nat : b = a * p
  BY Multiple
<1>2. PICK q \in Nat : c = b * q
  BY Multiple
<1>3. c = a * (p * q) /\ p * q \in Nat
  BY <1>1, <1>2, Regroup
<1> QED
  BY <1>3, Multiple

(* A divisor is no larger than its number. *)
LEMMA DivisorBelow ==
  ASSUME NEW a \in Nat \ {0}, NEW b \in Nat \ {0}, b % a = 0
  PROVE  a <= b
<1>1. PICK p \in Nat : b = a * p
  BY Multiple
<1>2. PICK q \in Nat : p = q + 1
  <2>1. p # 0
    BY <1>1
  <2>2. p - 1 \in Nat /\ p = (p - 1) + 1
    BY <1>1, <2>1
  <2> QED
    BY <2>2
<1>3. a * (q + 1) = a * q + a /\ a * q \in Nat
  BY <1>2
<1> QED
  BY <1>1, <1>2, <1>3

(* The double of a power of two is one. *)
LEMMA DoubleIsPower ==
  ASSUME NEW s \in Nat \ {0}, PowerOfTwo(s)
  PROVE  PowerOfTwo(2 * s)
<1> SUFFICES ASSUME NEW d \in 2 .. 2 * s, (2 * s) % d = 0, d % 2 # 0 PROVE FALSE
  BY DEF PowerOfTwo
<1>1. d \in Nat \ {0} /\ 2 * s \in Nat /\ d > 1
  OBVIOUS
<1>2. PICK q \in Nat : 2 * s = d * q
  BY <1>1, Multiple
<1>3. PICK h \in Nat : d = 1 + 2 * h
  <2>1. d % 2 \in 0 .. 1 /\ d \div 2 \in Nat /\ d = (d % 2) + 2 * (d \div 2)
    BY <1>1, Parts
  <2>2. d % 2 = 1
    BY <2>1
  <2> QED
    BY <2>1, <2>2
<1>4. PICK r \in Nat : q = 2 * r
  <2>1. q \div 2 \in Nat /\ q % 2 \in 0 .. 1 /\ q = (q % 2) + 2 * (q \div 2)
    BY Parts
  <2>2. PICK g \in Nat : g = h * q /\ d * q = q + 2 * g
    BY <1>3
  <2>3. PICK k \in Nat, b \in 0 .. 1 : k = q \div 2 /\ b = q % 2 /\ q = b + 2 * k
    BY <2>1
  <2>4. 2 * s = q + 2 * g
    BY <1>2, <2>2
  <2>5. b = 0
    BY <2>2, <2>3, <2>4
  <2> QED
    BY <2>3, <2>5
<1>5. s = d * r
  <2>1. PICK x \in Nat : x = d * r
    BY <1>1
  <2>2. d * (2 * r) = 2 * x
    BY <1>1, <1>4, <2>1
  <2> QED
    BY <1>2, <1>4, <2>1, <2>2
<1>6. s % d = 0
  BY <1>1, <1>4, <1>5, Multiple
<1>7. d \in 2 .. s
  BY <1>1, <1>6, DivisorBelow
<1> QED
  BY <1>6, <1>7 DEF PowerOfTwo

(* A power of two above s that is a multiple of s is one of 2 * s. *)
LEMMA MultipleOfDouble ==
  ASSUME NEW s \in Nat \ {0}, NEW t \in Nat \ {0}, PowerOfTwo(t), t % s = 0, t # s
  PROVE  t % (2 * s) = 0
<1>1. PICK q \in Nat : t = s * q
  BY Multiple
<1>2. q # 0 /\ q # 1
  BY <1>1
<1>3. q \in Nat \ {0} /\ q > 1
  BY <1>1, <1>2
<1>4. t % q = 0
  <2>1. t = q * s
    BY <1>1, Regroup
  <2> QED
    BY <1>3, <2>1, Multiple
<1>5. q \in 2 .. t
  BY <1>3, <1>4, DivisorBelow
<1>6. q % 2 = 0
  BY <1>4, <1>5 DEF PowerOfTwo
<1>7. PICK h \in Nat : q = 2 * h
  BY <1>3, <1>6, Multiple
<1>8. t = (2 * s) * h /\ 2 * s \in Nat \ {0}
  <2>1. (s * 2) * h = s * (2 * h) /\ s * 2 = 2 * s
    BY <1>7, Regroup
  <2> QED
    BY <1>1, <1>7, <2>1
<1> QED
  BY <1>7, <1>8, Multiple

(* What an overflowing size becomes is not positive. *)
LEMMA Wrapped ==
  ASSUME NEW x \in Nat, x > IntMax, x <= 2 * (IntMax + 1)
  PROVE  ToInt(x) = x - 2 * (IntMax + 1)
<1>1. PICK M \in Nat \ {0} : M = IntMax
  BY BenchNumbers
<1>2. PICK B \in Nat \ {0} : B = 2 * (M + 1)
  BY <1>1
<1>3. PICK y \in Nat : y = x - M - 1 /\ y \in 0 .. B - 1
  BY <1>1, <1>2
<1>4. x + M + 1 = y + B * 1
  BY <1>1, <1>2, <1>3
<1>5. (x + M + 1) % B = y
  <2>1. 1 \in Nat /\ y \in 0 .. B - 1
    BY <1>3
  <2>2. (y + B * 1) % B = y
    BY <1>2, <2>1, PartsOf
  <2> QED
    BY <1>4, <2>2, Zenon
<1> QED
  BY <1>1, <1>2, <1>3, <1>5 DEF ToInt

(* Sizes are those of the virtual block. *)
LEMMA SizesOf ==
  ASSUME ChannelsPassed
  PROVE  /\ Nbytes \in Nat
         /\ \A t \in Sizes : /\ t \in Nat \ {0} /\ t <= Nbytes /\ PowerOfTwo(t) /\ Nbytes % t = 0
         /\ \A t \in Nat \ {0} : t <= Nbytes /\ PowerOfTwo(t) /\ Nbytes % t = 0 => t \in Sizes
<1>1. Nbytes \in Nat
  BY Sizing DEF ChannelsPassed, Nbytes
<1> QED
  BY <1>1 DEF Sizes

(* When no further pass is made, every size has had one. *)
LEMMA NoneLeft ==
  ASSUME ChannelsPassed, Doubling, end_size = Nbytes, ~AnotherPass
  PROVE  passes = Sizes
<1> SUFFICES ASSUME NEW t \in Sizes, t \notin passes PROVE FALSE
  BY DEF Doubling
<1>1. Nbytes \in Nat /\ t \in Nat \ {0} /\ t <= Nbytes /\ Nbytes % t = 0
  BY SizesOf
<1>2. start_size \in Nat \ {0} /\ t % start_size = 0
  BY DEF Doubling
<1>3. start_size <= t /\ Nbytes % start_size = 0
  BY <1>1, <1>2, DivisorBelow, DividesOn
<1>4. start_size <= Nbytes /\ Magnitude(start_size) = start_size
  BY <1>1, <1>2, <1>3 DEF Magnitude
<1> QED
  BY <1>3, <1>4 DEF AnotherPass

(* Of a size whose double overflows, what the double becomes is no         *)
(* divisor: IntMax + 1 would have an odd one.                              *)
LEMMA NoDivisor ==
  ASSUME NEW s \in Nat \ {0}, s <= IntMax, NEW d \in Nat \ {0}, d = IntMax + 1 - s
  PROVE  s % (2 * d) # 0
<1> SUFFICES ASSUME s % (2 * d) = 0 PROVE FALSE
  OBVIOUS
<1>1. PICK M \in Nat : M = IntMax /\ M + 1 = s + d
  BY BenchNumbers
<1>2. PICK q \in Nat : s = (2 * d) * q
  <2>1. 2 * d \in Nat \ {0}
    OBVIOUS
  <2> QED
    BY <2>1, Multiple
<1>3. q # 0
  BY <1>2
<1>4. PICK o \in Nat : o = 2 * q + 1 /\ o > 1 /\ o % 2 # 0
  BY <1>2, <1>3
<1>5. M + 1 = o * d
  <2>1. (2 * d) * q = (2 * q) * d
    BY <1>2
  <2>2. (2 * q + 1) * d = (2 * q) * d + d
    BY <1>2
  <2> QED
    BY <1>1, <1>2, <1>4, <2>1, <2>2
<1>6. (M + 1) % o = 0 /\ M + 1 \in Nat \ {0} /\ o \in Nat \ {0}
  <2>1. M + 1 \in Nat \ {0} /\ o \in Nat \ {0}
    BY <1>1, <1>4
  <2>2. d \in Nat
    OBVIOUS
  <2> QED
    BY <1>5, <2>1, <2>2, Multiple, Zenon
<1>7. o \in 2 .. M + 1
  BY <1>4, <1>6, DivisorBelow
<1> QED
  BY <1>1, <1>4, <1>6, <1>7, IntAssumption DEF PowerOfTwo

(* After a pass the next size is the double, if an int can hold it. *)
LEMMA NextSize ==
  ASSUME ChannelsPassed, Doubling, start_size \in Sizes, Nbytes <= IntMax,
         Sizes' = Sizes, passes' = passes \cup {start_size}, start_size' = Doubled,
         end_size' = Nbytes
  PROVE  Doubling' \/ Overflowed'
<1>1. /\ Nbytes \in Nat /\ start_size \in Nat \ {0} /\ start_size <= Nbytes
      /\ PowerOfTwo(start_size)
  BY SizesOf
<1>2. PICK s \in Nat \ {0}, M \in Nat : s = start_size /\ M = IntMax /\ s <= M
  BY <1>1, BenchNumbers
<1>3. passes' \in SUBSET Sizes
  BY DEF Doubling
<1>4. \A t \in Sizes : t \in passes' \/ t % (2 * s) = 0
  <2> SUFFICES ASSUME NEW t \in Sizes, t \notin passes' PROVE t % (2 * s) = 0
    OBVIOUS
  <2>1. t # s /\ t % s = 0
    BY <1>2 DEF Doubling
  <2>2. t \in Nat \ {0} /\ PowerOfTwo(t)
    BY SizesOf
  <2> QED
    BY <1>2, <2>1, <2>2, MultipleOfDouble
<1>5. 2 * s \in Nat \ {0} /\ start_size' = ToInt(2 * s)
  BY <1>2 DEF Doubled
<1>6. CASE 2 * s <= M
  <2>1. start_size' = 2 * s
    BY <1>2, <1>5, <1>6, Stored
  <2>2. PowerOfTwo(2 * s)
    BY <1>1, <1>2, DoubleIsPower
  <2>3. PowerOfTwo(start_size)'
    BY <2>1, <2>2 DEF PowerOfTwo
  <2> QED
    BY <1>3, <1>4, <1>5, <2>1, <2>3 DEF Doubling
<1>7. CASE 2 * s > M
  <2>1. 2 * s <= 2 * (M + 1) /\ 2 * s - 2 * (M + 1) < 0
    BY <1>2
  <2>2. start_size' = 2 * s - 2 * (M + 1)
    BY <1>2, <1>5, <1>7, <2>1, Wrapped
  <2>3. \A t \in Sizes : t \in passes'
    <3> SUFFICES ASSUME NEW t \in Sizes, t \notin passes' PROVE FALSE
      OBVIOUS
    <3>1. t % (2 * s) = 0
      BY <1>4
    <3>2. t \in Nat \ {0} /\ t <= Nbytes
      BY SizesOf
    <3>3. 2 * s <= t
      BY <1>5, <3>1, <3>2, DivisorBelow
    <3> QED
      BY <1>1, <1>2, <1>7, <3>2, <3>3
  <2>4. end_size' = s
    <3>1. PICK q \in Nat : Nbytes = s * q
      BY <1>1, <1>2, SizesOf, Multiple
    <3>2. q = 1
      <4>1. CASE q = 0
        BY <1>1, <1>2, <3>1, <4>1
      <4>2. CASE q > 1
        <5>1. PICK r \in Nat : q = r + 2
          <6>1. q - 2 \in Nat /\ q = (q - 2) + 2
            BY <3>1, <4>2
          <6> QED
            BY <6>1
        <5>2. s * (r + 2) = s * r + 2 * s /\ s * r \in Nat
          BY <1>2, <5>1
        <5> QED
          BY <1>1, <1>2, <1>7, <3>1, <5>1, <5>2
      <4> QED
        BY <3>1, <4>1, <4>2
    <3> QED
      BY <1>2, <3>1, <3>2
  <2>5. PICK d \in Nat \ {0} : d = M + 1 - s /\ start_size' = 0 - 2 * d
    BY <1>2, <2>2
  <2>6. s % (2 * d) # 0
    BY <1>2, <2>5, NoDivisor
  <2>7. Magnitude(start_size') = 2 * d
    BY <2>5 DEF Magnitude
  <2>8. ~AnotherPass'
    BY <2>4, <2>6, <2>7 DEF AnotherPass, Magnitude
  <2> QED
    BY <1>3, <2>1, <2>2, <2>3, <2>8 DEF Overflowed
<1> QED
  BY <1>2, <1>6, <1>7

(* A step that leaves the virtual block and its passes alone. *)
LEMMA SameSizes ==
  ASSUME channels' = channels
  PROVE  Nbytes' = Nbytes /\ Sizes' = Sizes
BY DEF Sizes, Nbytes, SizeOver, NumUnits, PowerOfTwo

(* The virtual block is no larger than an unsigned int can say. *)
LEMMA FitsUnsigned ==
  ASSUME NEW chs \in Seq(WorkingChannels), Apart(chs)
  PROVE  SizeOver(chs) <= 2 * (IntMax + 1)
<1>1. WorkingChannels \in SUBSET Channels /\ IsFiniteSet(Channels) /\ Cardinality(Channels) = nchannels
  <2>1. WorkingChannels \in SUBSET Channels
    BY DEF WorkingChannels
  <2>2. PICK n \in Nat \ {0} : n = nchannels
    BY BenchNumbers
  <2>3. IsFiniteSet(0 .. n - 1) /\ Cardinality(0 .. n - 1) = n
    BY FS_Interval
  <2> QED
    BY <2>1, <2>2, <2>3 DEF Channels
<1>2. Cardinality(WorkingChannels) <= nchannels
  BY <1>1, FS_Subset
<1>3. PICK w \in Nat, n \in Nat, l \in Nat, m \in Nat :
        w = Cardinality(WorkingChannels) /\ n = nchannels /\ l = nluns /\ m = npages
  BY AllFinite, FS_CardinalityType, BenchNumbers
<1>4. w * l * m <= n * l * m
  BY <1>2, <1>3, SizesGrow
<1>5. PICK x \in Nat, y \in Nat : x = w * l * m /\ y = n * l * m
  BY <1>3
<1>6. chs \in Seq(Channels)
  BY <1>1
<1>7. PICK z \in Nat : z = SizeOver(chs)
  BY <1>6, Sizing
<1>8. z <= x
  BY <1>3, <1>5, <1>7, BlockWithinDevice
<1>9. y <= 2 * (IntMax + 1)
  BY <1>3, <1>5, SizeAssumption
<1> QED
  BY <1>4, <1>5, <1>7, <1>8, <1>9, BenchNumbers

(* test_vblk begins with requests of one unit, if the size of the block    *)
(* fits an int.                                                            *)
LEMMA MeasuringEnterTest ==
  ASSUME BenchInv, Measuring, EnterTest
  PROVE  Measuring'
<1>1. /\ end_size' = ToInt(SizeOver(channels')) /\ start_size' = 1 /\ passes' = {}
      /\ pc' = IF end_size' < 0 THEN "leave" ELSE "passes"
      /\ nvme0n1' = nvme0n1
  BY DEF EnterTest
<1>2. /\ ChannelsPassed' /\ channels' \in Seq(WorkingChannels) /\ Nbytes' > 0
      /\ Nbytes' = SizeOver(channels')
  BY ChannelJoins
<1>3. channels' \in Seq(Channels) /\ Apart(channels')
  BY <1>2 DEF ChannelsPassed, Apart
<1>4. PICK n \in Nat, M \in Nat \ {0} : n = Nbytes' /\ M = IntMax /\ n <= 2 * (M + 1) /\ n > 0
  <2>1. SizeOver(channels') \in Nat /\ SizeOver(channels') <= 2 * (IntMax + 1)
    BY <1>2, <1>3, FitsUnsigned, Sizing
  <2> QED
    BY <1>2, <2>1, BenchNumbers
<1>5. CASE n <= M
  <2>1. end_size' = n
    BY <1>1, <1>2, <1>4, <1>5, Stored
  <2>2. pc' = "passes"
    BY <1>1, <1>4, <2>1
  <2>3. PowerOfTwo(start_size)'
    BY <1>1 DEF PowerOfTwo
  <2>4. \A t \in Sizes' : t % 1 = 0
    BY <1>4 DEF Sizes
  <2>5. Doubling'
    BY <1>1, <2>3, <2>4 DEF Doubling
  <2>6. ~(n > M)
    BY <1>4, <1>5
  <2> QED
    BY <1>4, <2>1, <2>2, <2>5, <2>6 DEF Measuring, AllSizesMeasured
<1>6. CASE n > M
  <2>1. end_size' = n - 2 * (M + 1)
    BY <1>1, <1>2, <1>4, <1>6, Wrapped
  <2>2. end_size' <= 0 /\ ~(n <= M)
    <3>1. n <= 2 * (M + 1) /\ n > M
      BY <1>4, <1>6
    <3>2. n - 2 * (M + 1) <= 0
      BY <3>1
    <3>3. ~(n <= M)
      BY <3>1
    <3> QED
      BY <2>1, <3>2, <3>3, Zenon
  <2>3. pc' # "requests"
    BY <1>1
  <2> QED
    BY <1>1, <1>4, <2>2, <2>3 DEF Measuring, AllSizesMeasured
<1> QED
  BY <1>4, <1>5, <1>6

(* A pass is made only while there is a size left. *)
LEMMA MeasuringBeginPass ==
  ASSUME BenchInv, Measuring, BeginPass
  PROVE  Measuring'
<1>1. /\ pc = "passes" /\ pc' = "requests" /\ AnotherPass
      /\ UNCHANGED <<program, channels, end_size, start_size, passes>>
  BY DEF BeginPass
<1>2. ChannelsPassed
  BY <1>1 DEF BenchInv, BenchTypes
<1>3. Nbytes' = Nbytes /\ Sizes' = Sizes
  BY <1>1, SameSizes
<1>4. /\ start_size \in 1 .. end_size /\ end_size % start_size = 0
      /\ Nbytes <= IntMax /\ end_size = Nbytes /\ Doubling
  BY <1>1, PassDivides
<1>5. start_size \in Nat \ {0} /\ start_size <= end_size
  BY <1>4 DEF BenchInv, BenchTypes
<1>6. start_size \in Sizes
  BY <1>2, <1>4, <1>5, SizesOf DEF Doubling
<1>7. Doubling'
  BY <1>1, <1>3, <1>4 DEF Doubling, PowerOfTwo
<1> QED
  BY <1>1, <1>3, <1>4, <1>6, <1>7 DEF Measuring, AllSizesMeasured

(* A step within a pass, and one of main. *)
LEMMA MeasuringSame ==
  ASSUME Measuring, UNCHANGED <<channels, end_size, start_size, passes>>,
         pc' = pc \/ pc' \in {"main", "aborted"}
  PROVE  Measuring'
<1>1. Nbytes' = Nbytes /\ Sizes' = Sizes
  BY SameSizes
<1>2. Doubling' <=> Doubling
  BY <1>1 DEF Doubling, PowerOfTwo
<1>3. Overflowed' <=> Overflowed
  BY <1>1 DEF Overflowed, AnotherPass, Magnitude
<1>4. CASE pc' = pc
  BY <1>1, <1>2, <1>3, <1>4 DEF Measuring, AllSizesMeasured
<1>5. CASE pc' \in {"main", "aborted"}
  BY <1>5 DEF Measuring, AllSizesMeasured
<1> QED
  BY <1>4, <1>5

(* The size of the pass is measured. *)
LEMMA MeasuringEndPass ==
  ASSUME BenchInv, Measuring, EndPass
  PROVE  Measuring'
<1>1. /\ pc = "requests" /\ pc' \in {"aborted", "passes"}
      /\ passes' = passes \cup {start_size} /\ start_size' = Doubled
      /\ UNCHANGED <<channels, end_size>>
  BY DEF EndPass
<1>2. ChannelsPassed
  BY <1>1 DEF BenchInv, BenchTypes
<1>3. Nbytes' = Nbytes /\ Sizes' = Sizes
  BY <1>1, SameSizes
<1>4. end_size = Nbytes /\ Nbytes <= IntMax /\ Doubling /\ start_size \in Sizes
  BY <1>1 DEF Measuring
<1>5. Doubling' \/ Overflowed'
  BY <1>1, <1>2, <1>3, <1>4, NextSize
<1>6. ~(Nbytes > IntMax)
  BY <1>2, <1>4, SizesOf, BenchNumbers
<1> QED
  BY <1>1, <1>3, <1>4, <1>5, <1>6 DEF Measuring, AllSizesMeasured

(* The loop ends when every size has been measured. *)
LEMMA MeasuringEndPasses ==
  ASSUME BenchInv, Measuring, EndPasses
  PROVE  Measuring'
<1>1. /\ pc = "passes" /\ pc' = "leave" /\ ~AnotherPass
      /\ UNCHANGED <<channels, end_size, start_size, passes>>
  BY DEF EndPasses, locals
<1>2. ChannelsPassed
  BY <1>1 DEF BenchInv, BenchTypes
<1>3. Nbytes' = Nbytes /\ Sizes' = Sizes
  BY <1>1, SameSizes
<1>4. Nbytes \in Nat /\ (Nbytes > IntMax \/ Nbytes <= IntMax) /\ ~(Nbytes > IntMax /\ Nbytes <= IntMax)
  BY <1>2, SizesOf, BenchNumbers
<1>5. Nbytes <= IntMax => passes = Sizes
  BY <1>1, <1>2, NoneLeft DEF Measuring, Overflowed
<1>6. ~(Nbytes <= IntMax) => passes = {}
  BY <1>1, <1>4 DEF Measuring
<1> QED
  BY <1>1, <1>3, <1>5, <1>6 DEF Measuring, AllSizesMeasured

(* Every step of the programs keeps the invariant of the sizes. *)
LEMMA MeasuringStep == BenchInv /\ Measuring /\ [Next]_vars => Measuring'
<1> SUFFICES ASSUME BenchInv, Measuring, [Next]_vars PROVE Measuring'
  OBVIOUS
<1>1. CASE \E p \in {"writetest", "readtest"} : Start(p)
  BY <1>1 DEF Start, Measuring, AllSizesMeasured
<1>2. CASE SkipChannel
  BY <1>2, MeasuringSame DEF SkipChannel, locals
<1>3. CASE EnterTest
  BY <1>3, MeasuringEnterTest
<1>4. CASE BeginPass
  BY <1>4, MeasuringBeginPass
<1>5. CASE Write
  BY <1>5, MeasuringSame DEF Write
<1>6. CASE Read
  BY <1>6, MeasuringSame DEF Read
<1>7. CASE RequestFails
  BY <1>7, MeasuringSame DEF RequestFails
<1>8. CASE EndPass
  BY <1>8, MeasuringEndPass
<1>9. CASE EndPasses
  BY <1>9, MeasuringEndPasses
<1>10. CASE LeaveTest
  BY <1>10, MeasuringSame DEF LeaveTest, locals
<1>11. CASE Exit
  BY <1>11, MeasuringSame DEF Exit, locals
<1>12. CASE UNCHANGED vars
  BY <1>12, MeasuringSame DEF vars, locals
<1>13. CASE AllocVblkFails
  BY <1>13 DEF AllocVblkFails, Measuring, AllSizesMeasured
<1> QED
  BY <1>1, <1>2, <1>3, <1>4, <1>5, <1>6, <1>7, <1>8, <1>9, <1>10, <1>11, <1>12, <1>13
     DEF Next, Step

(* So both invariants hold in every reachable state. *)
LEMMA BenchInvariant == Spec => [](BenchInv /\ Measuring)
<1>1. Init => Measuring
  BY DEF Init, Measuring, AllSizesMeasured
<1> QED
  BY <1>1, BenchInit, BenchStep, MeasuringStep, PTL DEF Spec

(* After a vblk_writetest run without errors no nvm_vblk_read of a         *)
(* vblk_readtest fails, for every number of channels, LUNs and pages and   *)
(* every largest int: each virtual block the read test puts together is    *)
(* within the pages written, and its size fits the int it is kept in.      *)
THEOREM ReadsSucceed == Spec => []WrittenIsReadable
<1>1. BenchInv => WrittenIsReadable
  BY DEF BenchInv, WrittenIsReadable
<1> QED
  BY <1>1, BenchInvariant, PTL

(* The loop of test_vblk in both benchmarks makes a pass for every power   *)
(* of two that divides the virtual block and none for another size, also   *)
(* where the last start_size *= 2 overflows the int; a block whose size    *)
(* an int cannot hold gets none.  For every geometry and every largest     *)
(* int.                                                                    *)
THEOREM SizesMeasured == Spec => []AllSizesMeasured
<1>1. Measuring => AllSizesMeasured
  BY DEF Measuring
<1> QED
  BY <1>1, BenchInvariant, PTL

=============================================================================
