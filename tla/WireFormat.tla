------------------------------ MODULE WireFormat ------------------------------
(***************************************************************************)
(* The wire format of ocssd_server.h: what serialize writes and            *)
(* deserialize reads, byte by byte, for allocation requests, I/O requests  *)
(* and virtual OCSSDs.                                                     *)
(*                                                                         *)
(* A byte is a number below Radix (256 in the code; a smaller one keeps    *)
(* the numbers within TLC's range).  Integers are little-endian and keep   *)
(* the width of their field.  A cursor counts the bytes before it.         *)
(* Reading past the end of a buffer, which the code does not notice, gives *)
(* zeros here and leaves the cursor beyond the buffer's length.            *)
(***************************************************************************)
EXTENDS Integers, Sequences, SequencesExt

CONSTANTS
  Radix,              \* the number of values of a byte
  REQUEST_MAGIC,      \* 0x6501
  SERIALIZE_MAGIC,    \* 0x6502
  READ_BLOCK_MAGIC,   \* 0x6401
  WRITE_BLOCK_MAGIC,  \* 0x6402
  ERASE_BLOCK_MAGIC   \* 0x6403

Word == Radix * Radix * Radix * Radix     \* uint32_t counts modulo Word

ASSUME RadixAssumption == Radix \in Nat /\ Radix > 1

ASSUME MagicAssumption ==
  /\ {REQUEST_MAGIC, SERIALIZE_MAGIC, READ_BLOCK_MAGIC, WRITE_BLOCK_MAGIC,
      ERASE_BLOCK_MAGIC} \subseteq 1 .. Word - 1
  /\ REQUEST_MAGIC \notin {READ_BLOCK_MAGIC, WRITE_BLOCK_MAGIC, ERASE_BLOCK_MAGIC}
  /\ READ_BLOCK_MAGIC # WRITE_BLOCK_MAGIC
  /\ READ_BLOCK_MAGIC # ERASE_BLOCK_MAGIC
  /\ WRITE_BLOCK_MAGIC # ERASE_BLOCK_MAGIC

-----------------------------------------------------------------------------
(* serialize_data4, serialize_data8, deserialize_data4, deserialize_data8 *)

Data4(x) ==
  LET y == x \div Radix
      z == y \div Radix
  IN <<x % Radix, y % Radix, z % Radix, (z \div Radix) % Radix>>
Data8(x) == Data4(x % Word) \o Data4(x \div Word)

At(buf, i) == IF i \in DOMAIN buf THEN buf[i] ELSE 0

Get4(buf, p) ==
  At(buf, p + 1) + Radix * (At(buf, p + 2) + Radix * (At(buf, p + 3) + Radix * At(buf, p + 4)))
Get8(buf, p) == Get4(buf, p) + Word * Get4(buf, p + 4)

(* Several of them in a row. *)
Data4s(xs) == [i \in 1 .. 4 * Len(xs) |-> Data4(xs[(i + 3) \div 4])[((i - 1) % 4) + 1]]
Data8s(xs) == [i \in 1 .. 8 * Len(xs) |-> Data8(xs[(i + 7) \div 8])[((i - 1) % 8) + 1]]

-----------------------------------------------------------------------------
(* ocssd_alloc_request: 24 bytes *)

(* The constructor stores its int and size_t arguments in 32 bits. *)
AllocRequest(channels, blocks, shared, numa_id, rem) ==
  [channels |-> channels % Word, blocks |-> blocks % Word, shared |-> shared % Word,
   numa_id |-> numa_id % Word, remote |-> rem % Word]

(* Faulty variant: REMOTE is written before NUMA_ID. *)
AllocRequestSwapped(r) ==
  Data4s(<<REQUEST_MAGIC, r.channels, r.blocks, r.shared, r.remote, r.numa_id>>)

AllocRequestBytes(r) ==
  Data4s(<<REQUEST_MAGIC, r.channels, r.blocks, r.shared, r.numa_id, r.remote>>)

AllocRequestIn(buf) ==
  [channels |-> Get4(buf, 4), blocks |-> Get4(buf, 8), shared |-> Get4(buf, 12),
   numa_id |-> Get4(buf, 16), remote |-> Get4(buf, 20)]

-----------------------------------------------------------------------------
(* ocssd_io_request: 24 bytes *)

IoMagic(command) ==
  CASE command = "read" -> READ_BLOCK_MAGIC
    [] command = "write" -> WRITE_BLOCK_MAGIC
    [] command = "erase" -> ERASE_BLOCK_MAGIC

IoCommands == {"read", "write", "erase"}

(* serialize writes nothing for any other command. *)
IoRequestBytes(q) ==
  IF q.command \in IoCommands
  THEN Data4s(<<IoMagic(q.command), q.block_index>>) \o Data8s(<<q.count, q.offset>>)
  ELSE << >>

IoRequestIn(buf) ==
  [command |-> CHOOSE c \in IoCommands : IoMagic(c) = Get4(buf, 0),
   block_index |-> Get4(buf, 4), count |-> Get8(buf, 8), offset |-> Get8(buf, 16)]

-----------------------------------------------------------------------------
(* virtual_ocssd: [id, units]; a unit is [name, geo, channels] with the    *)
(* nine numbers of nvm_geo; a channel is [id, shared, total_blocks,        *)
(* num_luns, luns]; a LUN is [lun, start, num].                            *)

LunBytes(l) == Data4s(<<l.lun, l.start, l.num>>)

ChannelBytes(c) ==
  Data4s(<<c.id, c.shared, c.total_blocks, c.num_luns>>)
    \o (IF c.shared = 1 THEN FlattenSeq([i \in DOMAIN c.luns |-> LunBytes(c.luns[i])])
                        ELSE << >>)

Padded(len) == ((len + 3) \div 4) * 4

(* The name with its NUL; the bytes up to the next multiple of four keep   *)
(* what malloc returned.                                                   *)
NameBytes(name, junk) ==
  LET len == Len(name) + 1
  IN Append(name, 0) \o [i \in 1 .. Padded(len) - len |-> junk]

UnitBytes(u, junk) ==
  Data4(Len(u.name) + 1) \o NameBytes(u.name, junk) \o Data8s(u.geo)
    \o Data4(Len(u.channels))
    \o FlattenSeq([i \in DOMAIN u.channels |-> ChannelBytes(u.channels[i])])

VssdBytes(v, junk) ==
  Data4s(<<SERIALIZE_MAGIC, v.id, Len(v.units)>>)
    \o FlattenSeq([i \in DOMAIN v.units |-> UnitBytes(v.units[i], junk)])

(* The loops of deserialize run as often as the buffer says.  One of n     *)
(* elements of at least size bytes that is cut off here has passed the     *)
(* end of the buffer, as the code's has.                                   *)
Times(n, size, buf) ==
  LET most == Len(buf) \div size + 1 IN [i \in 1 .. (IF n < most THEN n ELSE most) |-> i]

LunIn(buf, p) == [lun |-> Get4(buf, p), start |-> Get4(buf, p + 4), num |-> Get4(buf, p + 8)]

(* virtual_ocssd_channel::deserialize at cursor at.p *)
ChannelIn(buf, at) ==
  LET shared == Get4(buf, at.p + 4)
      num_luns == Get4(buf, at.p + 12)
      n == IF shared = 1 THEN num_luns ELSE 0
  IN [p |-> at.p + 16 + 12 * n,
      out |-> Append(at.out,
        [id |-> Get4(buf, at.p), shared |-> shared, total_blocks |-> Get4(buf, at.p + 8),
         num_luns |-> num_luns,
         luns |-> [i \in DOMAIN Times(n, 12, buf) |-> LunIn(buf, at.p + 16 + 12 * (i - 1))]])]

(* A loop over elements, as long as the cursor is in the buffer. *)
Repeat(Element(_, _), n, size, buf, p) ==
  FoldLeft(LAMBDA at, i : IF at.p > Len(buf) THEN at ELSE Element(buf, at),
           [p |-> p, out |-> << >>], Times(n, size, buf))

(* dev_name_ = temp: the bytes up to the first NUL. *)
NameIn(buf, p) ==
  SubSeq(buf, p + 1, p + SelectInSeq(SubSeq(buf, p + 1, Len(buf)), LAMBDA b : b = 0) - 1)

(* Faulty variant: the padding is not skipped. *)
AfterNameUnpadded(buf, p) == p + 4 + Get4(buf, p)

AfterName(buf, p) == p + 4 + Padded(Get4(buf, p))

(* virtual_ocssd_unit::deserialize *)
UnitIn(buf, at) ==
  LET g == AfterName(buf, at.p)
      rest == Repeat(ChannelIn, Get4(buf, g + 72), 16, buf, g + 76)
  IN [p |-> rest.p,
      out |-> Append(at.out,
        [name |-> NameIn(buf, at.p + 4),
         geo |-> [i \in 1 .. 9 |-> Get8(buf, g + 8 * (i - 1))],
         channels |-> rest.out])]

NoVssd == [id |-> 0, units |-> << >>]

(* virtual_ocssd::deserialize: the size it returns and the object it fills. *)
VssdIn(buf) ==
  IF Get4(buf, 0) # SERIALIZE_MAGIC THEN [size |-> 0, vssd |-> NoVssd]
  ELSE LET units == Repeat(UnitIn, Get4(buf, 8), 80, buf, 12)
       IN [size |-> units.p, vssd |-> [id |-> Get4(buf, 4), units |-> units.out]]

=============================================================================
