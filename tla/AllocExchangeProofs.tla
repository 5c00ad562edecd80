------------------------- MODULE AllocExchangeProofs -------------------------
(***************************************************************************)
(* The server reads from a message what the client wrote into it, for      *)
(* every size of a byte, all magic numbers that can be told apart and all  *)
(* numbers the fields can hold.                                            *)
(***************************************************************************)
EXTENDS AllocExchange, SequenceTheorems, TLAPS

-----------------------------------------------------------------------------
(* Digits                                                                  *)

(* A number is its last digit and the rest. *)
LEMMA LastDigit ==
  ASSUME NEW R \in Nat, R > 1, NEW x \in Nat
  PROVE  /\ x \div R \in Nat /\ x % R \in 0 .. R - 1
         /\ x = (x % R) + R * (x \div R)
OBVIOUS

(* The rest of a number below R * k is below k. *)
LEMMA RestBelow ==
  ASSUME NEW R \in Nat, R > 1, NEW x \in Nat, NEW k \in Nat, x < R * k
  PROVE  x \div R < k
OBVIOUS

(* A number below R is its only digit. *)
LEMMA OnlyDigit ==
  ASSUME NEW R \in Nat, R > 1, NEW x \in Nat, x < R
  PROVE  x % R = x
OBVIOUS

(* The products that Word is made of. *)
LEMMA WordProduct ==
  /\ Radix \in Nat /\ Radix > 1 /\ Word \in Nat /\ Word > 1
  /\ Radix * Radix \in Nat /\ Radix * (Radix * Radix) \in Nat
  /\ Word = Radix * (Radix * (Radix * Radix))
<1>1. PICK R \in Nat : R = Radix /\ R > 1
  BY RadixAssumption
<1>2. PICK S \in Nat : S = R * R /\ S > 1
  BY <1>1
<1>3. PICK T \in Nat : T = R * S /\ T > 1
  BY <1>1, <1>2
<1>4. PICK W \in Nat : W = R * T /\ W > 1
  BY <1>1, <1>3
<1>5. Word = W
  BY <1>1, <1>2, <1>3, <1>4 DEF Word
<1> QED
  BY <1>1, <1>2, <1>3, <1>4, <1>5

(* The digits of a number are numbers, and put together they are it. *)
LEMMA DigitsOf ==
  ASSUME NEW x \in 0 .. Word - 1
  PROVE  /\ Data4(x)[1] \in Nat /\ Data4(x)[2] \in Nat
         /\ Data4(x)[3] \in Nat /\ Data4(x)[4] \in Nat
         /\ x = Data4(x)[1] + Radix * (Data4(x)[2] + Radix * (Data4(x)[3] + Radix * Data4(x)[4]))
<1>1. PICK R \in Nat, S \in Nat, T \in Nat :
        R = Radix /\ R > 1 /\ S = R * R /\ T = R * S /\ Word = R * T
  BY WordProduct
<1>2. x \in Nat /\ x < R * T
  BY <1>1, WordProduct
<1>3. PICK y \in Nat, a \in Nat : y = x \div R /\ a = x % R /\ x = a + R * y /\ y < T
  BY <1>1, <1>2, LastDigit, RestBelow
<1>4. PICK z \in Nat, b \in Nat : z = y \div R /\ b = y % R /\ y = b + R * z /\ z < S
  <2>1. /\ y \div R \in Nat /\ y % R \in 0 .. R - 1 /\ y = (y % R) + R * (y \div R)
        /\ y \div R < S
    BY <1>1, <1>3, LastDigit, RestBelow
  <2> QED
    BY <2>1
<1>5. PICK w \in Nat, c \in Nat : w = z \div R /\ c = z % R /\ z = c + R * w /\ w < R
  <2>1. /\ z \div R \in Nat /\ z % R \in 0 .. R - 1 /\ z = (z % R) + R * (z \div R)
        /\ z \div R < R
    BY <1>1, <1>4, LastDigit, RestBelow
  <2> QED
    BY <2>1
<1>6. w % R = w
  BY <1>1, <1>5, OnlyDigit
<1>7. Data4(x) = <<a, b, c, w>>
  BY <1>1, <1>3, <1>4, <1>5, <1>6 DEF Data4
<1>8. x = a + R * (b + R * (c + R * w))
  BY <1>3, <1>4, <1>5
<1> QED
  BY <1>1, <1>7, <1>8

(* The four bytes behind cursor p of a buffer are those of x. *)
Field4(buf, p, x) == \A j \in 1 .. 4 : At(buf, p + j) = Data4(x)[j]

(* deserialize_data4 reads what serialize_data4 wrote. *)
LEMMA Get4Field ==
  ASSUME NEW buf, NEW p \in Nat, NEW x \in 0 .. Word - 1, Field4(buf, p, x)
  PROVE  Get4(buf, p) = x
<1>1. /\ At(buf, p + 1) = Data4(x)[1] /\ At(buf, p + 2) = Data4(x)[2]
      /\ At(buf, p + 3) = Data4(x)[3] /\ At(buf, p + 4) = Data4(x)[4]
  BY DEF Field4
<1> QED
  BY <1>1, DigitsOf, Zenon DEF Get4

(* The eight bytes likewise. *)
Field8(buf, p, x) == Field4(buf, p, x % Word) /\ Field4(buf, p + 4, x \div Word)

(* deserialize_data8 reads what serialize_data8 wrote. *)
LEMMA Get8Field ==
  ASSUME NEW buf, NEW p \in Nat, NEW x \in 0 .. Word * Word - 1, Field8(buf, p, x)
  PROVE  Get8(buf, p) = x
<1>1. PICK W \in Nat : W = Word /\ W > 1
  BY WordProduct
<1>2. x \in Nat /\ x < W * W
  BY <1>1
<1>3. /\ x % W \in 0 .. W - 1 /\ x \div W \in Nat /\ x = (x % W) + W * (x \div W)
      /\ x \div W < W
  BY <1>1, <1>2, LastDigit, RestBelow
<1>4. x \div W \in 0 .. W - 1
  BY <1>1, <1>3
<1>5. Get4(buf, p) = x % W
  BY <1>1, <1>3, Get4Field DEF Field8
<1>6. Get4(buf, p + 4) = x \div W
  <2>1. p + 4 \in Nat
    OBVIOUS
  <2> QED
    BY <1>1, <1>4, <2>1, Get4Field DEF Field8
<1> QED
  BY <1>1, <1>3, <1>5, <1>6 DEF Get8

-----------------------------------------------------------------------------
(* Fields in a row                                                         *)

(* Field k of several in a row stands behind the k - 1 before it. *)
LEMMA Data4sField ==
  ASSUME NEW n \in Nat, NEW xs, Len(xs) = n, NEW k \in 1 .. n
  PROVE  Field4(Data4s(xs), 4 * (k - 1), xs[k])
<1> SUFFICES ASSUME NEW j \in 1 .. 4
             PROVE  At(Data4s(xs), 4 * (k - 1) + j) = Data4(xs[k])[j]
  BY DEF Field4
<1>1. PICK i \in Nat : i = 4 * (k - 1) + j
  OBVIOUS
<1>2. i \in 1 .. 4 * n /\ (i + 3) \div 4 = k /\ ((i - 1) % 4) + 1 = j
  BY <1>1
<1> QED
  BY <1>1, <1>2 DEF Data4s, At

(* Fields of eight bytes, likewise. *)
LEMMA Data8sField ==
  ASSUME NEW n \in Nat, NEW xs, Len(xs) = n, NEW k \in 1 .. n
  PROVE  Field8(Data8s(xs), 8 * (k - 1), xs[k])
<1> DEFINE lo == Data4(xs[k] % Word)
           hi == Data4(xs[k] \div Word)
<1>1. Data8(xs[k]) = lo \o hi /\ Len(lo) = 4 /\ Len(hi) = 4
  BY DEF Data8, Data4
<1>2. \A j \in 1 .. 4 : Data8(xs[k])[j] = lo[j] /\ Data8(xs[k])[j + 4] = hi[j]
  BY DEF Data8, Data4
<1>3. ASSUME NEW j \in 1 .. 8
      PROVE  At(Data8s(xs), 8 * (k - 1) + j) = Data8(xs[k])[j]
  <2>1. PICK i \in Nat : i = 8 * (k - 1) + j
    OBVIOUS
  <2>2. i \in 1 .. 8 * n /\ (i + 7) \div 8 = k /\ ((i - 1) % 8) + 1 = j
    BY <2>1
  <2> QED
    BY <2>1, <2>2 DEF Data8s, At
<1> HIDE DEF lo, hi
<1>4. ASSUME NEW j \in 1 .. 4
      PROVE  /\ At(Data8s(xs), 8 * (k - 1) + j) = lo[j]
             /\ At(Data8s(xs), (8 * (k - 1) + 4) + j) = hi[j]
  <2>1. j \in 1 .. 8 /\ j + 4 \in 1 .. 8 /\ (8 * (k - 1) + 4) + j = 8 * (k - 1) + (j + 4)
    OBVIOUS
  <2> QED
    BY <1>2, <1>3, <2>1
<1> QED
  BY <1>4 DEF Field8, Field4, lo, hi

(* What is appended does not move what is there ... *)
LEMMA AtFront ==
  ASSUME NEW s \in Seq(Int), NEW t \in Seq(Int), NEW i \in 1 .. Len(s)
  PROVE  At(s \o t, i) = At(s, i)
BY DEF At

(* ... and follows it. *)
LEMMA AtBack ==
  ASSUME NEW s \in Seq(Int), NEW t \in Seq(Int), NEW n \in Nat, n = Len(s), NEW i \in 1 .. Len(t)
  PROVE  At(s \o t, n + i) = At(t, i)
BY DEF At

(* A field of a sequence is that field of the sequence with more behind it. *)
LEMMA FrontField ==
  ASSUME NEW s \in Seq(Int), NEW t \in Seq(Int), NEW p \in Nat, p + 4 <= Len(s), NEW x,
         Field4(s, p, x)
  PROVE  Field4(s \o t, p, x)
<1> SUFFICES ASSUME NEW j \in 1 .. 4 PROVE At(s \o t, p + j) = Data4(x)[j]
  BY DEF Field4
<1>1. Len(s) \in Nat
  BY LenProperties
<1>2. p + j \in 1 .. Len(s)
  BY <1>1
<1>3. At(s \o t, p + j) = At(s, p + j)
  BY <1>2, AtFront
<1> QED
  BY <1>3 DEF Field4

(* A field of what is appended comes behind all there was. *)
LEMMA BackField ==
  ASSUME NEW s \in Seq(Int), NEW t \in Seq(Int), NEW n \in Nat, n = Len(s),
         NEW p \in Nat, p + 4 <= Len(t), NEW x, Field4(t, p, x)
  PROVE  Field4(s \o t, n + p, x)
<1> SUFFICES ASSUME NEW j \in 1 .. 4 PROVE At(s \o t, (n + p) + j) = Data4(x)[j]
  BY DEF Field4
<1>1. Len(t) \in Nat
  BY LenProperties
<1>2. p + j \in 1 .. Len(t) /\ (n + p) + j = n + (p + j)
  BY <1>1
<1>3. At(s \o t, n + (p + j)) = At(t, p + j)
  BY <1>2, AtBack
<1> QED
  BY <1>2, <1>3 DEF Field4

(* Bytes are numbers, so fields in a row are a sequence of numbers.        *)
LEMMA FieldsType ==
  ASSUME NEW xs \in Seq(Nat), NEW n \in Nat, n = Len(xs)
  PROVE  /\ Data4s(xs) \in Seq(Int) /\ Len(Data4s(xs)) = 4 * n
         /\ Data8s(xs) \in Seq(Int) /\ Len(Data8s(xs)) = 8 * n
<1>0. Radix \in Nat /\ Radix > 1 /\ Word \in Nat /\ Word > 1
  BY WordProduct
<1>1. ASSUME NEW x \in Nat
      PROVE  Data4(x)[1] \in Int /\ Data4(x)[2] \in Int /\ Data4(x)[3] \in Int /\ Data4(x)[4] \in Int
  <2>1. PICK y \in Nat : y = x \div Radix
    BY <1>0, LastDigit
  <2>2. PICK z \in Nat : z = y \div Radix
    BY <1>0, <2>1, LastDigit
  <2>3. PICK w \in Nat : w = z \div Radix
    BY <1>0, <2>2, LastDigit
  <2>4. x % Radix \in Int /\ y % Radix \in Int /\ z % Radix \in Int /\ w % Radix \in Int
    BY <1>0, <2>1, <2>2, <2>3, LastDigit
  <2> QED
    BY <2>1, <2>2, <2>3, <2>4 DEF Data4
<1>2. ASSUME NEW x \in Nat, NEW j \in 1 .. 8 PROVE Data8(x)[j] \in Int
  <2>1. x % Word \in Nat /\ x \div Word \in Nat
    BY <1>0, LastDigit
  <2>2. PICK a \in Nat, b \in Nat : a = x % Word /\ b = x \div Word
    BY <2>1
  <2>3. j \in 1 .. 4 => Data8(x)[j] = Data4(a)[j]
    BY <2>2 DEF Data8, Data4
  <2>4. j \in 5 .. 8 => Data8(x)[j] = Data4(b)[j - 4]
    BY <2>2 DEF Data8, Data4
  <2>5. \A k \in 1 .. 4 : Data4(a)[k] \in Int /\ Data4(b)[k] \in Int
    <3> SUFFICES ASSUME NEW k \in 1 .. 4 PROVE Data4(a)[k] \in Int /\ Data4(b)[k] \in Int
      OBVIOUS
    <3>1. k = 1 \/ k = 2 \/ k = 3 \/ k = 4
      OBVIOUS
    <3> QED
      BY <1>1, <3>1
  <2>6. j \in 1 .. 4 \/ (j \in 5 .. 8 /\ j - 4 \in 1 .. 4)
    OBVIOUS
  <2> QED
    BY <2>3, <2>4, <2>5, <2>6
<1>3. ASSUME NEW i \in 1 .. 4 * n PROVE Data4s(xs)[i] \in Int
  <2>1. (i + 3) \div 4 \in 1 .. n /\ ((i - 1) % 4) + 1 \in 1 .. 4
    OBVIOUS
  <2>2. PICK x \in Nat, j \in 1 .. 4 : x = xs[(i + 3) \div 4] /\ j = ((i - 1) % 4) + 1
    BY <2>1
  <2>3. Data4s(xs)[i] = Data4(x)[j]
    BY <2>2 DEF Data4s
  <2>4. j = 1 \/ j = 2 \/ j = 3 \/ j = 4
    OBVIOUS
  <2> QED
    BY <1>1, <2>3, <2>4
<1>4. ASSUME NEW i \in 1 .. 8 * n PROVE Data8s(xs)[i] \in Int
  <2>1. (i + 7) \div 8 \in 1 .. n /\ ((i - 1) % 8) + 1 \in 1 .. 8
    OBVIOUS
  <2>2. PICK x \in Nat, j \in 1 .. 8 : x = xs[(i + 7) \div 8] /\ j = ((i - 1) % 8) + 1
    BY <2>1
  <2>3. Data8s(xs)[i] = Data8(x)[j]
    BY <2>2 DEF Data8s
  <2> QED
    BY <1>2, <2>3
<1>5. 4 * n \in Nat /\ 8 * n \in Nat
  OBVIOUS
<1>6. Data4s(xs) \in [1 .. 4 * n -> Int] /\ Data8s(xs) \in [1 .. 8 * n -> Int]
  <2>1. Data4s(xs) = [i \in 1 .. 4 * n |-> Data4s(xs)[i]]
    BY DEF Data4s
  <2>2. Data8s(xs) = [i \in 1 .. 8 * n |-> Data8s(xs)[i]]
    BY DEF Data8s
  <2>3. [i \in 1 .. 4 * n |-> Data4s(xs)[i]] \in [1 .. 4 * n -> Int]
    BY <1>3, Zenon
  <2>4. [i \in 1 .. 8 * n |-> Data8s(xs)[i]] \in [1 .. 8 * n -> Int]
    BY <1>4, Zenon
  <2> QED
    BY <2>1, <2>2, <2>3, <2>4, Zenon
<1>7. \A m \in Nat : \A f \in [1 .. m -> Int] : f \in Seq(Int) /\ Len(f) = m
  OBVIOUS
<1> QED
  BY <1>5, <1>6, <1>7, Zenon

-----------------------------------------------------------------------------
(* Requests                                                                *)

(* An allocation request as the constructor stores it. *)
AllocRequests ==
  [channels : 0 .. Word - 1, blocks : 0 .. Word - 1, shared : 0 .. Word - 1,
   numa_id : 0 .. Word - 1, remote : 0 .. Word - 1]

IoRequests ==
  [command : IoCommands, block_index : 0 .. Word - 1,
   count : 0 .. Word * Word - 1, offset : 0 .. Word * Word - 1]

(* A number cut to 32 bits fits in 32 bits. *)
LEMMA CutToWord ==
  ASSUME NEW W \in Nat, W > 1, NEW x \in Int
  PROVE  x % W \in 0 .. W - 1
OBVIOUS

(* The constructor of ocssd_alloc_request cuts its arguments to 32 bits. *)
LEMMA AllocRequestType ==
  ASSUME NEW a \in AllocArgs
  PROVE  AllocOf(a) \in AllocRequests
<1>1. /\ a.channels \in Int /\ a.blocks \in Int /\ a.shared \in Int /\ a.numa_id \in Int
      /\ a.remote \in Int
  BY ArgsAssumption
<1>2. Word \in Nat /\ Word > 1
  BY WordProduct
<1>3. /\ a.channels % Word \in 0 .. Word - 1 /\ a.blocks % Word \in 0 .. Word - 1
      /\ a.shared % Word \in 0 .. Word - 1 /\ a.numa_id % Word \in 0 .. Word - 1
      /\ a.remote % Word \in 0 .. Word - 1
  BY <1>1, <1>2, CutToWord
<1> QED
  BY <1>3 DEF AllocOf, AllocRequest, AllocRequests

(* The server's constructor reads every field of an allocation request     *)
(* from where serialize put it.                                            *)
LEMMA AllocRequestBack ==
  ASSUME NEW r \in AllocRequests
  PROVE  /\ Get4(AllocRequestBytes(r), 0) = REQUEST_MAGIC
         /\ AllocRequestIn(AllocRequestBytes(r)) = r
<1> DEFINE xs == <<REQUEST_MAGIC, r.channels, r.blocks, r.shared, r.numa_id, r.remote>>
           buf == Data4s(xs)
<1>1. /\ REQUEST_MAGIC \in 0 .. Word - 1 /\ r.channels \in 0 .. Word - 1
      /\ r.blocks \in 0 .. Word - 1 /\ r.shared \in 0 .. Word - 1
      /\ r.numa_id \in 0 .. Word - 1 /\ r.remote \in 0 .. Word - 1
  BY MagicAssumption, WordProduct DEF AllocRequests
<1>2. /\ Len(xs) = 6 /\ xs[1] = REQUEST_MAGIC /\ xs[2] = r.channels /\ xs[3] = r.blocks
      /\ xs[4] = r.shared /\ xs[5] = r.numa_id /\ xs[6] = r.remote
  OBVIOUS
<1> HIDE DEF xs
<1>3. \A k \in 1 .. 6 : Field4(buf, 4 * (k - 1), xs[k])
  BY <1>2, Data4sField
<1>4. /\ Field4(buf, 0, xs[1]) /\ Field4(buf, 4, xs[2]) /\ Field4(buf, 8, xs[3])
      /\ Field4(buf, 12, xs[4]) /\ Field4(buf, 16, xs[5]) /\ Field4(buf, 20, xs[6])
  <2>1. Field4(buf, 4 * (1 - 1), xs[1]) /\ Field4(buf, 4 * (2 - 1), xs[2])
    BY <1>3
  <2>2. Field4(buf, 4 * (3 - 1), xs[3]) /\ Field4(buf, 4 * (4 - 1), xs[4])
    BY <1>3
  <2>3. Field4(buf, 4 * (5 - 1), xs[5]) /\ Field4(buf, 4 * (6 - 1), xs[6])
    BY <1>3
  <2> QED
    BY <2>1, <2>2, <2>3
<1> HIDE DEF buf
<1>5. /\ Get4(buf, 0) = REQUEST_MAGIC /\ Get4(buf, 4) = r.channels /\ Get4(buf, 8) = r.blocks
      /\ Get4(buf, 12) = r.shared /\ Get4(buf, 16) = r.numa_id /\ Get4(buf, 20) = r.remote
  BY <1>1, <1>2, <1>4, Get4Field
<1>6. AllocRequestBytes(r) = buf
  BY DEF AllocRequestBytes, xs, buf
<1>7. r = [channels |-> r.channels, blocks |-> r.blocks, shared |-> r.shared,
           numa_id |-> r.numa_id, remote |-> r.remote]
  BY DEF AllocRequests
<1> QED
  BY <1>5, <1>6, <1>7 DEF AllocRequestIn

(* The magic of a command is the magic of no other, nor of an allocation.  *)
LEMMA MagicsApart ==
  ASSUME NEW c \in IoCommands
  PROVE  /\ IoMagic(c) \in 0 .. Word - 1 /\ IoMagic(c) # 0 /\ IoMagic(c) # REQUEST_MAGIC
         /\ \A e \in IoCommands : IoMagic(e) = IoMagic(c) => e = c
BY MagicAssumption, WordProduct DEF IoCommands, IoMagic

(* The numbers of the two fields of each width in an I/O request. *)
LEMMA TwoIsNat == 2 \in Nat /\ 1 \in 1 .. 2 /\ 2 \in 1 .. 2
OBVIOUS

(* The server reads the command and every field of an I/O request. *)
LEMMA IoRequestBack ==
  ASSUME NEW q \in IoRequests
  PROVE  /\ Get4(IoRequestBytes(q), 0) = IoMagic(q.command)
         /\ IoRequestIn(IoRequestBytes(q)) = q
<1> DEFINE xs == <<IoMagic(q.command), q.block_index>>
           ys == <<q.count, q.offset>>
           buf == Data4s(xs) \o Data8s(ys)
<1>1. /\ q.command \in IoCommands /\ IoMagic(q.command) \in 0 .. Word - 1
      /\ q.block_index \in 0 .. Word - 1
      /\ q.count \in 0 .. Word * Word - 1 /\ q.offset \in 0 .. Word * Word - 1
  BY MagicsApart DEF IoRequests
<1>2. /\ Len(xs) = 2 /\ xs[1] = IoMagic(q.command) /\ xs[2] = q.block_index
      /\ Len(ys) = 2 /\ ys[1] = q.count /\ ys[2] = q.offset
  OBVIOUS
<1>3. xs \in Seq(Nat) /\ ys \in Seq(Nat)
  BY <1>1
<1> HIDE DEF xs, ys
<1>4. /\ Data4s(xs) \in Seq(Int) /\ Len(Data4s(xs)) = 8
      /\ Data8s(ys) \in Seq(Int) /\ Len(Data8s(ys)) = 16
  <2>1. /\ Data4s(xs) \in Seq(Int) /\ Len(Data4s(xs)) = 4 * 2
        /\ Data8s(ys) \in Seq(Int) /\ Len(Data8s(ys)) = 8 * 2
    BY <1>2, <1>3, FieldsType, Zenon, TwoIsNat
  <2> QED
    BY <2>1
<1>5. Field4(Data4s(xs), 0, xs[1]) /\ Field4(Data4s(xs), 4, xs[2])
  <2>1. Field4(Data4s(xs), 4 * (1 - 1), xs[1]) /\ Field4(Data4s(xs), 4 * (2 - 1), xs[2])
    BY <1>2, Data4sField, TwoIsNat, Zenon
  <2>2. 4 * (1 - 1) = 0 /\ 4 * (2 - 1) = 4
    OBVIOUS
  <2> QED
    BY <2>1, <2>2, Zenon
<1>6. Field4(buf, 0, xs[1]) /\ Field4(buf, 4, xs[2])
  <2>1. 0 \in Nat /\ 4 \in Nat /\ 0 + 4 <= Len(Data4s(xs)) /\ 4 + 4 <= Len(Data4s(xs))
    BY <1>4
  <2> QED
    BY <1>4, <1>5, <2>1, FrontField, Zenon
<1>7. Field8(Data8s(ys), 0, ys[1]) /\ Field8(Data8s(ys), 8, ys[2])
  <2>1. Field8(Data8s(ys), 8 * (1 - 1), ys[1]) /\ Field8(Data8s(ys), 8 * (2 - 1), ys[2])
    BY <1>2, Data8sField, TwoIsNat, Zenon
  <2>2. 8 * (1 - 1) = 0 /\ 8 * (2 - 1) = 8
    OBVIOUS
  <2> QED
    BY <2>1, <2>2, Zenon
<1>8. ASSUME NEW p \in {0, 8}, NEW x, Field8(Data8s(ys), p, x)
      PROVE  Field8(buf, 8 + p, x)
  <2>1. Field4(Data8s(ys), p, x % Word) /\ Field4(Data8s(ys), p + 4, x \div Word)
    BY <1>8 DEF Field8
  <2>2. /\ 8 \in Nat /\ p \in Nat /\ p + 4 \in Nat /\ 8 + (p + 4) = (8 + p) + 4
        /\ p + 4 <= Len(Data8s(ys)) /\ (p + 4) + 4 <= Len(Data8s(ys))
    BY <1>4
  <2>3. Field4(buf, 8 + p, x % Word)
    BY <1>4, <2>1, <2>2, BackField, Zenon
  <2>4. Field4(buf, 8 + (p + 4), x \div Word)
    BY <1>4, <2>1, <2>2, BackField, Zenon
  <2> QED
    BY <2>2, <2>3, <2>4, Zenon DEF Field8
<1>9. Field8(buf, 8, ys[1]) /\ Field8(buf, 16, ys[2])
  <2>1. Field8(buf, 8 + 0, ys[1]) /\ Field8(buf, 8 + 8, ys[2])
    BY <1>7, <1>8
  <2> QED
    BY <2>1
<1> HIDE DEF buf
<1>10. /\ Get4(buf, 0) = IoMagic(q.command) /\ Get4(buf, 4) = q.block_index
  BY <1>1, <1>2, <1>6, Get4Field
<1>11. Get8(buf, 8) = q.count /\ Get8(buf, 16) = q.offset
  BY <1>1, <1>2, <1>9, Get8Field
<1>12. IoRequestBytes(q) = buf
  BY <1>1 DEF IoRequestBytes, xs, ys, buf
<1>13. (CHOOSE c \in IoCommands : IoMagic(c) = Get4(buf, 0)) = q.command
  BY <1>1, <1>10, MagicsApart, Zenon
<1>14. q = [command |-> q.command, block_index |-> q.block_index, count |-> q.count,
            offset |-> q.offset]
  BY DEF IoRequests
<1> QED
  BY <1>10, <1>11, <1>12, <1>13, <1>14 DEF IoRequestIn

-----------------------------------------------------------------------------
(* The exchange                                                            *)

(* The message on its way is the request made last; once it is gone, the   *)
(* server has read that request.                                           *)
LastRequest ==
  \/ args = Nothing /\ message = Nothing
  \/ /\ args \in AllocArgs
     /\ \/ message = AllocRequestBytes(AllocOf(args))
        \/ message = Nothing /\ decoded = AllocOf(args)
  \/ /\ args \in IoArgs
     /\ \/ message = IoRequestBytes(args)
        \/ message = Nothing /\ decoded = args

(* The arguments of an I/O request are not those of an allocation. *)
LEMMA IoIsNotAlloc ==
  /\ \A a \in AllocArgs : IsAlloc(a)
  /\ \A q \in IoArgs : ~IsAlloc(q)
BY ArgsAssumption DEF IsAlloc

(* No message has no magic. *)
LEMMA NothingReads == Get4(Nothing, 0) = 0
<1>1. \A i \in Nat : At(Nothing, i) = 0
  BY DEF At, Nothing
<1> QED
  BY <1>1, WordProduct DEF Get4

(* The handlers read the request made last: each of them is selected by    *)
(* the magic of its own requests only.                                     *)
LEMMA HandlersRead ==
  ASSUME LastRequest, message # Nothing
  PROVE  /\ Get4(message, 0) = REQUEST_MAGIC =>
              args \in AllocArgs /\ AllocRequestIn(message) = AllocOf(args)
         /\ (\E c \in IoCommands : Get4(message, 0) = IoMagic(c)) =>
              args \in IoArgs /\ IoRequestIn(message) = args
<1>1. CASE args \in AllocArgs /\ message = AllocRequestBytes(AllocOf(args))
  <2>1. Get4(message, 0) = REQUEST_MAGIC /\ AllocRequestIn(message) = AllocOf(args)
    BY <1>1, AllocRequestType, AllocRequestBack
  <2> QED
    BY <1>1, <2>1, MagicsApart
<1>2. CASE args \in IoArgs /\ message = IoRequestBytes(args)
  <2>1. args \in IoRequests /\ args.command \in IoCommands
    BY <1>2, ArgsAssumption DEF IoRequests
  <2>2. Get4(message, 0) = IoMagic(args.command) /\ IoRequestIn(message) = args
    BY <1>2, <2>1, IoRequestBack
  <2> QED
    BY <1>2, <2>1, <2>2, MagicsApart
<1> QED
  BY <1>1, <1>2 DEF LastRequest

(* ocssd_conn acts on the request that the client made.  Every field of an *)
(* allocation or I/O request is read back as it was stored, cut to the     *)
(* width of its field, whatever the number, and no request reaches the     *)
(* handler of another: for bytes of any size, 256 values included.         *)
THEOREM RequestsUnderstood == Spec => []RequestUnderstood
<1>1. Init => LastRequest
  BY DEF Init, LastRequest
<1>2. LastRequest /\ [Next]_vars => LastRequest'
  <2> SUFFICES ASSUME LastRequest, [Next]_vars PROVE LastRequest'
    OBVIOUS
  <2>1. ASSUME NEW a \in AllocArgs, SendAlloc(a) PROVE LastRequest'
    BY <2>1 DEF SendAlloc, LastRequest
  <2>2. ASSUME DecodeAlloc PROVE LastRequest'
    BY <2>2, HandlersRead DEF DecodeAlloc, LastRequest
  <2>3. CASE \/ RefuseAlloc
             \/ \E v \in Grants, junk \in JunkBytes : ProcessAlloc(v, junk)
             \/ \E v \in Grants : SerializeOverruns(v)
    BY <2>2, <2>3 DEF RefuseAlloc, ProcessAlloc, SerializeOverruns
  <2>4. CASE RecvNothing \/ \E n \in DOMAIN reply : RecvReply(n)
    BY <2>4 DEF RecvNothing, RecvReply, LastRequest
  <2>5. CASE Deserialize
    BY <2>5 DEF Deserialize, LastRequest
  <2>6. ASSUME NEW q \in IoArgs, SendIo(q) PROVE LastRequest'
    BY <2>6 DEF SendIo, LastRequest
  <2>7. CASE SendFails
    BY <2>7 DEF SendFails, LastRequest
  <2>8. CASE ProcessIo
    BY <2>8, HandlersRead DEF ProcessIo, LastRequest
  <2>9. CASE UNCHANGED vars
    BY <2>9 DEF vars, LastRequest
  <2> QED
    BY <2>1, <2>3, <2>4, <2>5, <2>6, <2>7, <2>8, <2>9 DEF Next
<1>3. LastRequest => RequestUnderstood
  <2> SUFFICES ASSUME LastRequest, args # Nothing, message = Nothing
               PROVE  decoded = IF IsAlloc(args) THEN AllocOf(args) ELSE args
    BY DEF RequestUnderstood
  <2>1. CASE args \in AllocArgs
    <3>1. IsAlloc(args)
      BY <2>1, ArgsAssumption DEF IsAlloc
    <3>2. AllocRequestBytes(AllocOf(args)) # Nothing
      <4>1. Get4(AllocRequestBytes(AllocOf(args)), 0) = REQUEST_MAGIC /\ REQUEST_MAGIC # 0
        BY <2>1, AllocRequestType, AllocRequestBack, MagicAssumption, WordProduct
      <4> QED
        BY <4>1, NothingReads
    <3> QED
      BY <2>1, <3>1, <3>2, IoIsNotAlloc DEF LastRequest
  <2>2. CASE args \in IoArgs
    <3>1. ~IsAlloc(args)
      BY <2>2, IoIsNotAlloc
    <3>2. IoRequestBytes(args) # Nothing
      <4>1. args \in IoRequests /\ args.command \in IoCommands
        BY <2>2, ArgsAssumption DEF IoRequests
      <4>2. Get4(IoRequestBytes(args), 0) = IoMagic(args.command) /\ IoMagic(args.command) # 0
        BY <4>1, IoRequestBack, MagicsApart
      <4> QED
        BY <4>2, NothingReads
    <3> QED
      BY <2>2, <3>1, <3>2, IoIsNotAlloc DEF LastRequest
  <2> QED
    BY <2>1, <2>2 DEF LastRequest
<1> QED
  BY <1>1, <1>2, <1>3, PTL DEF Spec
=============================================================================
