---------------------------- MODULE OcssdConnProofs ----------------------------
(***************************************************************************)
(* Proofs about OcssdConn, for any clients, scripts and sizes and any way  *)
(* the network cuts the stream.  The server's position in the stream of a  *)
(* client is a number n of messages served and a place within the next     *)
(* one; that it is always there makes the commands, the blocks and, as     *)
(* long as replies reach the socket they are meant for, the replies exact. *)
(***************************************************************************)
EXTENDS OcssdConn, SequenceFacts

-----------------------------------------------------------------------------
(* The invariant                                                           *)

(* What a virtual block holds, and what a reply is made of. *)
Vals == (Nat \X Nat) \cup {<<"test">>, Garbage}

BlockContents == {b \in Seq(Vals) : Len(b) <= BlkLen}

ReplyVals == Vals \cup {<<"vssd", i>> : i \in 1 .. AllocLen}

UnitsOf(c) == [of : {c}, msg : Nat, val : ReplyVals]

Units == [of : Clients, msg : Nat, val : ReplyVals]

Bufs(A) == [buf : Seq(A), offset : Nat]

(* A queue of replies: only the first may be partly written. *)
Queued(A, q) ==
  /\ q \in Seq(Bufs(A))
  /\ \A i \in 1 .. Len(q) :
       \/ q[i].offset = 0
       \/ i = 1 /\ q[i].offset \in 1 .. Len(q[i].buf) - 1

Sockets ==
  /\ serving \in BOOLEAN
  /\ link \in [Clients -> {"idle", "open", "closed"}]
  /\ sent \in [Clients -> Nat]
  /\ arrived \in [Clients -> Nat]
  /\ consumed \in [Clients -> Nat]
  /\ \A c \in Clients : /\ sent[c] <= Len(Script[c])
                        /\ consumed[c] <= arrived[c]
                        /\ arrived[c] <= StreamLen(c, sent[c])

(* A descriptor is owned by at most one connection, which has it; ev_read  *)
(* is added for exactly those.                                             *)
Descriptors ==
  /\ fd \in [Clients -> 0 .. NumFds]
  /\ owner \in [1 .. NumFds -> Clients \cup {NoClient}]
  /\ \A f \in 1 .. NumFds : owner[f] # NoClient => fd[owner[f]] = f
  /\ conns \subseteq Clients
  /\ ev_read \subseteq Clients
  /\ \A c \in Clients : /\ c \in conns <=> fd[c] # 0
                        /\ c \in ev_read <=> fd[c] # 0 /\ owner[fd[c]] = c

Cbs == [conn : Clients \cup {NoClient}, phase : {"none", "command", "payload"},
        msg : Nat, received : Nat]

(* The callback under way is of a connection with an ev_read. *)
Callback ==
  /\ cb \in Cbs
  /\ cb = NoCb \/ (cb.conn \in ev_read /\ cb.phase \in {"command", "payload"})

(* The server has served n messages of a connection and is at the next     *)
(* one: in its data, or in the message itself.                             *)
At(c, n) ==
  /\ n \in 0 .. Len(Script[c])
  /\ IF InPayload(c)
     THEN /\ n < Len(Script[c])
          /\ cb.msg = n + 1
          /\ Script[c][n + 1].op = "write"
          /\ cb.received <= Script[c][n + 1].count
          /\ message_end[c] = 0
          /\ consumed[c] = StreamLen(c, n) + MsgLen + cb.received
     ELSE /\ message_end[c] <= MsgLen
          /\ consumed[c] = StreamLen(c, n) + message_end[c]
          /\ cb.conn # c \/ n = Len(Script[c]) => message_end[c] = 0

(* The server had served n messages when it closed the connection. *)
Left(c, n) ==
  /\ n \in 0 .. Len(Script[c])
  /\ StreamLen(c, n) <= consumed[c]
  /\ n < Len(Script[c]) => consumed[c] < StreamLen(c, n + 1)
  /\ message_end[c] <= MsgLen

Place(c, n) == IF Dropped(c) THEN Left(c, n) ELSE At(c, n)

Progress ==
  /\ message_end \in [Clients -> Nat]
  /\ vblks \in [Clients -> Seq(BlockContents)]
  /\ refused \subseteq Clients
  /\ \A c \in Clients : \E n \in Nat :
       Place(c, n) /\ (c \notin refused => vblks[c] = RefVblks(c, n))

(* What is queued and sent; on_write is added for the queues with replies. *)
Queues ==
  /\ outbuf \in [Clients -> Seq(Units)]
  /\ got \in [Clients -> Seq(Units)]
  /\ DOMAIN writeq = Clients
  /\ \A c \in Clients : /\ Len(outbuf[c]) <= SockBuf
                        /\ Queued(UnitsOf(c), writeq[c])
                        /\ c \in ev_write <=> writeq[c] # << >>
  /\ ev_write \subseteq conns

ConnInv == Sockets /\ Descriptors /\ Callback /\ Progress /\ Queues

-----------------------------------------------------------------------------
(* The stream of a client                                                  *)

(* The sizes are positive. *)
LEMMA Sizes ==
  /\ MsgLen \in Nat \ {0} /\ AllocLen \in Nat \ {0} /\ BlkLen \in Nat \ {0}
  /\ SockBuf \in Nat \ {0} /\ NumFds \in Nat \ {0} /\ VblksPerAlloc \in Nat
  /\ NoClient \notin Clients
BY ConnAssumption

(* What a request is. *)
LEMMA Requested ==
  ASSUME NEW c \in Clients
  PROVE  /\ Script[c] \in Seq(Requests) /\ Len(Script[c]) \in Nat
         /\ \A n \in 1 .. Len(Script[c]) :
              /\ Script[c][n].op \in Ops /\ Script[c][n].idx \in Nat
              /\ Script[c][n].count \in Nat /\ Script[c][n].offset \in Nat
              /\ Script[c][n].remote \in BOOLEAN
<1>1. Script[c] \in Seq(Requests)
  BY ScriptAssumption
<1>2. \A n \in 1 .. Len(Script[c]) : Script[c][n] \in Requests
  BY <1>1, ElementOfSeq
<1> QED
  BY <1>1, <1>2, LenProperties DEF Requests

(* Length of message n with its data. *)
Size(c, n) == MsgLen + Payload(Script[c][n])

(* A message is MsgLen units and the data of a write. *)
LEMMA MessageShape ==
  ASSUME NEW c \in Clients, NEW n \in 1 .. Len(Script[c])
  PROVE  /\ Size(c, n) \in Nat /\ Size(c, n) >= MsgLen
         /\ Script[c][n].op = "write" => Size(c, n) = MsgLen + Script[c][n].count
         /\ Script[c][n].op # "write" => Size(c, n) = MsgLen
         /\ Message(c, n) \in Seq(Nat \X Nat)
         /\ Len(Message(c, n)) = Size(c, n)
         /\ \A i \in 1 .. Size(c, n) : Message(c, n)[i] = <<n, i>>
<1>0. Script[c][n].count \in Nat /\ MsgLen \in Nat /\ n \in Nat
  BY Requested, Sizes
<1>1. Payload(Script[c][n]) \in Nat
  BY <1>0 DEF Payload
<1>2. PICK k \in Nat : k = Size(c, n)
  BY <1>0, <1>1 DEF Size
<1>3. Message(c, n) = [i \in 1 .. k |-> <<n, i>>]
  BY <1>2 DEF Message, Size
<1>4. /\ Message(c, n) \in Seq(Nat \X Nat) /\ Len(Message(c, n)) = k
      /\ \A i \in 1 .. k : Message(c, n)[i] = <<n, i>>
  <2> DEFINE e(i) == <<n, i>>
  <2>1. [i \in 1 .. k |-> <<n, i>>] \in [1 .. k -> Nat \X Nat]
    BY <1>0
  <2>2. [i \in 1 .. k |-> <<n, i>>] \in Seq(Nat \X Nat)
    BY <2>1, SeqDef
  <2> QED
    BY <1>3, <2>2
<1>5. /\ Size(c, n) >= MsgLen
      /\ Script[c][n].op = "write" => Size(c, n) = MsgLen + Script[c][n].count
      /\ Script[c][n].op # "write" => Size(c, n) = MsgLen
  BY <1>0, <1>1 DEF Size, Payload
<1> QED
  BY <1>2, <1>4, <1>5

(* The stream one message longer. *)
LEMMA StreamStep ==
  ASSUME NEW c \in Clients, NEW n \in 0 .. Len(Script[c])
  PROVE  /\ StreamTo(c, n) \in Seq(Nat \X Nat)
         /\ n = 0 => StreamTo(c, n) = << >>
         /\ n < Len(Script[c]) => StreamTo(c, n + 1) = StreamTo(c, n) \o Message(c, n + 1)
<1>0. PICK N \in Nat : N = Len(Script[c]) /\ n \in 0 .. N
  BY Requested
<1> DEFINE A == Nat \X Nat
           ms(k) == [m \in 1 .. k |-> Message(c, m)]
<1>1. ASSUME NEW k \in 0 .. N
      PROVE  /\ ms(k) \in Seq(Seq(A)) /\ Len(ms(k)) = k
             /\ \A m \in 1 .. k : ms(k)[m] = Message(c, m)
  <2>1. \A m \in 1 .. k : Message(c, m) \in Seq(A)
    <3> SUFFICES ASSUME NEW m \in 1 .. k PROVE Message(c, m) \in Seq(A)
      OBVIOUS
    <3>1. m \in 1 .. Len(Script[c])
      BY <1>0
    <3> QED
      BY <3>1, MessageShape
  <2>2. ms(k) \in [1 .. k -> Seq(A)] /\ k \in Nat
    BY <1>0, <2>1
  <2> QED
    BY <2>2, SeqDef
<1>2. ASSUME NEW k \in 0 .. N PROVE StreamTo(c, k) = FlattenSeq(ms(k))
  BY DEF StreamTo
<1> HIDE DEF ms, A
<1>3. StreamTo(c, n) \in Seq(A)
  BY <1>0, <1>1, <1>2, FlattenType
<1>4. n = 0 => StreamTo(c, n) = << >>
  <2>1. SUFFICES ASSUME n = 0 PROVE FlattenSeq(ms(n)) = << >>
    BY <1>0, <1>2
  <2>2. ms(n) \in Seq(Seq(A)) /\ Len(ms(n)) = 0
    BY <1>0, <1>1, <2>1
  <2>3. ms(n) = << >>
    BY <2>2, EmptySeq
  <2> QED
    BY <2>2, <2>3, FlattenEmpty
<1>5. ASSUME n < N PROVE StreamTo(c, n + 1) = StreamTo(c, n) \o Message(c, n + 1)
  <2>1. n \in 0 .. N /\ n + 1 \in 0 .. N /\ n + 1 \in 1 .. n + 1 /\ n \in Nat
    BY <1>0, <1>5
  <2>2. /\ ms(n) \in Seq(Seq(A)) /\ Len(ms(n)) = n
        /\ ms(n + 1) \in Seq(Seq(A)) /\ Len(ms(n + 1)) = n + 1
        /\ ms(n + 1)[n + 1] = Message(c, n + 1)
        /\ \A m \in 1 .. n : ms(n + 1)[m] = ms(n)[m]
    <3>1. /\ ms(n) \in Seq(Seq(A)) /\ Len(ms(n)) = n
          /\ \A m \in 1 .. n : ms(n)[m] = Message(c, m)
      BY <1>1, <2>1
    <3>2. /\ ms(n + 1) \in Seq(Seq(A)) /\ Len(ms(n + 1)) = n + 1
          /\ \A m \in 1 .. n + 1 : ms(n + 1)[m] = Message(c, m)
      BY <1>1, <2>1
    <3>3. \A m \in 1 .. n : m \in 1 .. n + 1
      BY <2>1
    <3> QED
      BY <2>1, <3>1, <3>2, <3>3
  <2>3. PICK u \in Seq(A) : u = Message(c, n + 1)
    <3>1. n + 1 \in 1 .. Len(Script[c])
      BY <1>0, <2>1
    <3> QED
      BY <3>1, MessageShape DEF A
  <2>4. FlattenSeq(ms(n + 1)) = FlattenSeq(ms(n)) \o Message(c, n + 1)
    <3>1. PICK x \in Seq(Seq(A)), y \in Seq(Seq(A)) : x = ms(n) /\ y = ms(n + 1)
      BY <2>2
    <3>2. /\ Len(y) = Len(x) + 1 /\ y[Len(x) + 1] = u
          /\ \A m \in 1 .. Len(x) : y[m] = x[m]
      BY <2>2, <2>3, <3>1
    <3>3. FlattenSeq(y) = FlattenSeq(x) \o u
      BY <3>2, FlattenAppend
    <3> QED
      BY <2>3, <3>1, <3>3, Zenon
  <2> QED
    BY <1>2, <2>1, <2>4
<1> QED
  BY <1>0, <1>3, <1>4, <1>5 DEF A

(* The stream grows by the size of each message. *)
LEMMA StreamLens ==
  ASSUME NEW c \in Clients
  PROVE  /\ StreamLen(c, 0) = 0
         /\ \A n \in 0 .. Len(Script[c]) : StreamLen(c, n) \in Nat
         /\ \A n \in 0 .. Len(Script[c]) - 1 :
              StreamLen(c, n + 1) = StreamLen(c, n) + Size(c, n + 1)
<1>0. PICK N \in Nat : N = Len(Script[c])
  BY Requested
<1>1. StreamLen(c, 0) = 0
  <2>1. 0 \in 0 .. Len(Script[c])
    BY <1>0
  <2>2. StreamTo(c, 0) = << >>
    BY <2>1, StreamStep
  <2> QED
    BY <2>2 DEF StreamLen
<1>2. ASSUME NEW n \in 0 .. N PROVE StreamLen(c, n) \in Nat
  BY <1>0, StreamStep, LenProperties DEF StreamLen
<1>3. ASSUME NEW n \in 0 .. N - 1
      PROVE  StreamLen(c, n + 1) = StreamLen(c, n) + Size(c, n + 1)
  <2>1. n \in 0 .. Len(Script[c]) /\ n < Len(Script[c]) /\ n + 1 \in 1 .. Len(Script[c])
    BY <1>0
  <2>2. /\ StreamTo(c, n) \in Seq(Nat \X Nat)
        /\ StreamTo(c, n + 1) = StreamTo(c, n) \o Message(c, n + 1)
    BY <2>1, StreamStep
  <2>3. Message(c, n + 1) \in Seq(Nat \X Nat) /\ Len(Message(c, n + 1)) = Size(c, n + 1)
    BY <2>1, MessageShape
  <2>4. Len(StreamTo(c, n) \o Message(c, n + 1)) = Len(StreamTo(c, n)) + Len(Message(c, n + 1))
    BY <2>2, <2>3, ConcatProperties
  <2> QED
    BY <2>2, <2>3, <2>4 DEF StreamLen
<1> QED
  BY <1>0, <1>1, <1>2, <1>3

(* Later messages are further in the stream. *)
LEMMA StreamMonotone ==
  ASSUME NEW c \in Clients, NEW m \in 0 .. Len(Script[c]), NEW n \in m .. Len(Script[c])
  PROVE  StreamLen(c, m) + (n - m) <= StreamLen(c, n)
<1>0. PICK N \in Nat : N = Len(Script[c])
  BY Requested
<1> DEFINE S == {k \in m .. N : StreamLen(c, m) + (k - m) <= StreamLen(c, k)}
<1>1. m \in S
  <2>1. StreamLen(c, m) \in Nat /\ m \in Nat /\ m \in m .. N
    BY <1>0, StreamLens
  <2> QED
    BY <2>1
<1>2. ASSUME NEW k \in m .. N - 1, k \in S PROVE k + 1 \in S
  <2>1. /\ k \in 0 .. N /\ k + 1 \in 0 .. N /\ k + 1 \in m .. N /\ k \in 0 .. N - 1
        /\ k + 1 \in 1 .. N /\ m \in 0 .. N /\ m \in Nat /\ k \in Nat
    BY <1>0
  <2>2. PICK x \in Nat, y \in Nat, z \in Nat, w \in Nat :
          x = StreamLen(c, m) /\ y = StreamLen(c, k) /\ z = StreamLen(c, k + 1) /\ w = Size(c, k + 1)
    BY <1>0, <2>1, StreamLens, MessageShape
  <2>3. z = y + w /\ w >= 1
    BY <1>0, <2>1, <2>2, StreamLens, MessageShape, Sizes
  <2>4. x + (k - m) <= y
    BY <1>2, <2>2
  <2>5. x + ((k + 1) - m) <= z
    BY <2>1, <2>3, <2>4
  <2> QED
    BY <2>1, <2>2, <2>5
<1>3. m .. N \subseteq S
  <2> HIDE DEF S
  <2>1. m \in Nat
    BY <1>0
  <2> QED
    BY <1>0, <1>1, <1>2, <2>1, BoundedInduction
<1> QED
  BY <1>0, <1>3

(* Unit j of message n + 1 in the stream. *)
LEMMA StreamUnit ==
  ASSUME NEW c \in Clients, NEW n \in Nat, n < Len(Script[c]), NEW j \in 1 .. Size(c, n + 1)
  PROVE  /\ StreamLen(c, n) + j \in 1 .. Len(Stream(c))
         /\ Stream(c)[StreamLen(c, n) + j] = <<n + 1, j>>
<1>0. PICK N \in Nat : N = Len(Script[c]) /\ n < N
  BY Requested
<1>1. PICK p \in Nat, w \in Nat : p = StreamLen(c, n) /\ w = Size(c, n + 1) /\ j \in 1 .. w
  <2>1. n \in 0 .. Len(Script[c]) /\ n + 1 \in 1 .. Len(Script[c])
    BY <1>0
  <2>2. StreamLen(c, n) \in Nat /\ Size(c, n + 1) \in Nat
    BY <2>1, StreamLens, MessageShape
  <2> QED
    BY <2>2
<1>2. \A k \in 0 .. N : StreamTo(c, k) \in Seq(Nat \X Nat) /\ StreamLen(c, k) = Len(StreamTo(c, k))
                        /\ StreamLen(c, k) \in Nat
  BY <1>0, StreamStep, StreamLens DEF StreamLen
<1> DEFINE S == {k \in n + 1 .. N : /\ p + j <= StreamLen(c, k)
                                   /\ StreamTo(c, k)[p + j] = <<n + 1, j>>}
<1>3. n + 1 \in S
  <2>1. n \in 0 .. N /\ n + 1 \in 1 .. N /\ n + 1 \in n + 1 .. N /\ n \in 0 .. N - 1
    BY <1>0
  <2>a. n \in 0 .. Len(Script[c]) /\ n < Len(Script[c]) /\ n + 1 \in 1 .. Len(Script[c])
    BY <1>0, <2>1
  <2>b. PICK s \in Seq(Nat \X Nat) :
          s = StreamTo(c, n) /\ Len(s) = p /\ StreamTo(c, n + 1) = s \o Message(c, n + 1)
    BY <1>1, <2>a, StreamStep DEF StreamLen
  <2>c. PICK t \in Seq(Nat \X Nat) : t = Message(c, n + 1) /\ Len(t) = w /\ t[j] = <<n + 1, j>>
    BY <1>1, <2>a, MessageShape
  <2>2. StreamTo(c, n + 1) = s \o t /\ Len(s) = p /\ Len(t) = w /\ t[j] = <<n + 1, j>>
    BY <2>b, <2>c
  <2>3. (s \o t)[p + j] = t[j]
    <3>1. (s \o t)[p + j] = IF p + j <= p THEN s[p + j] ELSE t[(p + j) - p]
      <4>1. p + j \in 1 .. Len(s) + Len(t)
        BY <1>1, <2>2, SMTT(30)
      <4> QED
        BY <2>2, <4>1, ConcatProperties, ZenonT(30)
    <3>2. ~(p + j <= p) /\ (p + j) - p = j
      BY <1>1
    <3> QED
      BY <3>1, <3>2
  <2>4. StreamLen(c, n + 1) = p + w
    BY <1>0, <1>1, <2>1, StreamLens
  <2>5. p + j <= StreamLen(c, n + 1)
    BY <1>1, <2>4
  <2>6. StreamTo(c, n + 1)[p + j] = <<n + 1, j>>
    BY <2>2, <2>3, Zenon
  <2> QED
    BY <2>1, <2>5, <2>6
<1>4. ASSUME NEW k \in n + 1 .. N - 1, k \in S PROVE k + 1 \in S
  <2>1. /\ k \in 0 .. N /\ k + 1 \in 1 .. N /\ k + 1 \in n + 1 .. N /\ k \in 0 .. N - 1
        /\ k + 1 \in 0 .. N
    BY <1>0
  <2>a. k \in 0 .. Len(Script[c]) /\ k < Len(Script[c]) /\ k + 1 \in 1 .. Len(Script[c])
    BY <1>0, <2>1
  <2>b. PICK s \in Seq(Nat \X Nat) :
          s = StreamTo(c, k) /\ StreamTo(c, k + 1) = s \o Message(c, k + 1)
    BY <2>a, StreamStep
  <2>c. PICK t \in Seq(Nat \X Nat) : t = Message(c, k + 1)
    BY <2>a, MessageShape
  <2>2. s = StreamTo(c, k) /\ StreamTo(c, k + 1) = s \o t
    BY <2>b, <2>c
  <2>3. PICK l \in Nat, w2 \in Nat : l = Len(s) /\ w2 = Len(t)
    BY <2>2, LenProperties
  <2>4. p + j <= l /\ StreamTo(c, k)[p + j] = <<n + 1, j>>
    BY <1>2, <1>4, <2>1, <2>2, <2>3
  <2>5. (s \o t)[p + j] = s[p + j]
    <3>a. p + j \in 1 .. l + w2 /\ p + j <= l
      <4>1. p + j \in Nat /\ p + j >= 1 /\ p + j <= l
        BY <1>1, <2>4, SMTT(30)
      <4> HIDE <2>4
      <4> QED
        BY <4>1
    <3>1. p + j \in 1 .. Len(s) + Len(t) /\ p + j <= Len(s)
      BY <2>3, <3>a, Zenon
    <3>2. (s \o t)[p + j] = IF p + j <= Len(s) THEN s[p + j] ELSE t[(p + j) - Len(s)]
      BY <2>2, <3>1, ConcatProperties
    <3> QED
      BY <3>1, <3>2, Zenon
  <2>6. StreamLen(c, k + 1) = l + w2
    <3>1. Len(s \o t) = Len(s) + Len(t)
      BY ConcatProperties
    <3>2. StreamLen(c, k + 1) = Len(s \o t)
      BY <2>2, Zenon DEF StreamLen
    <3> QED
      BY <2>3, <3>1, <3>2, Zenon
  <2>7. p + j <= StreamLen(c, k + 1)
    BY <1>1, <2>4, <2>6
  <2>8. StreamTo(c, k + 1)[p + j] = <<n + 1, j>>
    BY <2>2, <2>4, <2>5, Zenon
  <2> QED
    BY <2>1, <2>7, <2>8
<1>5. N \in S
  <2>1. n + 1 .. N \subseteq S
    <3> HIDE DEF S
    <3>1. n + 1 \in Nat
      OBVIOUS
    <3> QED
      BY <1>0, <1>3, <1>4, <3>1, BoundedInduction
  <2>2. N \in n + 1 .. N
    BY <1>0
  <2> QED
    BY <2>1, <2>2, Zenon
<1>6. StreamLen(c, N) = Len(Stream(c)) /\ Stream(c) = StreamTo(c, N)
  BY <1>0 DEF StreamLen, Stream
<1>7. N \in 0 .. N
  OBVIOUS
<1>8. p + j <= StreamLen(c, N) /\ StreamTo(c, N)[p + j] = <<n + 1, j>>
  BY <1>5
<1>9. p + j \in 1 .. StreamLen(c, N)
  <2>1. StreamLen(c, N) \in Nat
    BY <1>2, <1>7
  <2> QED
    BY <1>1, <1>8, <2>1
<1> QED
  BY <1>1, <1>6, <1>8, <1>9, Zenon

(* The data of a write in the stream. *)
LEMMA StreamData ==
  ASSUME NEW c \in Clients, NEW n \in Nat, n < Len(Script[c]), Script[c][n + 1].op = "write",
         NEW count, count = Script[c][n + 1].count
  PROVE  SubSeq(Stream(c), StreamLen(c, n) + MsgLen + 1, StreamLen(c, n) + MsgLen + count)
           = SubSeq(Message(c, n + 1), MsgLen + 1, MsgLen + count)
<1>0. n + 1 \in 1 .. Len(Script[c]) /\ n \in 0 .. Len(Script[c])
  BY Requested
<1>1. PICK p \in Nat, w \in Nat, q \in Nat :
        /\ p = StreamLen(c, n) /\ w = MsgLen /\ q = count /\ Size(c, n + 1) = w + q
  <2>1. StreamLen(c, n) \in Nat /\ MsgLen \in Nat
    BY <1>0, StreamLens, Sizes
  <2>2. count \in Nat
    BY <1>0, Requested
  <2>3. Size(c, n + 1) = MsgLen + count
    BY <1>0, MessageShape
  <2> QED
    BY <2>1, <2>2, <2>3, Zenon
<1>2. ASSUME NEW j \in 1 .. w + q
      PROVE  Stream(c)[p + j] = <<n + 1, j>> /\ Message(c, n + 1)[j] = <<n + 1, j>>
  <2>1. j \in 1 .. Size(c, n + 1)
    BY <1>1
  <2>2. Stream(c)[StreamLen(c, n) + j] = <<n + 1, j>>
    BY <2>1, StreamUnit
  <2>3. Message(c, n + 1)[j] = <<n + 1, j>>
    BY <1>0, <2>1, MessageShape
  <2> QED
    BY <1>1, <2>2, <2>3, Zenon
<1>a. \A j \in 1 .. w + q : <<n + 1, j>> \in Nat \X Nat
  OBVIOUS
<1> DEFINE A == Nat \X Nat
           s == SubSeq(Stream(c), p + w + 1, p + w + q)
           t == SubSeq(Message(c, n + 1), w + 1, w + q)
<1>3. \A j \in w + 1 .. w + q : Message(c, n + 1)[j] \in A
  <2>1. \A j \in w + 1 .. w + q : j \in 1 .. w + q
    OBVIOUS
  <2> QED
    BY <1>2, <1>a, <2>1, Zenon
<1>4. \A i \in p + w + 1 .. p + w + q : Stream(c)[i] \in A
  <2> SUFFICES ASSUME NEW i \in p + w + 1 .. p + w + q PROVE Stream(c)[i] \in A
    OBVIOUS
  <2>1. i - p \in 1 .. w + q /\ p + (i - p) = i
    OBVIOUS
  <2>2. Stream(c)[p + (i - p)] = <<n + 1, i - p>>
    BY <1>2, <2>1
  <2> QED
    BY <1>a, <2>1, <2>2, Zenon
<1>5. /\ s \in Seq(A) /\ Len(s) = q
      /\ \A i \in 1 .. q : s[i] = Stream(c)[p + (w + i)]
  <2>1. p + w + 1 \in Int /\ p + w + q \in Int
    OBVIOUS
  <2>2. /\ s \in Seq(A)
        /\ Len(s) = IF p + w + 1 <= p + w + q THEN (p + w + q) - (p + w + 1) + 1 ELSE 0
        /\ \A i \in 1 .. (p + w + q) - (p + w + 1) + 1 : s[i] = Stream(c)[(p + w + 1) + i - 1]
    <3> HIDE DEF A
    <3> QED
      BY <1>4, <2>1, SubSeqProperties
  <2>3. (p + w + q) - (p + w + 1) + 1 = q /\ \A i \in 1 .. q : (p + w + 1) + i - 1 = p + (w + i)
    OBVIOUS
  <2> HIDE DEF s
  <2>4. Len(s) = q
    BY <2>2, <2>3
  <2> QED
    BY <2>2, <2>3, <2>4
<1>6. /\ t \in Seq(A) /\ Len(t) = q
      /\ \A i \in 1 .. q : t[i] = Message(c, n + 1)[w + i]
  <2>1. w + 1 \in Int /\ w + q \in Int
    OBVIOUS
  <2>2. /\ t \in Seq(A)
        /\ Len(t) = IF w + 1 <= w + q THEN (w + q) - (w + 1) + 1 ELSE 0
        /\ \A i \in 1 .. (w + q) - (w + 1) + 1 : t[i] = Message(c, n + 1)[(w + 1) + i - 1]
    <3> HIDE DEF A
    <3> QED
      BY <1>3, <2>1, SubSeqProperties, SMTT(30)
  <2>3. (w + q) - (w + 1) + 1 = q /\ \A i \in 1 .. q : (w + 1) + i - 1 = w + i
    OBVIOUS
  <2> HIDE DEF t
  <2>4. Len(t) = q
    BY <2>2, <2>3
  <2> QED
    BY <2>2, <2>3, <2>4
<1>7. \A i \in 1 .. q : w + i \in 1 .. w + q
  OBVIOUS
<1> HIDE DEF s, t, A
<1>8. \A i \in 1 .. q : s[i] = t[i]
  BY <1>2, <1>5, <1>6, <1>7
<1>9. s = t
  BY <1>5, <1>6, <1>8, SeqEqual
<1> QED
  BY <1>1, <1>9 DEF s, t

(* The messages read to the end are the ones served. *)
LEMMA ProcessedIs ==
  ASSUME NEW c \in Clients, NEW n, Left(c, n), consumed[c] \in Nat
  PROVE  Processed(c) = n
<1>0. PICK N \in Nat, q \in Nat : N = Len(Script[c]) /\ q = consumed[c] /\ n \in 0 .. N
  BY Requested DEF Left
<1>1. StreamLen(c, n) <= q /\ (n < N => q < StreamLen(c, n + 1))
  BY <1>0 DEF Left
<1>2. ASSUME NEW m \in 1 .. N PROVE StreamLen(c, m) <= q <=> m <= n
  <2>1. CASE m <= n
    <3>1. m \in 0 .. Len(Script[c]) /\ n \in m .. Len(Script[c]) /\ n - m \in Nat /\ n \in 0 .. Len(Script[c])
      BY <1>0, <2>1
    <3>2. PICK x \in Nat, y \in Nat : x = StreamLen(c, m) /\ y = StreamLen(c, n)
      BY <3>1, StreamLens
    <3>3. x + (n - m) <= y
      BY <3>1, <3>2, StreamMonotone
    <3> QED
      BY <1>1, <2>1, <3>1, <3>2, <3>3
  <2>2. CASE ~(m <= n)
    <3>1. /\ n + 1 \in 0 .. Len(Script[c]) /\ m \in n + 1 .. Len(Script[c]) /\ m - (n + 1) \in Nat
          /\ m \in 0 .. Len(Script[c]) /\ n < N
      BY <1>0, <2>2
    <3>2. PICK x \in Nat, y \in Nat : x = StreamLen(c, n + 1) /\ y = StreamLen(c, m)
      BY <3>1, StreamLens
    <3>3. x + (m - (n + 1)) <= y
      BY <3>1, <3>2, StreamMonotone
    <3> QED
      BY <1>1, <2>2, <3>1, <3>2, <3>3
  <2> QED
    BY <2>1, <2>2
<1>3. {m \in 1 .. N : StreamLen(c, m) <= q} = 1 .. n
  <2>1. \A m : m \in 1 .. n <=> m \in 1 .. N /\ m <= n
    BY <1>0
  <2> QED
    BY <1>2, <2>1, Zenon
<1>4. Cardinality(1 .. n) = n
  BY <1>0, FS_Interval
<1> QED
  BY <1>0, <1>3, <1>4 DEF Processed

-----------------------------------------------------------------------------
(* The blocks and the replies of the reference                             *)

(* Block contents stay such, whatever is written. *)
LEMMA Contents ==
  /\ Tested \in BlockContents
  /\ << >> \in BlockContents
  /\ \A blk \in BlockContents : \A data \in Seq(Nat \X Nat) :
       VblkWrite(blk, data) \in BlockContents
<1>1. Tested \in BlockContents
  <2>1. BlkLen \in Nat
    BY Sizes
  <2>2. Tested \in [1 .. BlkLen -> Vals]
    BY DEF Tested, Vals
  <2>3. Tested \in Seq(Vals) /\ Len(Tested) = BlkLen
    BY <2>1, <2>2, SeqDef DEF Tested
  <2> QED
    BY <2>1, <2>3 DEF BlockContents
<1>2. << >> \in BlockContents
  BY Sizes, EmptySeq DEF BlockContents
<1>3. ASSUME NEW blk \in BlockContents, NEW data \in Seq(Nat \X Nat)
      PROVE  VblkWrite(blk, data) \in BlockContents
  <2>1. data \in Seq(Vals)
    <3>1. Nat \X Nat \subseteq Vals
      BY DEF Vals
    <3> QED
      BY <3>1, SeqMonotonic
  <2>2. blk \in Seq(Vals)
    BY DEF BlockContents
  <2>3. blk \o data \in Seq(Vals) /\ Len(blk \o data) = Len(blk) + Len(data)
    BY <2>1, <2>2, ConcatProperties
  <2> QED
    BY <2>3 DEF VblkWrite, BlockContents
<1> QED
  BY <1>1, <1>2, <1>3

(* Changing one block, or one there is not. *)
LEMMA OneBlock ==
  ASSUME NEW bs \in Seq(BlockContents), NEW k \in Nat, NEW e,
         k \in DOMAIN bs => e \in BlockContents
  PROVE  [bs EXCEPT ![k] = e] \in Seq(BlockContents)
<1>1. CASE k \in DOMAIN bs
  BY <1>1, LenProperties, ExceptSeq
<1>2. CASE k \notin DOMAIN bs
  <2>1. bs \in [1 .. Len(bs) -> BlockContents]
    BY LenProperties
  <2>2. [bs EXCEPT ![k] = e] = bs
    BY <1>2, <2>1
  <2> QED
    BY <2>2
<1> QED
  BY <1>1, <1>2

(* The new blocks of a grant. *)
LEMMA NewBlocks ==
  ASSUME NEW bs \in Seq(BlockContents)
  PROVE  bs \o [i \in 1 .. VblksPerAlloc |-> Tested] \in Seq(BlockContents)
<1>1. [i \in 1 .. VblksPerAlloc |-> Tested] \in [1 .. VblksPerAlloc -> BlockContents]
  BY Contents
<1>2. [i \in 1 .. VblksPerAlloc |-> Tested] \in Seq(BlockContents)
  BY <1>1, Sizes, SeqDef
<1> QED
  BY <1>2, ConcatProperties

(* The data of message n. *)
LEMMA DataType ==
  ASSUME NEW c \in Clients, NEW n \in 1 .. Len(Script[c]), Script[c][n].op = "write"
  PROVE  SubSeq(Message(c, n), MsgLen + 1, MsgLen + Script[c][n].count) \in Seq(Nat \X Nat)
<1>1. PICK w \in Nat, q \in Nat : w = MsgLen /\ q = Script[c][n].count /\ Size(c, n) = w + q
  BY Requested, Sizes, MessageShape
<1>2. \A i \in w + 1 .. w + q : Message(c, n)[i] \in Nat \X Nat
  <2> SUFFICES ASSUME NEW i \in w + 1 .. w + q PROVE Message(c, n)[i] \in Nat \X Nat
    OBVIOUS
  <2>1. i \in 1 .. Size(c, n)
    BY <1>1
  <2>2. Message(c, n) \in Seq(Nat \X Nat) /\ Len(Message(c, n)) = Size(c, n)
    BY MessageShape
  <2> QED
    BY <2>1, <2>2, ElementOfSeq
<1>3. w + 1 \in Int /\ w + q \in Int
  OBVIOUS
<1> QED
  BY <1>1, <1>2, <1>3, SubSeqProperties

(* One message leaves blocks. *)
LEMMA RefStepType ==
  ASSUME NEW c \in Clients, NEW n \in 1 .. Len(Script[c]), NEW bs \in Seq(BlockContents)
  PROVE  RefStep(c, n, bs) \in Seq(BlockContents)
<1> DEFINE r == Script[c][n]
           data == SubSeq(Message(c, n), MsgLen + 1, MsgLen + r.count)
<1>0. r.idx + 1 \in Nat
  BY Requested
<1>1. CASE r.op = "alloc" /\ r.remote
  <2>1. RefStep(c, n, bs) = bs \o [i \in 1 .. VblksPerAlloc |-> Tested]
    BY <1>1 DEF RefStep
  <2> QED
    BY <2>1, NewBlocks
<1>2. CASE r.op = "write"
  <2>1. RefStep(c, n, bs) = [bs EXCEPT ![r.idx + 1] = VblkWrite(bs[r.idx + 1], data)]
    BY <1>2 DEF RefStep
  <2>2. data \in Seq(Nat \X Nat)
    BY <1>2, DataType
  <2> HIDE DEF data
  <2>3. r.idx + 1 \in DOMAIN bs => VblkWrite(bs[r.idx + 1], data) \in BlockContents
    <3>1. r.idx + 1 \in DOMAIN bs => bs[r.idx + 1] \in BlockContents
      BY LenProperties
    <3> QED
      BY <2>2, <3>1, Contents
  <2>4. [bs EXCEPT ![r.idx + 1] = VblkWrite(bs[r.idx + 1], data)] \in Seq(BlockContents)
    BY <1>0, <2>3, OneBlock
  <2> QED
    BY <2>1, <2>4
<1>3. CASE r.op = "erase"
  <2>1. RefStep(c, n, bs) = [bs EXCEPT ![r.idx + 1] = << >>]
    BY <1>3 DEF RefStep
  <2>2. [bs EXCEPT ![r.idx + 1] = << >>] \in Seq(BlockContents)
    BY <1>0, Contents, OneBlock
  <2> QED
    BY <2>1, <2>2
<1>4. CASE ~(r.op = "alloc" /\ r.remote) /\ r.op # "write" /\ r.op # "erase"
  BY <1>4 DEF RefStep
<1> QED
  BY <1>1, <1>2, <1>3, <1>4

(* What the reference's recursive function is. *)
RefBlocks(c, n, f) ==
  f = [m \in 0 .. n |-> IF m = 0 THEN << >> ELSE RefStep(c, m, f[m - 1])]

(* There is such a function for any number of messages. *)
LEMMA RefBlocksExist ==
  ASSUME NEW c \in Clients, NEW N \in Nat
  PROVE  \E f : RefBlocks(c, N, f)
<1> DEFINE S == {n \in Nat : \E f : RefBlocks(c, n, f)}
<1>1. 0 \in S
  <2> DEFINE f == [m \in 0 .. 0 |-> << >>]
  <2>1. RefBlocks(c, 0, f)
    BY DEF RefBlocks
  <2> QED
    BY <2>1
<1>2. ASSUME NEW n \in Nat, n \in S PROVE n + 1 \in S
  <2>1. PICK f : RefBlocks(c, n, f)
    BY <1>2
  <2> DEFINE g == [m \in 0 .. n + 1 |-> IF m = n + 1 THEN RefStep(c, n + 1, f[n]) ELSE f[m]]
  <2>2. \A m \in 0 .. n : g[m] = f[m]
    BY <2>1 DEF RefBlocks
  <2>3. ASSUME NEW m \in 0 .. n + 1
        PROVE  g[m] = IF m = 0 THEN << >> ELSE RefStep(c, m, g[m - 1])
    <3>1. CASE m = n + 1
      <4>1. m # 0 /\ m - 1 = n /\ n \in 0 .. n
        BY <3>1
      <4>2. g[m] = RefStep(c, n + 1, f[n]) /\ g[n] = f[n]
        BY <2>2, <3>1, <4>1
      <4> HIDE DEF g
      <4> QED
        BY <3>1, <4>1, <4>2
    <3>2. CASE m # n + 1
      <4>1. m \in 0 .. n /\ (m # 0 => m - 1 \in 0 .. n)
        BY <3>2
      <4>2. f[m] = IF m = 0 THEN << >> ELSE RefStep(c, m, f[m - 1])
        <5> HIDE DEF g
        <5> QED
          BY <2>1, <4>1, Zenon DEF RefBlocks
      <4>3. g[m] = f[m] /\ (m # 0 => g[m - 1] = f[m - 1])
        BY <2>2, <4>1
      <4> HIDE DEF g
      <4> QED
        BY <4>2, <4>3, Zenon
    <3> QED
      BY <3>1, <3>2, Zenon
  <2>4. g = [m \in 0 .. n + 1 |-> g[m]]
    OBVIOUS
  <2>5. RefBlocks(c, n + 1, g)
    <3> HIDE DEF g
    <3> QED
      BY <2>3, <2>4, Zenon DEF RefBlocks
  <2> QED
    BY <2>5
<1>3. Nat \subseteq S
  <2> HIDE DEF S
  <2> QED
    BY <1>1, <1>2, SetInduction
<1> QED
  BY <1>3

(* The reference's blocks, message by message. *)
LEMMA RefVblksSteps ==
  ASSUME NEW c \in Clients
  PROVE  /\ RefVblks(c, 0) = << >>
         /\ \A n \in 0 .. Len(Script[c]) - 1 :
              RefVblks(c, n + 1) = RefStep(c, n + 1, RefVblks(c, n))
<1>0. PICK N \in Nat : N = Len(Script[c])
  BY Requested
<1> DEFINE h == CHOOSE f : f = [m \in 0 .. N |-> IF m = 0 THEN << >> ELSE RefStep(c, m, f[m - 1])]
<1>1. h = [m \in 0 .. N |-> IF m = 0 THEN << >> ELSE RefStep(c, m, h[m - 1])]
  <2>1. \E f : f = [m \in 0 .. N |-> IF m = 0 THEN << >> ELSE RefStep(c, m, f[m - 1])]
    BY RefBlocksExist DEF RefBlocks
  <2> QED
    BY <2>1
<1>2. \A n : RefVblks(c, n) = h[n]
  BY <1>0 DEF RefVblks
<1> HIDE DEF h
<1>3. h[0] = << >>
  <2>1. 0 \in 0 .. N
    OBVIOUS
  <2>2. h[0] = IF 0 = 0 THEN << >> ELSE RefStep(c, 0, h[0 - 1])
    BY <1>1, <2>1, Zenon
  <2> QED
    BY <2>2, Zenon
<1>4. ASSUME NEW n \in 0 .. N - 1 PROVE h[n + 1] = RefStep(c, n + 1, h[n])
  <2>1. n + 1 \in 0 .. N /\ n + 1 # 0 /\ (n + 1) - 1 = n
    BY <1>0
  <2>2. h[n + 1] = IF n + 1 = 0 THEN << >> ELSE RefStep(c, n + 1, h[(n + 1) - 1])
    BY <1>1, <2>1, Zenon
  <2> QED
    BY <2>1, <2>2, Zenon
<1> QED
  BY <1>0, <1>2, <1>3, <1>4

(* They are blocks. *)
LEMMA RefVblksType ==
  ASSUME NEW c \in Clients, NEW n \in 0 .. Len(Script[c])
  PROVE  RefVblks(c, n) \in Seq(BlockContents)
<1>0. PICK N \in Nat : N = Len(Script[c])
  BY Requested
<1> DEFINE S == {m \in 0 .. N : RefVblks(c, m) \in Seq(BlockContents)}
<1>1. 0 \in S
  <2>1. RefVblks(c, 0) = << >>
    BY RefVblksSteps
  <2>2. << >> \in Seq(BlockContents)
    BY EmptySeq
  <2>3. 0 \in 0 .. N
    OBVIOUS
  <2> QED
    BY <2>1, <2>2, <2>3, Zenon
<1>2. ASSUME NEW m \in 0 .. N - 1, m \in S PROVE m + 1 \in S
  <2>1. m + 1 \in 0 .. N /\ m + 1 \in 1 .. Len(Script[c])
    BY <1>0
  <2>2. RefVblks(c, m + 1) = RefStep(c, m + 1, RefVblks(c, m))
    BY <1>0, RefVblksSteps
  <2>3. RefVblks(c, m) \in Seq(BlockContents)
    BY <1>2
  <2>4. RefStep(c, m + 1, RefVblks(c, m)) \in Seq(BlockContents)
    BY <2>1, <2>3, RefStepType
  <2> QED
    BY <2>1, <2>2, <2>4
<1>3. 0 .. N \subseteq S
  <2> HIDE DEF S
  <2> QED
    BY <1>0, <1>1, <1>2, BoundedInduction
<1> QED
  BY <1>0, <1>3

(* The reply to message n of a server whose blocks are bs. *)
Answer(c, n, bs) ==
  LET r == Script[c][n] IN
  CASE r.op = "alloc" -> AllocReply(c, n)
    [] r.op = "read" -> ReadReply(c, n, VblkRead(GetBlock(bs, r.idx), r.count, r.offset))
    [] OTHER -> << >>

(* What a read returns. *)
LEMMA ReadType ==
  ASSUME NEW bs \in Seq(BlockContents), NEW idx \in Nat, NEW count \in Nat, NEW offset \in Nat
  PROVE  /\ VblkRead(GetBlock(bs, idx), count, offset) \in Seq(Vals)
         /\ Len(VblkRead(GetBlock(bs, idx), count, offset)) = count
<1>1. PICK blk \in Seq(Vals) : blk = GetBlock(bs, idx)
  <2>1. GetBlock(bs, idx) \in BlockContents
    BY Contents, LenProperties DEF GetBlock
  <2> QED
    BY <2>1 DEF BlockContents
<1>2. CASE offset + count <= Len(blk)
  <2>1. PICK k \in Nat : k = Len(blk) /\ offset + count <= k
    BY <1>2, LenProperties
  <2>2. \A i \in offset + 1 .. offset + count : blk[i] \in Vals
    <3>1. \A i \in offset + 1 .. offset + count : i \in 1 .. Len(blk)
      BY <2>1
    <3> QED
      BY <3>1, ElementOfSeq
  <2>3. offset + 1 \in Int /\ offset + count \in Int
    OBVIOUS
  <2>4. /\ SubSeq(blk, offset + 1, offset + count) \in Seq(Vals)
        /\ Len(SubSeq(blk, offset + 1, offset + count))
             = IF offset + 1 <= offset + count THEN (offset + count) - (offset + 1) + 1 ELSE 0
    BY <2>2, <2>3, SubSeqProperties
  <2>5. (IF offset + 1 <= offset + count THEN (offset + count) - (offset + 1) + 1 ELSE 0) = count
    OBVIOUS
  <2>6. VblkRead(blk, count, offset) = SubSeq(blk, offset + 1, offset + count)
    BY <1>2 DEF VblkRead
  <2> QED
    BY <1>1, <2>4, <2>5, <2>6, Zenon
<1>3. CASE ~(offset + count <= Len(blk))
  <2>1. VblkRead(blk, count, offset) = [i \in 1 .. count |-> Garbage]
    BY <1>3 DEF VblkRead
  <2>2. [i \in 1 .. count |-> Garbage] \in [1 .. count -> Vals]
    BY DEF Vals
  <2>3. [i \in 1 .. count |-> Garbage] \in Seq(Vals) /\ Len([i \in 1 .. count |-> Garbage]) = count
    BY <2>2, SeqDef
  <2> QED
    BY <1>1, <2>1, <2>3, Zenon
<1> QED
  BY <1>2, <1>3

(* A reply is made of the connection's own units, and one to an allocation *)
(* is not empty.                                                           *)
LEMMA AnswerType ==
  ASSUME NEW c \in Clients, NEW n \in 1 .. Len(Script[c]), NEW bs \in Seq(BlockContents)
  PROVE  /\ Answer(c, n, bs) \in Seq(UnitsOf(c))
         /\ Script[c][n].op = "alloc" => Len(Answer(c, n, bs)) > 0
<1>0. n \in Nat
  BY Requested
<1>1. CASE Script[c][n].op = "alloc"
  <2>1. Answer(c, n, bs) = AllocReply(c, n)
    BY <1>1 DEF Answer
  <2>2. AllocReply(c, n) \in [1 .. AllocLen -> UnitsOf(c)]
    BY <1>0 DEF AllocReply, UnitsOf, ReplyVals
  <2>3. AllocReply(c, n) \in Seq(UnitsOf(c)) /\ Len(AllocReply(c, n)) = AllocLen /\ AllocLen > 0
    BY <2>2, Sizes, SeqDef DEF AllocReply
  <2> QED
    BY <2>1, <2>3
<1>2. CASE Script[c][n].op = "read"
  <2>1. PICK data \in Seq(Vals) :
          data = VblkRead(GetBlock(bs, Script[c][n].idx), Script[c][n].count, Script[c][n].offset)
    BY ReadType, Requested
  <2>2. Answer(c, n, bs) = ReadReply(c, n, data)
    BY <1>2, <2>1 DEF Answer
  <2>3. PICK k \in Nat : k = Len(data)
    BY LenProperties
  <2>4. ReadReply(c, n, data) \in [1 .. k -> UnitsOf(c)]
    <3>1. ReadReply(c, n, data) = [i \in 1 .. k |-> [of |-> c, msg |-> n, val |-> data[i]]]
      BY <2>3 DEF ReadReply
    <3>2. \A i \in 1 .. k : data[i] \in ReplyVals
      BY <2>3, ElementOfSeq DEF ReplyVals
    <3>3. \A i \in 1 .. k : [of |-> c, msg |-> n, val |-> data[i]] \in UnitsOf(c)
      BY <1>0, <3>2 DEF UnitsOf
    <3> QED
      BY <3>1, <3>3
  <2>5. ReadReply(c, n, data) \in Seq(UnitsOf(c))
    BY <2>4, SeqDef
  <2> QED
    BY <1>2, <2>2, <2>5
<1>3. CASE Script[c][n].op \notin {"alloc", "read"}
  BY <1>3, EmptySeq DEF Answer
<1> QED
  BY <1>1, <1>2, <1>3

(* The reference's replies, message by message. *)
LEMMA RefRepliesSteps ==
  ASSUME NEW c \in Clients
  PROVE  /\ RefReplies(c, 0) = << >>
         /\ \A n \in 0 .. Len(Script[c]) : RefReplies(c, n) \in Seq(UnitsOf(c))
         /\ \A n \in 0 .. Len(Script[c]) - 1 :
              RefReplies(c, n + 1) = Cat(RefReplies(c, n), Answer(c, n + 1, RefVblks(c, n)))
<1>0. PICK N \in Nat : N = Len(Script[c])
  BY Requested
<1> DEFINE A == UnitsOf(c)
           rs(k) == [m \in 1 .. k |-> RefReply(c, m)]
<1>1. ASSUME NEW m \in 1 .. N
      PROVE  RefReply(c, m) = Answer(c, m, RefVblks(c, m - 1)) /\ RefReply(c, m) \in Seq(A)
  <2>1. RefReply(c, m) = Answer(c, m, RefVblks(c, m - 1))
    BY DEF RefReply, Answer
  <2>2. m - 1 \in 0 .. Len(Script[c]) /\ m \in 1 .. Len(Script[c])
    BY <1>0
  <2>3. RefVblks(c, m - 1) \in Seq(BlockContents)
    BY <2>2, RefVblksType
  <2>4. Answer(c, m, RefVblks(c, m - 1)) \in Seq(A)
    BY <2>2, <2>3, AnswerType
  <2> QED
    BY <2>1, <2>4
<1>2. ASSUME NEW k \in 0 .. N
      PROVE  /\ rs(k) \in Seq(Seq(A)) /\ Len(rs(k)) = k
             /\ \A m \in 1 .. k : rs(k)[m] = RefReply(c, m)
  <2>1. \A m \in 1 .. k : m \in 1 .. N
    BY <1>0
  <2> HIDE DEF A
  <2>2. rs(k) \in [1 .. k -> Seq(A)] /\ k \in Nat
    BY <1>0, <1>1, <2>1
  <2> QED
    BY <2>2, SeqDef
<1>3. \A k : RefReplies(c, k) = FlattenSeq(rs(k))
  BY DEF RefReplies
<1> HIDE DEF rs, A
<1>4. ASSUME NEW k \in 0 .. N PROVE RefReplies(c, k) \in Seq(A)
  BY <1>2, <1>3, FlattenType
<1>5. RefReplies(c, 0) = << >>
  <2>1. 0 \in 0 .. N
    OBVIOUS
  <2>2. rs(0) \in Seq(Seq(A)) /\ Len(rs(0)) = 0
    BY <1>2, <2>1
  <2>3. rs(0) = << >>
    BY <2>2, EmptySeq
  <2> QED
    BY <1>3, <2>2, <2>3, FlattenEmpty
<1>6. ASSUME NEW n \in 0 .. N - 1
      PROVE  RefReplies(c, n + 1) = Cat(RefReplies(c, n), Answer(c, n + 1, RefVblks(c, n)))
  <2>1. /\ n \in 0 .. N /\ n + 1 \in 0 .. N /\ n + 1 \in 1 .. N /\ n \in Nat /\ (n + 1) - 1 = n
        /\ n + 1 \in 1 .. n + 1 /\ \A m \in 1 .. n : m \in 1 .. n + 1
    BY <1>0
  <2>2. PICK u \in Seq(A) : u = RefReply(c, n + 1) /\ u = Answer(c, n + 1, RefVblks(c, n))
    BY <1>1, <2>1
  <2>3. PICK x \in Seq(Seq(A)), y \in Seq(Seq(A)) : x = rs(n) /\ y = rs(n + 1)
    BY <1>2, <2>1
  <2>4. /\ Len(x) = n /\ \A m \in 1 .. n : x[m] = RefReply(c, m)
        /\ Len(y) = n + 1 /\ \A m \in 1 .. n + 1 : y[m] = RefReply(c, m)
    BY <1>2, <2>1, <2>3
  <2>5. /\ Len(y) = Len(x) + 1 /\ y[Len(x) + 1] = u
        /\ \A m \in 1 .. Len(x) : y[m] = x[m]
    BY <2>1, <2>2, <2>4
  <2>6. FlattenSeq(y) = FlattenSeq(x) \o u
    BY <2>5, FlattenAppend, ZenonT(30)
  <2> QED
    BY <1>3, <2>2, <2>3, <2>6, Zenon DEF Cat
<1> QED
  BY <1>0, <1>4, <1>5, <1>6 DEF A

(* Later messages only add replies. *)
LEMMA RefRepliesMonotone ==
  ASSUME NEW c \in Clients, NEW m \in 0 .. Len(Script[c]), NEW n \in m .. Len(Script[c])
  PROVE  Len(RefReplies(c, m)) <= Len(RefReplies(c, n))
<1>0. PICK N \in Nat : N = Len(Script[c])
  BY Requested
<1> DEFINE S == {k \in m .. N : Len(RefReplies(c, m)) <= Len(RefReplies(c, k))}
<1>1. m \in S
  <2>1. RefReplies(c, m) \in Seq(UnitsOf(c)) /\ m \in m .. N
    BY <1>0, RefRepliesSteps
  <2>2. Len(RefReplies(c, m)) \in Nat
    BY <2>1, LenProperties
  <2> QED
    BY <2>1, <2>2
<1>2. ASSUME NEW k \in m .. N - 1, k \in S PROVE k + 1 \in S
  <2>1. /\ k \in 0 .. N - 1 /\ k + 1 \in m .. N /\ k + 1 \in 1 .. Len(Script[c])
        /\ k \in 0 .. Len(Script[c]) /\ m \in 0 .. N
    BY <1>0
  <2>2. Answer(c, k + 1, RefVblks(c, k)) \in Seq(UnitsOf(c))
    BY <2>1, RefVblksType, AnswerType
  <2>3. PICK s \in Seq(UnitsOf(c)), t \in Seq(UnitsOf(c)) :
          s = RefReplies(c, k) /\ t = Answer(c, k + 1, RefVblks(c, k))
    BY <2>1, <2>2, RefRepliesSteps
  <2>4. RefReplies(c, k + 1) = Cat(s, t)
    BY <1>0, <2>1, <2>3, RefRepliesSteps
  <2>5. Len(Cat(s, t)) = Len(s) + Len(t) /\ Len(s) \in Nat /\ Len(t) \in Nat
    BY CatFacts, LenProperties
  <2>6. Len(RefReplies(c, m)) \in Nat
    BY <1>0, <2>1, RefRepliesSteps, LenProperties
  <2>7. Len(RefReplies(c, m)) <= Len(s)
    BY <1>2, <2>3
  <2>8. Len(RefReplies(c, m)) <= Len(RefReplies(c, k + 1))
    BY <2>4, <2>5, <2>6, <2>7
  <2> QED
    BY <2>1, <2>8
<1>3. m .. N \subseteq S
  <2> HIDE DEF S
  <2>1. m \in Nat
    BY <1>0
  <2> QED
    BY <1>0, <1>1, <1>2, <2>1, BoundedInduction
<1> QED
  BY <1>0, <1>3

-----------------------------------------------------------------------------
(* Descriptors and the callback under way                                  *)

(* What a step can be. *)
LEMMA Steps ==
  ASSUME Next
  PROVE  \/ Interrupt
         \/ \E c \in Clients :
              \/ Connect(c) \/ ClientSend(c) \/ ClientRecv(c) \/ ClientClose(c) \/ Arrive(c)
              \/ OnAccept(c) \/ OnRead(c) \/ ReadMessage(c) \/ ReadPayload(c)
              \/ ReadReturnsZero(c) \/ ReadReturnsError(c)
              \/ ProcessAlloc(c) \/ RefuseAlloc(c) \/ OpenDeviceFails(c) \/ ProcessRead(c)
              \/ ProcessErase(c) \/ ProcessUnknown(c) \/ ProcessWrite(c) \/ WriteVblk(c)
              \/ OnWrite(c) \/ OnWriteError(c)
BY DEF Next, ClientStep, InCallback

(* The callback's connection is a client with an ev_read. *)
LEMMA Inside ==
  ASSUME Callback, Descriptors, NEW c \in Clients
  PROVE  /\ cb = NoCb => cb.conn # c
         /\ cb.conn = c => c \in ev_read /\ ~Dropped(c) /\ fd[c] \in 1 .. NumFds /\ c \in conns
         /\ cb.conn = c => InCommand(c) \/ InPayload(c)
         /\ ~(InCommand(c) /\ InPayload(c))
<1>1. cb = NoCb => cb.conn # c
  BY Sizes DEF NoCb
<1>2. cb.conn = c => c \in ev_read
  BY <1>1 DEF Callback
<1>3. c \in ev_read => ~Dropped(c) /\ fd[c] \in 1 .. NumFds /\ c \in conns
  <2>1. fd[c] \in 0 .. NumFds /\ NumFds \in Nat
    BY Sizes DEF Descriptors
  <2> QED
    BY <2>1 DEF Descriptors, Dropped
<1>4. cb.conn = c => InCommand(c) \/ InPayload(c)
  BY <1>1 DEF Callback, InCommand, InPayload
<1>5. ~(InCommand(c) /\ InPayload(c))
  BY DEF InCommand, InPayload
<1> QED
  BY <1>1, <1>2, <1>3, <1>4, <1>5

(* Everyone's connection is as dropped as it was. *)
SameDropped == \A d \in Clients : Dropped(d)' <=> Dropped(d)

(* Steps that leave the descriptors alone. *)
LEMMA DescriptorsKept ==
  ASSUME Descriptors, UNCHANGED <<owner, fd, conns, ev_read>>
  PROVE  Descriptors' /\ SameDropped
<1>1. Descriptors'
  BY DEF Descriptors
<1>2. SameDropped
  BY DEF SameDropped, Dropped
<1> QED
  BY <1>1, <1>2

(* accept() takes a descriptor that is nobody's. *)
LEMMA DescriptorsOnAccept ==
  ASSUME Descriptors, NEW c \in Clients, OnAccept(c)
  PROVE  Descriptors' /\ SameDropped
<1>1. PICK f \in 1 .. NumFds : f = Min(FreeFds) /\ owner[f] = NoClient
  <2>1. FreeFds \subseteq Nat /\ FreeFds # {}
    BY Sizes DEF FreeFds, OnAccept
  <2>2. Min(FreeFds) \in FreeFds
    BY <2>1, MinNat
  <2> QED
    BY <2>2 DEF FreeFds
<1>2. /\ fd[c] = 0 /\ fd' = [fd EXCEPT ![c] = f] /\ owner' = [owner EXCEPT ![f] = c]
      /\ conns' = conns \cup {c} /\ ev_read' = ev_read \cup {c}
  BY <1>1 DEF OnAccept
<1>3. f # 0 /\ f \in 0 .. NumFds /\ c # NoClient
  BY Sizes
<1>4. fd' \in [Clients -> 0 .. NumFds] /\ owner' \in [1 .. NumFds -> Clients \cup {NoClient}]
  BY <1>2, <1>3 DEF Descriptors
<1>5. /\ fd'[c] = f /\ \A d \in Clients : d # c => fd'[d] = fd[d]
      /\ owner'[f] = c /\ \A g \in 1 .. NumFds : g # f => owner'[g] = owner[g]
  BY <1>2 DEF Descriptors
<1>6. ASSUME NEW g \in 1 .. NumFds, owner'[g] # NoClient PROVE fd'[owner'[g]] = g
  <2>1. CASE g = f
    BY <1>5, <2>1
  <2>2. CASE g # f
    <3>1. owner'[g] = owner[g] /\ owner[g] \in Clients /\ fd[owner[g]] = g
      BY <1>5, <1>6, <2>2 DEF Descriptors
    <3>2. owner[g] # c
      BY <1>2, <3>1
    <3> QED
      BY <1>5, <3>1, <3>2
  <2> QED
    BY <2>1, <2>2
<1>7. ASSUME NEW d \in Clients
      PROVE  /\ d \in conns' <=> fd'[d] # 0
             /\ d \in ev_read' <=> fd'[d] # 0 /\ owner'[fd'[d]] = d
             /\ (fd'[d] # 0 /\ owner'[fd'[d]] # d) <=> (fd[d] # 0 /\ owner[fd[d]] # d)
  <2>1. CASE d = c
    BY <1>2, <1>3, <1>5, <2>1
  <2>2. CASE d # c
    <3>1. fd'[d] = fd[d] /\ fd[d] \in 0 .. NumFds
      BY <1>5, <2>2 DEF Descriptors
    <3>2. fd[d] # 0 => (owner'[fd[d]] = d <=> owner[fd[d]] = d)
      <4>1. d # NoClient
        BY Sizes
      <4>2. fd[d] # 0 => fd[d] \in 1 .. NumFds
        BY <3>1
      <4> QED
        BY <1>1, <1>5, <2>2, <4>1, <4>2
    <3>3. /\ d \in conns <=> fd[d] # 0
          /\ d \in ev_read <=> fd[d] # 0 /\ owner[fd[d]] = d
      BY DEF Descriptors
    <3> QED
      BY <1>2, <2>2, <3>1, <3>2, <3>3
  <2> QED
    BY <2>1, <2>2
<1>8. conns' \subseteq Clients /\ ev_read' \subseteq Clients
  BY <1>2 DEF Descriptors
<1>9. Descriptors'
  BY <1>4, <1>6, <1>7, <1>8 DEF Descriptors
<1>10. SameDropped
  BY <1>7 DEF SameDropped, Dropped
<1> QED
  BY <1>9, <1>10

(* close() of the callback's connection, and of no other. *)
LEMMA DescriptorsDisconnect ==
  ASSUME Descriptors, Callback, NEW c \in Clients, cb.conn = c, Disconnect(c)
  PROVE  /\ Descriptors' /\ Dropped(c)'
         /\ \A d \in Clients : d # c => (Dropped(d)' <=> Dropped(d))
<1>1. PICK f \in 1 .. NumFds : f = fd[c] /\ owner[f] = c
  BY Inside DEF Descriptors
<1>2. owner' = [owner EXCEPT ![f] = NoClient] /\ ev_read' = ev_read \ {c} /\ fd' = fd /\ conns' = conns
  BY <1>1 DEF Disconnect, connVars
<1>3. f # 0 /\ c # NoClient
  BY Sizes
<1>4. owner' \in [1 .. NumFds -> Clients \cup {NoClient}]
  BY <1>2 DEF Descriptors
<1>5. owner'[f] = NoClient /\ \A g \in 1 .. NumFds : g # f => owner'[g] = owner[g]
  BY <1>2 DEF Descriptors
<1>6. ASSUME NEW g \in 1 .. NumFds, owner'[g] # NoClient PROVE fd'[owner'[g]] = g
  BY <1>2, <1>5, <1>6 DEF Descriptors
<1>7. ASSUME NEW d \in Clients, d # c
      PROVE  /\ d \in ev_read' <=> fd[d] # 0 /\ owner'[fd[d]] = d
             /\ (fd[d] # 0 /\ owner'[fd[d]] # d) <=> (fd[d] # 0 /\ owner[fd[d]] # d)
  <2>1. d # NoClient /\ fd[d] \in 0 .. NumFds /\ (d \in ev_read <=> fd[d] # 0 /\ owner[fd[d]] = d)
    BY Sizes DEF Descriptors
  <2>2. fd[d] # 0 => fd[d] \in 1 .. NumFds
    BY <2>1
  <2>3. fd[d] # 0 => (owner'[fd[d]] = d <=> owner[fd[d]] = d)
    BY <1>1, <1>5, <1>7, <2>1, <2>2
  <2> QED
    BY <1>2, <1>7, <2>1, <2>3
<1>8. c \notin ev_read' /\ owner'[fd[c]] # c /\ fd[c] # 0
  BY <1>1, <1>2, <1>3, <1>5
<1>9. Descriptors'
  <2>1. \A d \in Clients : d \in ev_read' <=> fd'[d] # 0 /\ owner'[fd'[d]] = d
    BY <1>2, <1>7, <1>8
  <2>2. \A d \in Clients : d \in conns' <=> fd'[d] # 0
    BY <1>2 DEF Descriptors
  <2>3. fd' \in [Clients -> 0 .. NumFds] /\ conns' \subseteq Clients /\ ev_read' \subseteq Clients
    BY <1>2 DEF Descriptors
  <2> QED
    BY <1>4, <1>6, <2>1, <2>2, <2>3 DEF Descriptors
<1>10. Dropped(c)' /\ \A d \in Clients : d # c => (Dropped(d)' <=> Dropped(d))
  BY <1>2, <1>7, <1>8 DEF Dropped
<1> QED
  BY <1>9, <1>10

(* A read() that gets nothing is of the callback's connection. *)
LEMMA Disconnects ==
  ASSUME NEW c \in Clients, ReadReturnsZero(c) \/ ReadReturnsError(c)
  PROVE  cb.conn = c /\ Disconnect(c) /\ Reading(c)
BY DEF ReadReturnsZero, ReadReturnsError, Reading, InCommand, InPayload

(* Who is dropped in a step. *)
LEMMA DescriptorsStep ==
  ASSUME Descriptors, Callback, [Next]_vars
  PROVE  /\ Descriptors'
         /\ SameDropped \/ \E c \in Clients : ReadReturnsZero(c) \/ ReadReturnsError(c)
<1>1. CASE \E c \in Clients : OnAccept(c)
  BY <1>1, DescriptorsOnAccept
<1>2. CASE \E c \in Clients : ReadReturnsZero(c) \/ ReadReturnsError(c)
  BY <1>2, Disconnects, DescriptorsDisconnect
<1>3. CASE ~(\E c \in Clients : OnAccept(c) \/ ReadReturnsZero(c) \/ ReadReturnsError(c))
  <2>1. UNCHANGED <<owner, fd, conns, ev_read>>
    <3>1. CASE Next
      BY <1>3, <3>1, Steps, ZenonT(30)
      DEF Interrupt, Connect, ClientSend, ClientRecv, ClientClose, Arrive, OnRead, ReadMessage,
          ReadPayload, ProcessAlloc, RefuseAlloc, OpenDeviceFails, ProcessRead, ProcessErase,
          ProcessUnknown, ProcessWrite, WriteVblk, OnWrite, OnWriteError, connVars
    <3>2. CASE UNCHANGED vars
      BY <3>2 DEF vars, connVars
    <3> QED
      BY <3>1, <3>2
  <2> QED
    BY <2>1, DescriptorsKept
<1> QED
  BY <1>1, <1>2, <1>3

-----------------------------------------------------------------------------
(* The place in the stream                                                 *)

(* The place of a connection that the callback is in. *)
LEMMA InPlace ==
  ASSUME Callback, Descriptors, NEW c \in Clients, NEW n, Place(c, n), cb.conn = c
  PROVE  At(c, n) /\ n \in Nat
BY Inside, Requested DEF Place, At

(* A full message buffer holds message n + 1 from its first unit. *)
LEMMA Dispatched ==
  ASSUME Callback, Descriptors, NEW c \in Clients, NEW n, Place(c, n),
         InCommand(c), message_end[c] = MsgLen
  PROVE  /\ n \in Nat /\ n < Len(Script[c])
         /\ Header(c) = <<n + 1, 1>> /\ Header(c)[1] = n + 1
         /\ Command(c) = Script[c][n + 1].op /\ Request(c) = Script[c][n + 1]
         /\ consumed[c] = StreamLen(c, n) + MsgLen
<1>1. At(c, n) /\ n \in Nat /\ ~InPayload(c) /\ cb.conn = c
  BY InPlace, Inside DEF InCommand
<1>2. /\ n \in 0 .. Len(Script[c]) /\ consumed[c] = StreamLen(c, n) + MsgLen
      /\ n # Len(Script[c])
  BY <1>1, Sizes DEF At
<1>3. n < Len(Script[c]) /\ n + 1 \in 1 .. Len(Script[c])
  BY <1>2, Requested
<1>4. 1 \in 1 .. Size(c, n + 1)
  BY <1>3, MessageShape, Sizes
<1>5. Stream(c)[StreamLen(c, n) + 1] = <<n + 1, 1>>
  BY <1>1, <1>3, <1>4, StreamUnit
<1>6. consumed[c] - MsgLen + 1 = StreamLen(c, n) + 1
  BY <1>2, StreamLens, Sizes
<1>7. Header(c) = <<n + 1, 1>>
  BY <1>5, <1>6 DEF Header
<1>8. Header(c)[1] = n + 1 /\ Header(c)[2] = 1
  BY <1>7
<1>9. Command(c) = Script[c][n + 1].op /\ Request(c) = Script[c][n + 1]
  BY <1>8 DEF Command, Request
<1> QED
  BY <1>1, <1>2, <1>3, <1>7, <1>8, <1>9

(* In the data of a write, message n + 1 is that write. *)
LEMMA Receiving ==
  ASSUME Callback, Descriptors, NEW c \in Clients, NEW n, Place(c, n), InPayload(c)
  PROVE  /\ n \in Nat /\ n < Len(Script[c]) /\ cb.msg = n + 1 /\ Script[c][n + 1].op = "write"
         /\ message_end[c] = 0 /\ consumed[c] = StreamLen(c, n) + MsgLen + cb.received
         /\ cb.received \in Nat /\ cb.received <= Script[c][n + 1].count
         /\ Script[c][n + 1].count \in Nat /\ StreamLen(c, n) \in Nat
         /\ StreamLen(c, n + 1) = StreamLen(c, n) + MsgLen + Script[c][n + 1].count
<1>1. At(c, n) /\ n \in Nat
  BY InPlace DEF InPayload
<1>2. /\ n < Len(Script[c]) /\ cb.msg = n + 1 /\ Script[c][n + 1].op = "write"
      /\ message_end[c] = 0 /\ consumed[c] = StreamLen(c, n) + MsgLen + cb.received
      /\ cb.received <= Script[c][n + 1].count
  BY <1>1 DEF At
<1>3. n + 1 \in 1 .. Len(Script[c]) /\ n \in 0 .. Len(Script[c]) - 1 /\ n \in 0 .. Len(Script[c])
  BY <1>1, <1>2, Requested
<1>4. cb.received \in Nat
  BY DEF Callback, Cbs
<1>5. Script[c][n + 1].count \in Nat
  BY <1>3, Requested
<1>6. Size(c, n + 1) = MsgLen + Script[c][n + 1].count
  BY <1>2, <1>3, MessageShape
<1>7. StreamLen(c, n) \in Nat /\ StreamLen(c, n + 1) = StreamLen(c, n) + Size(c, n + 1)
  BY <1>3, StreamLens
<1>8. StreamLen(c, n + 1) = StreamLen(c, n) + MsgLen + Script[c][n + 1].count
  BY <1>5, <1>6, <1>7, Sizes
<1> QED
  BY <1>1, <1>2, <1>4, <1>5, <1>7, <1>8

(* One connection is left where it is. *)
Frame(d) ==
  /\ consumed'[d] = consumed[d] /\ message_end'[d] = message_end[d]
  /\ Dropped(d)' <=> Dropped(d)
  /\ cb' = cb \/ (cb.conn # d /\ cb'.conn # d)

(* Then it is at the same place. *)
LEMMA PlaceFrame ==
  ASSUME NEW d \in Clients, NEW n, Place(d, n), Frame(d)
  PROVE  Place(d, n)'
<1>1. InPayload(d)' <=> InPayload(d)
  BY DEF Frame, InPayload
<1>2. InPayload(d) => cb' = cb
  BY DEF Frame, InPayload
<1>3. cb'.conn # d <=> cb.conn # d
  BY DEF Frame
<1>4. At(d, n) => At(d, n)'
  BY <1>1, <1>2, <1>3 DEF At, Frame
<1>5. Left(d, n) => Left(d, n)'
  BY DEF Left, Frame
<1> QED
  BY <1>4, <1>5 DEF Place, Frame

(* One read() of the message. *)
LEMMA PlaceReadMessage ==
  ASSUME Sockets, Callback, Descriptors, message_end \in [Clients -> Nat],
         NEW c \in Clients, NEW n, Place(c, n), ReadMessage(c)
  PROVE  /\ Place(c, n)' /\ message_end' \in [Clients -> Nat]
         /\ consumed' \in [Clients -> Nat] /\ consumed'[c] <= arrived[c]
         /\ message_end'[c] > 0
         /\ \A d \in Clients : d # c => /\ consumed'[d] = consumed[d]
                                        /\ message_end'[d] = message_end[d]
<1>1. At(c, n) /\ n \in Nat /\ ~InPayload(c) /\ cb.conn = c /\ ~Dropped(c)
  BY InPlace, Inside DEF InCommand, ReadMessage
<1>2. PICK q \in Nat, a \in Nat, e \in Nat, m \in Nat :
        /\ q = consumed[c] /\ a = arrived[c] /\ e = message_end[c] /\ m = MsgLen
        /\ q <= a /\ e < m /\ a - q > 0
  BY Sizes DEF Sockets, ReadMessage, Available
<1>3. PICK len \in Nat : len = Min({a - q, m - e}) /\ len <= a - q /\ len <= m - e /\ len > 0
  <2>1. a - q \in Nat /\ m - e \in Nat /\ a - q > 0 /\ m - e > 0
    BY <1>2
  <2>2. PICK x \in Nat, y \in Nat : x = a - q /\ y = m - e /\ x > 0 /\ y > 0
    BY <2>1
  <2>3. Min({x, y}) \in Nat /\ Min({x, y}) \in {x, y} /\ Min({x, y}) <= x /\ Min({x, y}) <= y
    BY MinPair
  <2> QED
    BY <2>2, <2>3
<1>4. /\ consumed' = [consumed EXCEPT ![c] = q + len]
      /\ message_end' = [message_end EXCEPT ![c] = e + len]
      /\ cb' = cb
  BY <1>2, <1>3, Zenon DEF ReadMessage, Available
<1>5. /\ consumed' \in [Clients -> Nat] /\ message_end' \in [Clients -> Nat]
      /\ consumed'[c] = q + len /\ message_end'[c] = e + len
      /\ \A d \in Clients : d # c => /\ consumed'[d] = consumed[d]
                                     /\ message_end'[d] = message_end[d]
  BY <1>4 DEF Sockets
<1>6. n \in 0 .. Len(Script[c]) /\ q = StreamLen(c, n) + e
  BY <1>1, <1>2 DEF At
<1>7. n # Len(Script[c])
  <2>1. SUFFICES ASSUME n = Len(Script[c]) PROVE FALSE
    OBVIOUS
  <2>2. e = 0
    BY <1>1, <1>2, <2>1 DEF At
  <2>3. sent[c] \in 0 .. Len(Script[c]) /\ a <= StreamLen(c, sent[c])
    BY <1>2, Requested DEF Sockets
  <2>4. PICK x \in Nat, y \in Nat : x = StreamLen(c, sent[c]) /\ y = StreamLen(c, n)
    BY <1>6, <2>3, StreamLens
  <2>5. x <= y
    <3>1. n \in sent[c] .. Len(Script[c]) /\ n - sent[c] \in Nat
      BY <2>1, <2>3, Requested
    <3>2. x + (n - sent[c]) <= y
      BY <2>3, <2>4, <3>1, StreamMonotone
    <3> QED
      BY <3>1, <3>2
  <2> QED
    BY <1>2, <1>6, <2>2, <2>3, <2>4, <2>5
<1>8. ~InPayload(c)' /\ cb'.conn = c
  BY <1>1, <1>4 DEF InPayload
<1>9. e + len <= MsgLen /\ q + len = StreamLen(c, n) + (e + len) /\ q + len <= a /\ e + len > 0
  <2>1. PICK p \in Nat : p = StreamLen(c, n) /\ q = p + e
    BY <1>6, StreamLens
  <2>2. e + len <= m /\ q + len = p + (e + len) /\ q + len <= a /\ e + len > 0
    BY <1>2, <1>3, <2>1
  <2> QED
    BY <1>2, <2>1, <2>2
<1>10. At(c, n)'
  BY <1>5, <1>6, <1>7, <1>8, <1>9 DEF At
<1>11. ~Dropped(c)'
  BY <1>1 DEF Dropped, ReadMessage, connVars
<1> QED
  BY <1>2, <1>5, <1>9, <1>10, <1>11 DEF Place

(* One read() of the data. *)
LEMMA PlaceReadPayload ==
  ASSUME Sockets, Callback, Descriptors,
         NEW c \in Clients, NEW n, Place(c, n), ReadPayload(c)
  PROVE  /\ Place(c, n)' /\ cb' \in Cbs /\ cb'.conn = c /\ cb'.phase = "payload"
         /\ consumed' \in [Clients -> Nat] /\ consumed'[c] <= arrived[c]
         /\ \A d \in Clients : d # c => consumed'[d] = consumed[d]
<1>1. InPayload(c) /\ cb.conn = c /\ ~Dropped(c) /\ cb \in Cbs
  BY Inside DEF InPayload, ReadPayload, Callback
<1>2. /\ n \in Nat /\ n < Len(Script[c]) /\ cb.msg = n + 1 /\ Script[c][n + 1].op = "write"
      /\ message_end[c] = 0 /\ consumed[c] = StreamLen(c, n) + MsgLen + cb.received
      /\ cb.received \in Nat /\ Script[c][n + 1].count \in Nat
      /\ StreamLen(c, n) \in Nat
  BY <1>1, Receiving
<1>3. PICK q \in Nat, a \in Nat, e \in Nat, m \in Nat :
        /\ q = consumed[c] /\ a = arrived[c] /\ e = cb.received /\ m = Script[c][n + 1].count
        /\ q <= a /\ e < m /\ a - q > 0
  BY <1>2 DEF Sockets, ReadPayload, Available
<1>4. PICK len \in Nat : len = Min({a - q, m - e}) /\ len <= a - q /\ len <= m - e
  <2>1. PICK x \in Nat, y \in Nat : x = a - q /\ y = m - e
    BY <1>3
  <2>2. Min({x, y}) \in Nat /\ Min({x, y}) \in {x, y} /\ Min({x, y}) <= x /\ Min({x, y}) <= y
    BY MinPair
  <2> QED
    BY <2>1, <2>2
<1>5. /\ consumed' = [consumed EXCEPT ![c] = q + len]
      /\ cb' = [cb EXCEPT !.received = e + len]
      /\ message_end' = message_end
  BY <1>2, <1>3, <1>4, Zenon DEF ReadPayload, Available
<1>6. /\ cb' \in Cbs /\ cb'.conn = c /\ cb'.phase = "payload" /\ cb'.msg = n + 1
      /\ cb'.received = e + len
  BY <1>1, <1>2, <1>5, SMTT(30) DEF Cbs, InPayload
<1>7. /\ consumed' \in [Clients -> Nat] /\ consumed'[c] = q + len
      /\ \A d \in Clients : d # c => consumed'[d] = consumed[d]
  BY <1>5 DEF Sockets
<1>8. /\ q + len <= a /\ e + len <= Script[c][n + 1].count
      /\ q + len = StreamLen(c, n) + MsgLen + (e + len)
  <2>1. PICK p \in Nat, w \in Nat : p = StreamLen(c, n) /\ w = MsgLen /\ q = p + w + e
    BY <1>2, <1>3, Sizes
  <2>2. q + len <= a /\ e + len <= m /\ q + len = p + w + (e + len)
    BY <1>3, <1>4, <2>1
  <2> QED
    BY <1>3, <2>1, <2>2
<1>9. At(c, n)'
  <2>1. InPayload(c)' /\ n \in 0 .. Len(Script[c])
    BY <1>2, <1>6, Requested DEF InPayload
  <2> QED
    BY <1>2, <1>5, <1>6, <1>7, <1>8, <2>1 DEF At
<1>10. ~Dropped(c)'
  BY <1>1 DEF Dropped, ReadPayload, connVars
<1> QED
  BY <1>3, <1>6, <1>7, <1>8, <1>9, <1>10 DEF Place

(* A callback begins where the last one ended. *)
LEMMA PlaceOnRead ==
  ASSUME Callback, Descriptors, NEW c \in Clients, NEW n, Place(c, n), OnRead(c)
  PROVE  Place(c, n)' /\ message_end[c] = 0
<1>1. cb.conn # c /\ ~Dropped(c) /\ ~InPayload(c)
  BY Inside DEF OnRead, InPayload, Descriptors, Dropped
<1>2. At(c, n) /\ message_end[c] = 0 /\ n \in 0 .. Len(Script[c]) /\ consumed[c] = StreamLen(c, n) + 0
  BY <1>1 DEF Place, At
<1>3. /\ cb'.phase = "command" /\ consumed' = consumed /\ message_end' = message_end
      /\ fd' = fd /\ owner' = owner
  BY DEF OnRead, connVars
<1>4. ~InPayload(c)' /\ ~Dropped(c)'
  BY <1>1, <1>3 DEF InPayload, Dropped
<1>5. At(c, n)'
  BY <1>2, <1>3, <1>4, Sizes DEF At
<1> QED
  BY <1>2, <1>4, <1>5 DEF Place

(* A connection that is closed between two read() calls has not read       *)
(* message n + 1 to the end.                                               *)
LEMMA PlaceDisconnect ==
  ASSUME Sockets, Callback, Descriptors, message_end \in [Clients -> Nat],
         NEW c \in Clients, NEW n, Place(c, n),
         ReadReturnsZero(c) \/ ReadReturnsError(c)
  PROVE  Place(c, n)'
<1>1. cb.conn = c /\ Disconnect(c) /\ Reading(c) /\ Dropped(c)'
  BY Disconnects, DescriptorsDisconnect
<1>2. At(c, n) /\ n \in Nat
  BY <1>1, InPlace
<1>3. n \in 0 .. Len(Script[c]) /\ StreamLen(c, n) \in Nat
  BY <1>2, StreamLens DEF At
<1>4. consumed' = consumed /\ message_end' = message_end /\ message_end[c] <= MsgLen
  <2>1. consumed' = consumed /\ message_end' = message_end
    BY <1>1 DEF Disconnect
  <2>2. 0 <= MsgLen
    BY Sizes
  <2> QED
    BY <1>2, <2>1, <2>2 DEF At
<1>5. StreamLen(c, n) <= consumed[c] /\ (n < Len(Script[c]) => consumed[c] < StreamLen(c, n + 1))
  <2>1. CASE InCommand(c) /\ message_end[c] < MsgLen
    <3>0. /\ ~InPayload(c) /\ message_end[c] \in Nat /\ MsgLen \in Nat
          /\ consumed[c] = StreamLen(c, n) + message_end[c]
      BY <1>2, <2>1, Sizes, Inside DEF At
    <3>1. PICK p \in Nat, e \in Nat, w \in Nat :
            /\ p = StreamLen(c, n) /\ e = message_end[c] /\ w = MsgLen /\ consumed[c] = p + e /\ e < w
      BY <1>3, <2>1, <3>0
    <3>2. ASSUME n < Len(Script[c]) PROVE consumed[c] < StreamLen(c, n + 1)
      <4>1. n \in 0 .. Len(Script[c]) - 1 /\ n + 1 \in 1 .. Len(Script[c])
        BY <1>3, <3>2, Requested
      <4>2. PICK z \in Nat : z = Size(c, n + 1) /\ StreamLen(c, n + 1) = p + z /\ z >= w
        BY <3>1, <4>1, StreamLens, MessageShape
      <4> QED
        BY <3>1, <4>2
    <3>3. p <= p + e
      OBVIOUS
    <3> QED
      BY <3>1, <3>2, <3>3
  <2>2. CASE InPayload(c) /\ cb.received < Script[c][cb.msg].count
    <3>0. /\ cb.msg = n + 1 /\ consumed[c] = StreamLen(c, n) + MsgLen + cb.received
          /\ cb.received \in Nat /\ Script[c][n + 1].count \in Nat /\ MsgLen \in Nat
          /\ StreamLen(c, n + 1) = StreamLen(c, n) + MsgLen + Script[c][n + 1].count
      BY <2>2, Receiving, Sizes
    <3>1. PICK p \in Nat, w \in Nat, e \in Nat, m \in Nat :
            /\ p = StreamLen(c, n) /\ w = MsgLen /\ e = cb.received /\ m = Script[c][n + 1].count
            /\ consumed[c] = p + w + e /\ StreamLen(c, n + 1) = p + w + m /\ e < m
      BY <1>3, <2>2, <3>0
    <3>2. p <= p + w + e /\ p + w + e < p + w + m
      BY <3>1
    <3> QED
      BY <3>1, <3>2, Zenon
  <2> QED
    BY <1>1, <2>1, <2>2 DEF Reading
<1>6. Left(c, n)'
  BY <1>3, <1>4, <1>5 DEF Left
<1> QED
  BY <1>1, <1>6 DEF Place

(* The message is done: the server is at the next one. *)
LEMMA PlaceAdvance ==
  ASSUME Sockets, NEW c \in Clients, NEW n \in Nat, n < Len(Script[c]),
         consumed[c] = StreamLen(c, n + 1), message_end'[c] = 0, consumed' = consumed,
         cb' = NoCb, ~Dropped(c), UNCHANGED <<owner, fd>>
  PROVE  Place(c, n + 1)'
<1>1. ~Dropped(c)' /\ ~InPayload(c)' /\ cb'.conn # c
  BY Sizes DEF Dropped, InPayload, NoCb
<1>2. n + 1 \in 0 .. Len(Script[c]) /\ consumed'[c] = StreamLen(c, n + 1) + 0
  <2>1. n + 1 \in 0 .. Len(Script[c])
    BY Requested
  <2>2. StreamLen(c, n + 1) \in Nat
    BY <2>1, StreamLens
  <2> QED
    BY <2>1, <2>2
<1>3. At(c, n + 1)'
  BY <1>1, <1>2, Sizes DEF At
<1> QED
  BY <1>1, <1>3 DEF Place

(* A message without data ends where the next begins. *)
LEMMA NoData ==
  ASSUME Callback, Descriptors, NEW c \in Clients, NEW n, Place(c, n),
         InCommand(c), message_end[c] = MsgLen, Script[c][n + 1].op # "write"
  PROVE  consumed[c] = StreamLen(c, n + 1)
<1>1. n \in Nat /\ n < Len(Script[c]) /\ consumed[c] = StreamLen(c, n) + MsgLen
  BY Dispatched
<1>2. n + 1 \in 1 .. Len(Script[c]) /\ n \in 0 .. Len(Script[c]) - 1
  BY <1>1, Requested
<1> QED
  BY <1>1, <1>2, MessageShape, StreamLens

(* The reply to message n is queued, unless there is none. *)
Replied(c, n) ==
  \/ /\ writeq' = [writeq EXCEPT ![c] = Append(writeq[c], [buf |-> Answer(c, n, vblks[c]), offset |-> 0])]
     /\ ev_write' = ev_write \cup {c}
  \/ Answer(c, n, vblks[c]) = << >> /\ UNCHANGED <<writeq, ev_write>>

(* The server does what message n + 1 asks for. *)
Serves(c, n) ==
  /\ n \in Nat /\ n < Len(Script[c])
  /\ Place(c, n + 1)'
  /\ vblks' = [vblks EXCEPT ![c] = RefStep(c, n + 1, vblks[c])]
  /\ Replied(c, n + 1)
  /\ UNCHANGED <<got, outbuf, refused>>

(* An allocation that is granted. *)
LEMMA ServesAlloc ==
  ASSUME Sockets, Callback, Descriptors, message_end \in [Clients -> Nat],
         vblks \in [Clients -> Seq(BlockContents)],
         NEW c \in Clients, NEW n, Place(c, n), ProcessAlloc(c)
  PROVE  Serves(c, n)
<1>1. InCommand(c) /\ message_end[c] = MsgLen /\ Command(c) = "alloc" /\ message_end'[c] = 0
  BY DEF ProcessAlloc, Dispatch
<1>2. /\ n \in Nat /\ n < Len(Script[c]) /\ Header(c)[1] = n + 1
      /\ Script[c][n + 1].op = "alloc" /\ Request(c) = Script[c][n + 1]
  BY <1>1, Dispatched
<1>3. Place(c, n + 1)'
  <2>1. consumed[c] = StreamLen(c, n + 1)
    BY <1>1, <1>2, NoData
  <2>2. cb' = NoCb /\ consumed' = consumed /\ UNCHANGED <<owner, fd>> /\ ~Dropped(c)
    BY <1>1, Inside DEF ProcessAlloc, connVars, InCommand
  <2> QED
    BY <1>1, <1>2, <2>1, <2>2, PlaceAdvance
<1>4. Answer(c, n + 1, vblks[c]) = AllocReply(c, n + 1)
  BY <1>2 DEF Answer
<1>5. Replied(c, n + 1)
  BY <1>2, <1>4 DEF ProcessAlloc, Reply, Replied
<1>6. vblks' = [vblks EXCEPT ![c] = RefStep(c, n + 1, vblks[c])]
  <2>1. CASE Request(c).remote
    <3>1. RefStep(c, n + 1, vblks[c]) = vblks[c] \o [i \in 1 .. VblksPerAlloc |-> Tested]
      BY <1>2, <2>1 DEF RefStep
    <3>2. vblks' = [vblks EXCEPT ![c] = vblks[c] \o [i \in 1 .. VblksPerAlloc |-> Tested]]
      BY <2>1, Zenon DEF ProcessAlloc
    <3> QED
      BY <3>1, <3>2, Zenon
  <2>2. CASE ~Request(c).remote
    <3>1. RefStep(c, n + 1, vblks[c]) = vblks[c]
      BY <1>2, <2>2 DEF RefStep
    <3>2. vblks' = vblks
      BY <2>2 DEF ProcessAlloc
    <3> QED
      BY <3>1, <3>2
  <2> QED
    BY <2>1, <2>2
<1> QED
  BY <1>2, <1>3, <1>5, <1>6 DEF Serves, ProcessAlloc, clientVars

(* A read. *)
LEMMA ServesRead ==
  ASSUME Sockets, Callback, Descriptors, message_end \in [Clients -> Nat],
         vblks \in [Clients -> Seq(BlockContents)],
         NEW c \in Clients, NEW n, Place(c, n), ProcessRead(c)
  PROVE  Serves(c, n)
<1>1. InCommand(c) /\ message_end[c] = MsgLen /\ Command(c) = "read" /\ message_end'[c] = 0
  BY DEF ProcessRead, Dispatch
<1>2. /\ n \in Nat /\ n < Len(Script[c]) /\ Header(c)[1] = n + 1
      /\ Script[c][n + 1].op = "read" /\ Request(c) = Script[c][n + 1]
  BY <1>1, Dispatched
<1>3. Place(c, n + 1)'
  <2>1. consumed[c] = StreamLen(c, n + 1)
    BY <1>1, <1>2, NoData
  <2>2. cb' = NoCb /\ consumed' = consumed /\ UNCHANGED <<owner, fd>> /\ ~Dropped(c)
    BY <1>1, Inside DEF ProcessRead, connVars, InCommand
  <2> QED
    BY <1>1, <1>2, <2>1, <2>2, PlaceAdvance
<1>4. Answer(c, n + 1, vblks[c])
        = ReadReply(c, n + 1, VblkRead(GetBlock(vblks[c], Script[c][n + 1].idx),
                                       Script[c][n + 1].count, Script[c][n + 1].offset))
  BY <1>2 DEF Answer
<1>5. Reply(c, Answer(c, n + 1, vblks[c]))
  BY <1>2, <1>4, Zenon DEF ProcessRead
<1>6. Replied(c, n + 1)
  BY <1>5 DEF Reply, Replied
<1>7. vblks' = [vblks EXCEPT ![c] = RefStep(c, n + 1, vblks[c])]
  <2>1. RefStep(c, n + 1, vblks[c]) = vblks[c]
    BY <1>2 DEF RefStep
  <2>2. vblks' = vblks
    BY DEF ProcessRead
  <2> QED
    BY <2>1, <2>2
<1> QED
  BY <1>2, <1>3, <1>6, <1>7 DEF Serves, ProcessRead, clientVars

(* An erase. *)
LEMMA ServesErase ==
  ASSUME Sockets, Callback, Descriptors, message_end \in [Clients -> Nat],
         vblks \in [Clients -> Seq(BlockContents)],
         NEW c \in Clients, NEW n, Place(c, n), ProcessErase(c)
  PROVE  Serves(c, n)
<1>1. InCommand(c) /\ message_end[c] = MsgLen /\ Command(c) = "erase" /\ message_end'[c] = 0
  BY DEF ProcessErase, Dispatch
<1>2. /\ n \in Nat /\ n < Len(Script[c])
      /\ Script[c][n + 1].op = "erase" /\ Request(c) = Script[c][n + 1]
  BY <1>1, Dispatched
<1>3. Place(c, n + 1)'
  <2>1. consumed[c] = StreamLen(c, n + 1)
    BY <1>1, <1>2, NoData
  <2>2. cb' = NoCb /\ consumed' = consumed /\ UNCHANGED <<owner, fd>> /\ ~Dropped(c)
    BY <1>1, Inside DEF ProcessErase, connVars, InCommand
  <2> QED
    BY <1>1, <1>2, <2>1, <2>2, PlaceAdvance
<1>4. Replied(c, n + 1)
  BY <1>2 DEF ProcessErase, Replied, Answer
<1>5. vblks' = [vblks EXCEPT ![c] = RefStep(c, n + 1, vblks[c])]
  <2>1. RefStep(c, n + 1, vblks[c]) = [vblks[c] EXCEPT ![Script[c][n + 1].idx + 1] = << >>]
    BY <1>2 DEF RefStep
  <2>2. vblks' = [vblks EXCEPT ![c] = [vblks[c] EXCEPT ![Script[c][n + 1].idx + 1] = << >>]]
    BY <1>2 DEF ProcessErase
  <2> QED
    BY <2>1, <2>2, Zenon
<1> QED
  BY <1>2, <1>3, <1>4, <1>5 DEF Serves, ProcessErase, clientVars

(* A message that is none. *)
LEMMA ServesUnknown ==
  ASSUME Sockets, Callback, Descriptors, message_end \in [Clients -> Nat],
         vblks \in [Clients -> Seq(BlockContents)],
         NEW c \in Clients, NEW n, Place(c, n), ProcessUnknown(c)
  PROVE  Serves(c, n)
<1>1. InCommand(c) /\ message_end[c] = MsgLen /\ Command(c) = "unknown" /\ message_end'[c] = 0
  BY DEF ProcessUnknown, Dispatch
<1>2. n \in Nat /\ n < Len(Script[c]) /\ Script[c][n + 1].op = "unknown"
  BY <1>1, Dispatched
<1>3. Place(c, n + 1)'
  <2>1. consumed[c] = StreamLen(c, n + 1)
    BY <1>1, <1>2, NoData
  <2>2. cb' = NoCb /\ consumed' = consumed /\ UNCHANGED <<owner, fd>> /\ ~Dropped(c)
    BY <1>1, Inside DEF ProcessUnknown, connVars, InCommand
  <2> QED
    BY <1>1, <1>2, <2>1, <2>2, PlaceAdvance
<1>4. Replied(c, n + 1)
  BY <1>2 DEF ProcessUnknown, Replied, Answer
<1>5. vblks' = [vblks EXCEPT ![c] = RefStep(c, n + 1, vblks[c])]
  <2>1. RefStep(c, n + 1, vblks[c]) = vblks[c]
    BY <1>2 DEF RefStep
  <2>2. vblks' = vblks
    BY DEF ProcessUnknown
  <2> QED
    BY <2>1, <2>2
<1> QED
  BY <1>2, <1>3, <1>4, <1>5 DEF Serves, ProcessUnknown, clientVars

(* A write, all of whose data has been received. *)
LEMMA ServesWrite ==
  ASSUME Sockets, Callback, Descriptors, message_end \in [Clients -> Nat],
         vblks \in [Clients -> Seq(BlockContents)],
         NEW c \in Clients, NEW n, Place(c, n), WriteVblk(c)
  PROVE  Serves(c, n)
<1>1. InPayload(c) /\ cb.conn = c /\ ~Dropped(c)
  BY Inside DEF WriteVblk, InPayload
<1>2. /\ n \in Nat /\ n < Len(Script[c]) /\ cb.msg = n + 1 /\ Script[c][n + 1].op = "write"
      /\ message_end[c] = 0
  BY <1>1, Receiving
<1>3. PICK p \in Nat, w \in Nat, m \in Nat :
        /\ p = StreamLen(c, n) /\ w = MsgLen /\ m = Script[c][n + 1].count /\ m = cb.received
        /\ consumed[c] = p + w + m /\ StreamLen(c, n + 1) = p + w + m
  <2>1. /\ consumed[c] = StreamLen(c, n) + MsgLen + cb.received /\ StreamLen(c, n) \in Nat
        /\ Script[c][n + 1].count \in Nat /\ MsgLen \in Nat
        /\ StreamLen(c, n + 1) = StreamLen(c, n) + MsgLen + Script[c][n + 1].count
    BY <1>1, Receiving, Sizes
  <2>2. cb.received = Script[c][n + 1].count
    BY <1>2 DEF WriteVblk
  <2> QED
    BY <2>1, <2>2
<1>4. Place(c, n + 1)'
  <2>1. /\ consumed[c] = StreamLen(c, n + 1) /\ message_end'[c] = 0 /\ cb' = NoCb
        /\ consumed' = consumed /\ UNCHANGED <<owner, fd>>
    BY <1>2, <1>3 DEF WriteVblk, connVars
  <2> QED
    BY <1>1, <1>2, <2>1, PlaceAdvance
<1>5. Replied(c, n + 1)
  BY <1>2 DEF WriteVblk, Replied, Answer
<1>6. SubSeq(Stream(c), consumed[c] - cb.received + 1, consumed[c])
        = SubSeq(Message(c, n + 1), MsgLen + 1, MsgLen + Script[c][n + 1].count)
  <2>1. SubSeq(Stream(c), p + w + 1, p + w + m) = SubSeq(Message(c, n + 1), w + 1, w + m)
    BY <1>2, <1>3, StreamData, ZenonT(30)
  <2>2. (p + w + m) - m + 1 = p + w + 1
    OBVIOUS
  <2>3. consumed[c] - cb.received + 1 = p + w + 1
    BY <1>3, <2>2, Zenon
  <2> QED
    BY <1>3, <2>1, <2>3, Zenon
<1>7. vblks' = [vblks EXCEPT ![c] = RefStep(c, n + 1, vblks[c])]
  <2> DEFINE k == Script[c][n + 1].idx + 1
             data == SubSeq(Message(c, n + 1), MsgLen + 1, MsgLen + Script[c][n + 1].count)
  <2>1. RefStep(c, n + 1, vblks[c]) = [vblks[c] EXCEPT ![k] = VblkWrite(vblks[c][k], data)]
    BY <1>2 DEF RefStep
  <2>2. vblks' = [vblks EXCEPT ![c] = [vblks[c] EXCEPT ![k] = VblkWrite(vblks[c][k], data)]]
    <3>1. vblks' = [vblks EXCEPT ![c][Script[c][cb.msg].idx + 1] =
                      VblkWrite(@, SubSeq(Stream(c), consumed[c] - cb.received + 1, consumed[c]))]
      BY DEF WriteVblk
    <3> HIDE DEF data
    <3>2. vblks' = [vblks EXCEPT ![c][k] = VblkWrite(@, data)]
      BY <1>2, <1>6, <3>1 DEF data
    <3> QED
      BY <3>2
  <2> QED
    BY <2>1, <2>2, Zenon
<1> QED
  BY <1>2, <1>4, <1>5, <1>7 DEF Serves, WriteVblk, clientVars

(* An allocation that is not: the message is done, without a reply. *)
Refuses(c, n) ==
  /\ n \in Nat /\ n < Len(Script[c])
  /\ Place(c, n + 1)'
  /\ Script[c][n + 1].op = "alloc"
  /\ refused' = refused \cup {c}
  /\ UNCHANGED <<got, outbuf, vblks, writeq, ev_write>>

(* Nothing could be allocated, or the device could not be opened. *)
LEMMA RefusesAlloc ==
  ASSUME Sockets, Callback, Descriptors, message_end \in [Clients -> Nat],
         NEW c \in Clients, NEW n, Place(c, n), RefuseAlloc(c) \/ OpenDeviceFails(c)
  PROVE  Refuses(c, n)
<1>1. InCommand(c) /\ message_end[c] = MsgLen /\ Command(c) = "alloc" /\ message_end'[c] = 0
  BY DEF RefuseAlloc, OpenDeviceFails, Dispatch
<1>2. n \in Nat /\ n < Len(Script[c]) /\ Script[c][n + 1].op = "alloc"
  BY <1>1, Dispatched
<1>3. consumed[c] = StreamLen(c, n + 1)
  BY <1>1, <1>2, NoData
<1>4. cb' = NoCb /\ consumed' = consumed /\ UNCHANGED <<owner, fd>> /\ ~Dropped(c)
  BY <1>1, Inside DEF RefuseAlloc, OpenDeviceFails, connVars, InCommand
<1>5. Place(c, n + 1)'
  BY <1>1, <1>2, <1>3, <1>4, PlaceAdvance
<1> QED
  BY <1>2, <1>5 DEF Refuses, RefuseAlloc, OpenDeviceFails, clientVars

(* A write begins: the server stays at the message, now in its data. *)
LEMMA PlaceProcessWrite ==
  ASSUME Sockets, Callback, Descriptors, message_end \in [Clients -> Nat],
         NEW c \in Clients, NEW n, Place(c, n), ProcessWrite(c)
  PROVE  Place(c, n)' /\ cb' \in Cbs /\ cb'.conn = c /\ cb'.phase = "payload"
<1>1. InCommand(c) /\ message_end[c] = MsgLen /\ Command(c) = "write" /\ message_end'[c] = 0
  BY DEF ProcessWrite, Dispatch
<1>2. /\ n \in Nat /\ n < Len(Script[c]) /\ Header(c)[1] = n + 1
      /\ Script[c][n + 1].op = "write" /\ consumed[c] = StreamLen(c, n) + MsgLen
  BY <1>1, Dispatched
<1>3. /\ cb' = [conn |-> c, phase |-> "payload", msg |-> n + 1, received |-> 0]
      /\ consumed' = consumed /\ UNCHANGED <<owner, fd>> /\ ~Dropped(c)
  BY <1>1, <1>2, Inside DEF ProcessWrite, connVars, InCommand
<1>4. n \in 0 .. Len(Script[c]) /\ n + 1 \in 1 .. Len(Script[c])
  BY <1>2, Requested
<1>5. consumed[c] = StreamLen(c, n) + MsgLen + 0
  BY <1>2, <1>4, StreamLens, Sizes
<1>6. 0 <= Script[c][n + 1].count
  BY <1>4, Requested
<1>7. InPayload(c)' /\ ~Dropped(c)'
  BY <1>3 DEF InPayload, Dropped
<1>8. At(c, n)'
  BY <1>1, <1>2, <1>3, <1>4, <1>5, <1>6, <1>7 DEF At
<1>9. cb' \in Cbs
  BY <1>2, <1>3 DEF Cbs
<1> QED
  BY <1>3, <1>7, <1>8, <1>9 DEF Place

(* A callback works on one connection. *)
LEMMA Others ==
  ASSUME Callback, Descriptors, consumed \in [Clients -> Nat], message_end \in [Clients -> Nat],
         NEW c \in Clients, OnRead(c) \/ InCallback(c), NEW d \in Clients, d # c
  PROVE  Frame(d)
<1>0. cb \in Cbs /\ d # NoClient
  BY Sizes DEF Callback
<1>1. CASE OnRead(c)
  <2>1. cb.conn # d /\ cb'.conn # d
    BY <1>0, <1>1 DEF OnRead, NoCb
  <2> QED
    BY <1>1, <2>1 DEF OnRead, Frame, Dropped, connVars
<1>2. CASE ReadMessage(c)
  <2>1. consumed'[d] = consumed[d] /\ message_end'[d] = message_end[d]
    BY <1>2 DEF ReadMessage
  <2>2. cb' = cb /\ UNCHANGED <<owner, fd>>
    BY <1>2 DEF ReadMessage, connVars
  <2> QED
    BY <2>1, <2>2 DEF Frame, Dropped
<1>3. CASE ReadPayload(c)
  <2>1. consumed'[d] = consumed[d] /\ message_end' = message_end /\ UNCHANGED <<owner, fd>>
    BY <1>3 DEF ReadPayload, connVars
  <2>2. cb.conn = c
    BY <1>3 DEF ReadPayload, InPayload
  <2>3. cb'.conn = c
    <3>1. \E k : cb' = [cb EXCEPT !.received = k]
      BY <1>3 DEF ReadPayload
    <3> QED
      BY <1>0, <2>2, <3>1 DEF Cbs
  <2> QED
    BY <2>1, <2>2, <2>3 DEF Frame, Dropped
<1>4. CASE ReadReturnsZero(c) \/ ReadReturnsError(c)
  <2>1. cb.conn = c /\ Disconnect(c)
    BY <1>4, Disconnects
  <2>2. Dropped(d)' <=> Dropped(d)
    BY <2>1, DescriptorsDisconnect
  <2>3. cb' = NoCb /\ consumed' = consumed /\ message_end' = message_end
    BY <2>1 DEF Disconnect
  <2> QED
    BY <1>0, <2>1, <2>2, <2>3 DEF Frame, NoCb
<1>5. CASE WriteVblk(c)
  <2>1. cb.conn = c /\ cb' = NoCb
    BY <1>5 DEF WriteVblk, InPayload
  <2>2. consumed' = consumed /\ message_end' = message_end /\ UNCHANGED <<owner, fd>>
    BY <1>5 DEF WriteVblk, connVars
  <2> QED
    BY <1>0, <2>1, <2>2 DEF Frame, Dropped, NoCb
<1>6. CASE \/ ProcessAlloc(c) \/ RefuseAlloc(c) \/ OpenDeviceFails(c) \/ ProcessRead(c)
           \/ ProcessErase(c) \/ ProcessUnknown(c) \/ ProcessWrite(c)
  <2>1. /\ InCommand(c) /\ message_end' = [message_end EXCEPT ![c] = 0]
        /\ consumed' = consumed /\ UNCHANGED <<owner, fd>>
    BY <1>6, ZenonT(30)
    DEF ProcessAlloc, RefuseAlloc, OpenDeviceFails, ProcessRead, ProcessErase, ProcessUnknown,
        ProcessWrite, Dispatch, connVars
  <2>2. cb' = NoCb \/ cb'.conn = c
    BY <1>6 DEF ProcessAlloc, RefuseAlloc, OpenDeviceFails, ProcessRead, ProcessErase,
                ProcessUnknown, ProcessWrite
  <2>3. cb.conn # d /\ cb'.conn # d
    BY <1>0, <2>1, <2>2 DEF InCommand, NoCb
  <2>4. message_end'[d] = message_end[d]
    BY <2>1
  <2> QED
    BY <2>1, <2>3, <2>4 DEF Frame, Dropped
<1> QED
  BY <1>1, <1>2, <1>3, <1>4, <1>5, <1>6 DEF InCallback

(* Every connection stays at its place, and so do the blocks. *)
Rests ==
  /\ UNCHANGED <<vblks, refused>>
  /\ \A d \in Clients : \A n \in Nat : Place(d, n) => Place(d, n)'
  /\ UNCHANGED <<got, outbuf, writeq, ev_write>> \/ \E c \in Clients : ClientRecv(c) \/ OnWrite(c)

(* One connection is served, or refused. *)
Works(c) ==
  /\ cb.conn = c /\ cb' = NoCb /\ sent' = sent
  /\ \A d \in Clients : d # c => Frame(d)
  /\ \/ \A n \in Nat : Place(c, n) => Serves(c, n)
     \/ \A n \in Nat : Place(c, n) => Refuses(c, n)

(* What a step does. *)
LEMMA Advances ==
  ASSUME Sockets, Callback, Descriptors, message_end \in [Clients -> Nat],
         vblks \in [Clients -> Seq(BlockContents)], [Next]_vars
  PROVE  Rests \/ \E c \in Clients : Works(c)
<1>0. consumed \in [Clients -> Nat]
  BY DEF Sockets
<1>1. CASE \E c \in Clients : ClientRecv(c) \/ OnWrite(c)
  <2>1. PICK c \in Clients : ClientRecv(c) \/ OnWrite(c)
    BY <1>1, SMTT(30)
  <2>2. UNCHANGED <<consumed, message_end, cb, owner, fd, vblks, refused>>
    BY <2>1 DEF ClientRecv, OnWrite, connVars
  <2>3. \A d \in Clients : Frame(d)
    BY <2>2 DEF Frame, Dropped
  <2> QED
    BY <1>1, <2>2, <2>3, PlaceFrame DEF Rests
<1>2. CASE \/ UNCHANGED vars \/ Interrupt
           \/ \E c \in Clients : \/ Connect(c) \/ ClientSend(c) \/ ClientClose(c) \/ Arrive(c)
                                 \/ OnAccept(c) \/ OnWriteError(c)
  <2>1. UNCHANGED <<consumed, message_end, cb, vblks, refused, got, outbuf, writeq, ev_write>>
    BY <1>2, ZenonT(30)
    DEF vars, Interrupt, Connect, ClientSend, ClientClose, Arrive, OnAccept, OnWriteError, clientVars
  <2>2. SameDropped
    <3>1. CASE \E c \in Clients : OnAccept(c)
      BY <3>1, DescriptorsOnAccept
    <3>2. CASE ~(\E c \in Clients : OnAccept(c))
      <4>1. UNCHANGED <<owner, fd>>
        BY <1>2, <3>2, ZenonT(30)
        DEF vars, Interrupt, Connect, ClientSend, ClientClose, Arrive, OnWriteError, connVars
      <4> QED
        BY <4>1 DEF SameDropped, Dropped
    <3> QED
      BY <3>1, <3>2
  <2>3. \A d \in Clients : Frame(d)
    BY <2>1, <2>2 DEF Frame, SameDropped
  <2> QED
    BY <2>1, <2>3, PlaceFrame DEF Rests
<1>3. CASE \E c \in Clients : \/ OnRead(c) \/ ReadMessage(c) \/ ReadPayload(c) \/ ProcessWrite(c)
                              \/ ReadReturnsZero(c) \/ ReadReturnsError(c)
  <2>1. PICK c \in Clients : \/ OnRead(c) \/ ReadMessage(c) \/ ReadPayload(c) \/ ProcessWrite(c)
                             \/ ReadReturnsZero(c) \/ ReadReturnsError(c)
    BY <1>3
  <2>2. UNCHANGED <<vblks, refused, got, outbuf, writeq, ev_write>>
    BY <2>1, ZenonT(30)
    DEF OnRead, ReadMessage, ReadPayload, ProcessWrite, ReadReturnsZero, ReadReturnsError,
        Disconnect, clientVars
  <2>3. \A d \in Clients : d # c => Frame(d)
    <3>1. OnRead(c) \/ InCallback(c)
      BY <2>1 DEF InCallback
    <3> QED
      BY <1>0, <3>1, Others
  <2>4. \A n \in Nat : Place(c, n) => Place(c, n)'
    BY <2>1, PlaceOnRead, PlaceReadMessage, PlaceReadPayload, PlaceProcessWrite, PlaceDisconnect
  <2>5. \A d \in Clients : \A n \in Nat : Place(d, n) => Place(d, n)'
    BY <2>3, <2>4, PlaceFrame
  <2> QED
    BY <2>2, <2>5 DEF Rests
<1>4. CASE \E c \in Clients : \/ ProcessAlloc(c) \/ ProcessRead(c) \/ ProcessErase(c)
                              \/ ProcessUnknown(c) \/ WriteVblk(c)
  <2>1. PICK c \in Clients : \/ ProcessAlloc(c) \/ ProcessRead(c) \/ ProcessErase(c)
                             \/ ProcessUnknown(c) \/ WriteVblk(c)
    BY <1>4
  <2>2. \A d \in Clients : d # c => Frame(d)
    <3>1. InCallback(c)
      BY <2>1 DEF InCallback
    <3> QED
      BY <1>0, <3>1, Others
  <2>3. \A n \in Nat : Place(c, n) => Serves(c, n)
    BY <2>1, ServesAlloc, ServesRead, ServesErase, ServesUnknown, ServesWrite
  <2>4. cb.conn = c /\ cb' = NoCb /\ sent' = sent
    BY <2>1, ZenonT(30)
    DEF ProcessAlloc, ProcessRead, ProcessErase, ProcessUnknown, WriteVblk, Dispatch, InCommand, InPayload,
        clientVars
  <2> QED
    BY <2>2, <2>3, <2>4 DEF Works
<1>5. CASE \E c \in Clients : RefuseAlloc(c) \/ OpenDeviceFails(c)
  <2>1. PICK c \in Clients : RefuseAlloc(c) \/ OpenDeviceFails(c)
    BY <1>5
  <2>2. \A d \in Clients : d # c => Frame(d)
    <3>1. InCallback(c)
      BY <2>1 DEF InCallback
    <3> QED
      BY <1>0, <3>1, Others
  <2>3. \A n \in Nat : Place(c, n) => Refuses(c, n)
    BY <2>1, RefusesAlloc
  <2>4. cb.conn = c /\ cb' = NoCb /\ sent' = sent
    BY <2>1 DEF RefuseAlloc, OpenDeviceFails, Dispatch, InCommand, clientVars
  <2> QED
    BY <2>2, <2>3, <2>4 DEF Works
<1> QED
  BY <1>1, <1>2, <1>3, <1>4, <1>5, Steps

-----------------------------------------------------------------------------
(* The queue of replies                                                    *)

(* What is left of a reply, and of all replies in a queue. *)
Part(b) == SubSeq(b.buf, b.offset + 1, Len(b.buf))
Parts(q) == [i \in 1 .. Len(q) |-> Part(q[i])]
Rest(q) == FlattenSeq(Parts(q))

(* What is left is made of the same units. *)
LEMMA PartsType ==
  ASSUME NEW A, NEW q \in Seq(Bufs(A))
  PROVE  /\ Parts(q) \in Seq(Seq(A)) /\ Len(Parts(q)) = Len(q)
         /\ \A i \in 1 .. Len(q) : Parts(q)[i] = Part(q[i])
         /\ Rest(q) \in Seq(A) /\ Len(q) \in Nat
<1>1. PICK n \in Nat : n = Len(q)
  BY LenProperties
<1>2. ASSUME NEW i \in 1 .. n PROVE Part(q[i]) \in Seq(A)
  <2>1. q[i] \in Bufs(A)
    BY <1>1, ElementOfSeq
  <2>2. PICK b \in Seq(A), o \in Nat, l \in Nat : b = q[i].buf /\ o = q[i].offset /\ l = Len(b)
    BY <2>1, LenProperties DEF Bufs
  <2>3. \A j \in o + 1 .. l : b[j] \in A
    <3>1. \A j \in o + 1 .. l : j \in 1 .. Len(b)
      BY <2>2
    <3> QED
      BY <3>1, ElementOfSeq
  <2>4. SubSeq(b, o + 1, l) \in Seq(A)
    BY <2>3, SubSeqProperties
  <2> QED
    BY <2>2, <2>4 DEF Part
<1>3. Parts(q) \in [1 .. n -> Seq(A)]
  BY <1>1, <1>2 DEF Parts
<1>4. Parts(q) \in Seq(Seq(A)) /\ Len(Parts(q)) = n
  BY <1>3, SeqDef
<1>5. Rest(q) \in Seq(A)
  BY <1>4, FlattenType DEF Rest
<1> QED
  BY <1>1, <1>4, <1>5 DEF Parts

(* The replies of a queue, one after the other. *)
LEMMA RestHead ==
  ASSUME NEW A, NEW q \in Seq(Bufs(A)), NEW r \in Seq(Bufs(A)), Len(q) = Len(r) + 1,
         \A i \in 1 .. Len(r) : r[i] = q[i + 1]
  PROVE  Rest(q) = Cat(Part(q[1]), Rest(r)) /\ Part(q[1]) \in Seq(A)
<1>0. PICK n \in Nat : n = Len(r) /\ n + 1 = Len(q)
  BY LenProperties
<1>1. /\ Parts(q) \in Seq(Seq(A)) /\ Len(Parts(q)) = n + 1
      /\ \A i \in 1 .. n + 1 : Parts(q)[i] = Part(q[i])
  BY <1>0, PartsType
<1>2. /\ Parts(r) \in Seq(Seq(A)) /\ Len(Parts(r)) = n
      /\ \A i \in 1 .. n : Parts(r)[i] = Part(r[i])
  BY <1>0, PartsType
<1>3. PICK x \in Seq(Seq(A)), y \in Seq(Seq(A)) : x = Parts(q) /\ y = Parts(r)
  BY <1>1, <1>2, SMTT(30)
<1>4. x # << >> /\ Tail(x) \in Seq(Seq(A)) /\ Len(Tail(x)) = n
      /\ \A i \in 1 .. n : Tail(x)[i] = x[i + 1]
  <2>1. x # << >>
    BY <1>1, <1>3, EmptySeq
  <2>2. /\ Tail(x) \in Seq(Seq(A)) /\ Len(Tail(x)) = Len(x) - 1
        /\ \A i \in 1 .. Len(Tail(x)) : Tail(x)[i] = x[i + 1]
    BY <2>1, HeadTailProperties
  <2>3. Len(Tail(x)) = n
    BY <1>1, <1>3, <2>2
  <2> QED
    BY <2>1, <2>2, <2>3
<1>5. Tail(x) = y
  <2>1. ASSUME NEW i \in 1 .. n PROVE Tail(x)[i] = y[i]
    <3>1. i + 1 \in 1 .. n + 1 /\ i \in 1 .. Len(r)
      BY <1>0
    <3>2. Tail(x)[i] = Part(q[i + 1]) /\ y[i] = Part(r[i]) /\ r[i] = q[i + 1]
      BY <1>1, <1>2, <1>3, <1>4, <3>1
    <3> QED
      BY <3>2
  <2>2. Len(Tail(x)) = Len(y) /\ \A i \in 1 .. Len(Tail(x)) : Tail(x)[i] = y[i]
    BY <1>2, <1>3, <1>4, <2>1
  <2> QED
    BY <1>4, <2>2, SeqEqual
<1>6. FlattenSeq(x) = x[1] \o FlattenSeq(y)
  BY <1>4, <1>5, FlattenHead
<1>7. x[1] = Part(q[1]) /\ x[1] \in Seq(A)
  <2>1. 1 \in 1 .. n + 1
    BY <1>0
  <2> QED
    BY <1>1, <1>3, <2>1, ElementOfSeq
<1> QED
  BY <1>3, <1>6, <1>7, Zenon DEF Rest, Cat

(* A reply that is queued comes last. *)
LEMMA QueueReply ==
  ASSUME NEW A, NEW q, Queued(A, q), NEW b \in Seq(A)
  PROVE  /\ Queued(A, Append(q, [buf |-> b, offset |-> 0]))
         /\ Append(q, [buf |-> b, offset |-> 0]) # << >>
         /\ Rest(Append(q, [buf |-> b, offset |-> 0])) = Cat(Rest(q), b)
<1>0. PICK n \in Nat : n = Len(q)
  BY LenProperties DEF Queued
<1> DEFINE e == [buf |-> b, offset |-> 0]
           r == Append(q, e)
<1>1. e \in Bufs(A) /\ q \in Seq(Bufs(A)) /\ e.offset = 0 /\ e.buf = b
  BY DEF Bufs, Queued
<1> HIDE DEF e
<1>2. /\ r \in Seq(Bufs(A)) /\ r # << >> /\ Len(r) = n + 1
      /\ \A i \in 1 .. n : r[i] = q[i]
      /\ r[n + 1] = e
  BY <1>0, <1>1, AppendProperties
<1> HIDE DEF r
<1>3. Queued(A, r)
  <2>1. ASSUME NEW i \in 1 .. n + 1
        PROVE  \/ r[i].offset = 0
               \/ i = 1 /\ r[i].offset \in 1 .. Len(r[i].buf) - 1
    <3>1. CASE i = n + 1
      BY <1>1, <1>2, <3>1
    <3>2. CASE i # n + 1
      <4>1. i \in 1 .. n
        BY <3>2
      <4> QED
        BY <1>0, <1>2, <4>1 DEF Queued
    <3> QED
      BY <3>1, <3>2
  <2> QED
    BY <1>2, <2>1 DEF Queued
<1>4. Rest(r) = Cat(Rest(q), b)
  <2>1. PICK x \in Seq(Seq(A)), y \in Seq(Seq(A)) : x = Parts(q) /\ y = Parts(r)
    BY <1>1, <1>2, PartsType
  <2>2. /\ Len(x) = n /\ \A i \in 1 .. n : x[i] = Part(q[i])
        /\ Len(y) = n + 1 /\ \A i \in 1 .. n + 1 : y[i] = Part(r[i])
    BY <1>0, <1>1, <1>2, <2>1, PartsType
  <2>3. \A i \in 1 .. n : y[i] = x[i]
    <3>1. \A i \in 1 .. n : i \in 1 .. n + 1
      OBVIOUS
    <3> QED
      BY <1>2, <2>2, <3>1
  <2>4. y[n + 1] = b
    <3>1. n + 1 \in 1 .. n + 1 /\ 0 + 1 = 1
      OBVIOUS
    <3>2. Part(e) = SubSeq(b, 1, Len(b))
      BY <1>1, <3>1 DEF Part
    <3>3. SubSeq(b, 1, Len(b)) = b
      BY SubSeqFull
    <3> QED
      BY <1>2, <2>2, <3>1, <3>2, <3>3
  <2>5. Len(y) = Len(x) + 1 /\ y[Len(x) + 1] = b /\ \A i \in 1 .. Len(x) : y[i] = x[i]
    BY <2>2, <2>3, <2>4
  <2>6. FlattenSeq(y) = FlattenSeq(x) \o b
    BY <2>5, FlattenAppend
  <2> QED
    BY <2>1, <2>6, Zenon DEF Rest, Cat
<1> QED
  BY <1>2, <1>3, <1>4 DEF r, e

(* Units i + 1 to j of a buffer. *)
Piece(b, i, j) == SubSeq(b, i + 1, j)

(* A buffer is cut where write() stopped. *)
LEMMA CutBuffer ==
  ASSUME NEW A, NEW b \in Seq(A), NEW o \in Nat, NEW len \in Nat, NEW l \in Nat,
         l = Len(b), o + len <= l
  PROVE  /\ Piece(b, o, o + len) \in Seq(A) /\ Len(Piece(b, o, o + len)) = len
         /\ Cat(Piece(b, o, o + len), Piece(b, o + len, l)) = Piece(b, o, l)
<1>1. \A j \in o + 1 .. o + len : b[j] \in A
  <2>1. \A j \in o + 1 .. o + len : j \in 1 .. Len(b)
    OBVIOUS
  <2> QED
    BY <2>1, ElementOfSeq
<1>2. /\ SubSeq(b, o + 1, o + len) \in Seq(A)
      /\ Len(SubSeq(b, o + 1, o + len)) = IF o + 1 <= o + len THEN (o + len) - (o + 1) + 1 ELSE 0
  BY <1>1, SubSeqProperties
<1>3. (IF o + 1 <= o + len THEN (o + len) - (o + 1) + 1 ELSE 0) = len
  OBVIOUS
<1>4. o + 1 \in 1 .. Len(b) + 1 /\ o + len \in (o + 1) - 1 .. Len(b) /\ l \in o + len .. Len(b)
  OBVIOUS
<1>5. Cat(SubSeq(b, o + 1, o + len), SubSeq(b, (o + len) + 1, l)) = SubSeq(b, o + 1, l)
  BY <1>4, ConcatAdjacentSubSeq DEF Cat
<1>6. Len(SubSeq(b, o + 1, o + len)) = len
  <2>1. PICK k : k = Len(SubSeq(b, o + 1, o + len)) /\ k = IF o + 1 <= o + len THEN (o + len) - (o + 1) + 1 ELSE 0
    BY <1>2
  <2>2. k = len
    BY <2>1
  <2> QED
    BY <2>1, <2>2
<1> QED
  BY <1>2, <1>5, <1>6, Zenon DEF Piece

(* The buffer at its new offset. *)
LEMMA MovedOffset ==
  ASSUME NEW A, NEW x \in Bufs(A), NEW k \in Nat
  PROVE  LET y == [x EXCEPT !.offset = k] IN y \in Bufs(A) /\ y.buf = x.buf /\ y.offset = k
BY DEF Bufs

(* What on_write has written and what it leaves. *)
LEMMA QueueWritten ==
  ASSUME NEW A, NEW q, Queued(A, q), q # << >>, NEW len \in Nat,
         len <= Len(q[1].buf) - q[1].offset
  PROVE  /\ Queued(A, AfterWrite(q, len))
         /\ SubSeq(q[1].buf, q[1].offset + 1, q[1].offset + len) \in Seq(A)
         /\ Len(SubSeq(q[1].buf, q[1].offset + 1, q[1].offset + len)) = len
         /\ Rest(q) = Cat(SubSeq(q[1].buf, q[1].offset + 1, q[1].offset + len),
                          Rest(AfterWrite(q, len)))
<1>1. PICK n \in Nat : n + 1 = Len(q)
  <2>1. Len(q) \in Nat \ {0}
    BY EmptySeq DEF Queued
  <2>2. Len(q) - 1 \in Nat /\ (Len(q) - 1) + 1 = Len(q)
    BY <2>1
  <2> QED
    BY <2>2
<1>2. q \in Seq(Bufs(A)) /\ q[1] \in Bufs(A)
  <2>1. 1 \in 1 .. Len(q)
    BY <1>1
  <2> QED
    BY <2>1, ElementOfSeq DEF Queued
<1>3. PICK b \in Seq(A), o \in Nat, l \in Nat :
        b = q[1].buf /\ o = q[1].offset /\ l = Len(b) /\ len <= l - o
  BY <1>2, LenProperties DEF Bufs
<1> DEFINE w == Piece(b, o, o + len)
<1>4. o + len <= l
  <2> HIDE <1>1
  <2>1. \A x \in Nat, y \in Nat, z \in Nat : z <= x - y => y + z <= x
    OBVIOUS
  <2> QED
    BY <1>3, <2>1, Zenon
<1>5. w \in Seq(A) /\ Len(w) = len
  <2>1. l = Len(b)
    BY <1>3
  <2> QED
    BY <1>4, <2>1, CutBuffer
<1>6. Cat(w, Piece(b, o + len, l)) = Piece(b, o, l)
  <2>1. l = Len(b)
    BY <1>3
  <2> QED
    BY <1>4, <2>1, CutBuffer
<1>7. Part(q[1]) = Piece(b, o, l)
  BY <1>3, Zenon DEF Part, Piece
<1>8. PICK t \in Seq(Bufs(A)) : t = Tail(q) /\ Len(t) = n /\ \A i \in 1 .. n : t[i] = q[i + 1]
  <2>1. /\ Tail(q) \in Seq(Bufs(A)) /\ Len(Tail(q)) = Len(q) - 1
        /\ \A i \in 1 .. Len(Tail(q)) : Tail(q)[i] = q[i + 1]
    BY <1>2, HeadTailProperties
  <2>2. Len(Tail(q)) = n
    BY <1>1, <2>1
  <2> QED
    BY <2>1, <2>2
<1>9. Rest(q) = Cat(Part(q[1]), Rest(t)) /\ Rest(t) \in Seq(A)
  <2>1. Len(q) = Len(t) + 1 /\ \A i \in 1 .. Len(t) : t[i] = q[i + 1]
    BY <1>1, <1>8
  <2> QED
    BY <1>2, <2>1, RestHead, PartsType
<1> HIDE DEF w
<1>10. Queued(A, AfterWrite(q, len)) /\ Rest(q) = Cat(w, Rest(AfterWrite(q, len)))
  <2>1. CASE o + len < l
    <3> DEFINE e == [q[1] EXCEPT !.offset = o + len]
               r == [q EXCEPT ![1] = e]
    <3>1. AfterWrite(q, len) = r
      <4>1. AfterWrite(q, len) = [q EXCEPT ![1].offset = @ + len]
        BY <1>3, <2>1, Zenon DEF AfterWrite
      <4> QED
        BY <1>3, <4>1
    <3>2. e \in Bufs(A) /\ e.buf = b /\ e.offset = o + len
      <4>1. o + len \in Nat
        OBVIOUS
      <4> QED
        BY <1>2, <1>3, <4>1, MovedOffset
    <3> HIDE DEF e
    <3>3. /\ r \in Seq(Bufs(A)) /\ Len(r) = n + 1
          /\ \A i \in 1 .. n + 1 : r[i] = IF i = 1 THEN e ELSE q[i]
      <4>1. 1 \in 1 .. Len(q)
        BY <1>1
      <4> QED
        BY <1>1, <1>2, <3>2, <4>1, ExceptSeq
    <3> HIDE DEF r
    <3>4. Queued(A, r)
      <4>1. ASSUME NEW i \in 1 .. n + 1
            PROVE  \/ r[i].offset = 0
                   \/ i = 1 /\ r[i].offset \in 1 .. Len(r[i].buf) - 1
        <5>1. CASE i = 1
          <6>1. r[i] = e
            BY <3>3, <5>1
          <6>2. o + len = 0 \/ o + len \in 1 .. l - 1
            BY <1>3, <2>1, SMTT(30)
          <6> QED
            BY <1>3, <3>2, <5>1, <6>1, <6>2
        <5>2. CASE i # 1
          <6>1. r[i] = q[i] /\ i \in 1 .. Len(q)
            BY <1>1, <3>3, <5>2
          <6> QED
            BY <5>2, <6>1 DEF Queued
        <5> QED
          BY <5>1, <5>2
      <4> QED
        BY <3>3, <4>1 DEF Queued
    <3>5. Part(r[1]) = Piece(b, o + len, l)
      <4>1. 1 \in 1 .. n + 1
        OBVIOUS
      <4>2. r[1] = e
        BY <3>3, <4>1
      <4> QED
        BY <1>3, <3>2, <4>2, Zenon DEF Part, Piece
    <3>6. Rest(r) = Cat(Part(r[1]), Rest(t)) /\ Part(r[1]) \in Seq(A)
      <4>1. ASSUME NEW i \in 1 .. n PROVE t[i] = r[i + 1]
        <5>1. i + 1 \in 1 .. n + 1 /\ i + 1 # 1
          OBVIOUS
        <5>2. r[i + 1] = q[i + 1]
          BY <3>3, <5>1
        <5> QED
          BY <1>8, <5>2
      <4>2. Len(r) = Len(t) + 1 /\ \A i \in 1 .. Len(t) : t[i] = r[i + 1]
        BY <1>8, <3>3, <4>1
      <4> QED
        BY <3>3, <4>2, RestHead
    <3>7. Part(q[1]) = Cat(w, Part(r[1]))
      BY <1>6, <1>7, <3>5, Zenon
    <3>8. PICK y \in Seq(A), z \in Seq(A) : y = Part(r[1]) /\ z = Rest(t)
      BY <1>9, <3>6
    <3>9. Cat(Cat(w, y), z) = Cat(w, Cat(y, z))
      BY <1>5, CatFacts
    <3> QED
      BY <1>9, <3>1, <3>4, <3>6, <3>7, <3>8, <3>9, Zenon
  <2>2. CASE ~(o + len < l)
    <3>1. AfterWrite(q, len) = t
      BY <1>3, <1>8, <2>2 DEF AfterWrite
    <3>2. Queued(A, t)
      <4>1. ASSUME NEW i \in 1 .. n PROVE t[i].offset = 0
        <5>1. i + 1 \in 1 .. Len(q) /\ i + 1 # 1
          BY <1>1
        <5> QED
          BY <1>8, <5>1 DEF Queued
      <4> QED
        BY <1>8, <4>1 DEF Queued
    <3>3. o + len = l
      BY <1>4, <2>2
    <3>4. Part(q[1]) = w
      BY <1>7, <3>3 DEF w
    <3> QED
      BY <1>9, <3>1, <3>2, <3>4, Zenon
  <2> QED
    BY <2>1, <2>2
<1>11. w = SubSeq(q[1].buf, q[1].offset + 1, q[1].offset + len)
  BY <1>3, Zenon DEF w, Piece
<1> QED
  BY <1>5, <1>10, <1>11, ZenonT(30)

-----------------------------------------------------------------------------
(* The invariant holds                                                     *)

(* What has arrived was sent, and what was consumed has arrived. *)
LEMMA SocketsStep ==
  ASSUME Sockets, Callback, Descriptors, Progress, [Next]_vars
  PROVE  Sockets'
<1>0. /\ serving \in BOOLEAN /\ link \in [Clients -> {"idle", "open", "closed"}]
      /\ sent \in [Clients -> Nat] /\ arrived \in [Clients -> Nat] /\ consumed \in [Clients -> Nat]
      /\ \A c \in Clients : sent[c] <= Len(Script[c]) /\ consumed[c] <= arrived[c]
                            /\ arrived[c] <= StreamLen(c, sent[c])
      /\ message_end \in [Clients -> Nat]
  BY DEF Sockets, Progress
<1>1. serving' \in BOOLEAN
  BY <1>0, Steps, ZenonT(30)
  DEF vars, Interrupt, Connect, ClientSend, ClientRecv, ClientClose, Arrive, OnAccept, OnRead,
      ReadMessage, ReadPayload, ReadReturnsZero, ReadReturnsError, Disconnect, ProcessAlloc,
      RefuseAlloc, OpenDeviceFails, ProcessRead, ProcessErase, ProcessUnknown, ProcessWrite,
      WriteVblk, OnWrite, OnWriteError
<1>2. link' \in [Clients -> {"idle", "open", "closed"}]
  <2>1. CASE \E c \in Clients : Connect(c) \/ ClientClose(c)
    BY <1>0, <2>1 DEF Connect, ClientClose
  <2>2. CASE ~(\E c \in Clients : Connect(c) \/ ClientClose(c))
    <3>1. link' = link
      BY <2>2, Steps, ZenonT(30)
      DEF vars, clientVars, Interrupt, ClientSend, ClientRecv, Arrive, OnAccept, OnRead,
          ReadMessage, ReadPayload, ReadReturnsZero, ReadReturnsError, Disconnect, ProcessAlloc,
          RefuseAlloc, OpenDeviceFails, ProcessRead, ProcessErase, ProcessUnknown, ProcessWrite,
          WriteVblk, OnWrite, OnWriteError
    <3> QED
      BY <1>0, <3>1
  <2> QED
    BY <2>1, <2>2
<1>3. CASE \E c \in Clients : ClientSend(c)
  <2>1. PICK c \in Clients : ClientSend(c)
    BY <1>3
  <2>2. PICK m \in Nat : m = sent[c] /\ m < Len(Script[c])
    BY <1>0, <2>1 DEF ClientSend
  <2>3. sent' = [sent EXCEPT ![c] = m + 1] /\ arrived' = arrived /\ consumed' = consumed
    BY <2>1, <2>2 DEF ClientSend
  <2>4. sent' \in [Clients -> Nat] /\ sent'[c] = m + 1 /\ \A d \in Clients : d # c => sent'[d] = sent[d]
    BY <1>0, <2>3
  <2>5. m + 1 <= Len(Script[c]) /\ arrived[c] <= StreamLen(c, m + 1)
    <3>1. m \in 0 .. Len(Script[c]) /\ m + 1 \in m .. Len(Script[c]) /\ m + 1 \in 0 .. Len(Script[c])
          /\ m + 1 <= Len(Script[c])
      BY <2>2, Requested
    <3>2. PICK x \in Nat, y \in Nat, a \in Nat :
            x = StreamLen(c, m) /\ y = StreamLen(c, m + 1) /\ a = arrived[c]
      BY <1>0, <3>1, StreamLens
    <3>3. x + ((m + 1) - m) <= y
      BY <3>1, <3>2, StreamMonotone
    <3>4. a <= x
      BY <1>0, <2>2, <3>2
    <3>5. a <= y
      BY <3>3, <3>4
    <3> QED
      BY <3>1, <3>2, <3>5
  <2>6. ASSUME NEW d \in Clients
        PROVE  sent'[d] <= Len(Script[d]) /\ arrived[d] <= StreamLen(d, sent'[d])
    BY <1>0, <2>4, <2>5
  <2> QED
    BY <1>0, <1>1, <1>2, <2>3, <2>4, <2>6 DEF Sockets
<1>4. CASE \E c \in Clients : Arrive(c)
  <2>1. PICK c \in Clients : Arrive(c)
    BY <1>4
  <2>2. sent[c] \in 0 .. Len(Script[c]) /\ arrived[c] \in Nat /\ StreamLen(c, sent[c]) \in Nat
    <3>1. sent[c] \in 0 .. Len(Script[c]) /\ arrived[c] \in Nat
      BY <1>0, Requested
    <3> QED
      BY <3>1, StreamLens
  <2>3. PICK a \in Nat, z \in Nat, m \in Nat :
          a = arrived[c] /\ z = StreamLen(c, sent[c]) /\ m = sent[c] /\ m \in 0 .. Len(Script[c])
    BY <2>2
  <2>4. PICK to : /\ arrived' = [arrived EXCEPT ![c] = to]
                  /\ to \in (IF Torn THEN a + 1 .. z
                             ELSE {e \in {StreamLen(c, n) : n \in 1 .. m} : e > a})
    BY <2>1, <2>3, Zenon DEF Arrive
  <2>5. to \in Nat /\ a <= to /\ to <= z
    <3>1. CASE to \in a + 1 .. z
      BY <3>1
    <3>2. CASE to \in {e \in {StreamLen(c, n) : n \in 1 .. m} : e > a}
      <4>1. PICK n \in 1 .. m : to = StreamLen(c, n) /\ to > a
        BY <3>2
      <4>2. n \in 0 .. Len(Script[c]) /\ m \in n .. Len(Script[c]) /\ m - n \in Nat
        BY <2>3, Requested
      <4>3. PICK t \in Nat : t = to /\ t > a
        BY <4>1, <4>2, StreamLens
      <4>4. t + (m - n) <= z
        BY <2>3, <4>1, <4>2, <4>3, StreamMonotone
      <4>5. t <= z
        BY <4>2, <4>4
      <4> QED
        BY <4>3, <4>5
    <3> QED
      BY <2>4, <3>1, <3>2
  <2>6. sent' = sent /\ consumed' = consumed
    BY <2>1 DEF Arrive, clientVars
  <2>7. arrived' \in [Clients -> Nat] /\ arrived'[c] = to /\ \A d \in Clients : d # c => arrived'[d] = arrived[d]
    BY <1>0, <2>4, <2>5
  <2>8. ASSUME NEW d \in Clients
        PROVE  consumed[d] <= arrived'[d] /\ arrived'[d] <= StreamLen(d, sent[d])
    <3>1. CASE d # c
      BY <1>0, <2>7, <3>1
    <3>2. CASE d = c
      <4>1. PICK q \in Nat : q = consumed[c] /\ q <= a
        BY <1>0, <2>3
      <4>2. q <= to
        BY <2>5, <4>1
      <4> QED
        BY <2>3, <2>5, <2>7, <3>2, <4>1, <4>2
    <3> QED
      BY <3>1, <3>2
  <2> QED
    BY <1>0, <1>1, <1>2, <2>6, <2>7, <2>8 DEF Sockets
<1>5. CASE \E c \in Clients : ReadMessage(c) \/ ReadPayload(c)
  <2>1. PICK c \in Clients : ReadMessage(c) \/ ReadPayload(c)
    BY <1>5
  <2>2. PICK n \in Nat : Place(c, n)
    BY DEF Progress
  <2>3. /\ consumed' \in [Clients -> Nat] /\ consumed'[c] <= arrived[c]
        /\ \A d \in Clients : d # c => consumed'[d] = consumed[d]
    <3>1. CASE ReadMessage(c)
      BY <1>0, <2>2, <3>1, PlaceReadMessage
    <3>2. CASE ReadPayload(c)
      BY <2>2, <3>2, PlaceReadPayload
    <3> QED
      BY <2>1, <3>1, <3>2
  <2>4. sent' = sent /\ arrived' = arrived
    BY <2>1 DEF ReadMessage, ReadPayload, clientVars
  <2>5. \A d \in Clients : consumed'[d] <= arrived[d]
    BY <1>0, <2>3
  <2> QED
    BY <1>0, <1>1, <1>2, <2>3, <2>4, <2>5 DEF Sockets
<1>6. CASE ~(\E c \in Clients : ClientSend(c) \/ Arrive(c) \/ ReadMessage(c) \/ ReadPayload(c))
  <2>1. sent' = sent /\ arrived' = arrived /\ consumed' = consumed
    BY <1>6, Steps, ZenonT(30)
    DEF vars, clientVars, Interrupt, Connect, ClientRecv, ClientClose, OnAccept, OnRead,
        ReadReturnsZero, ReadReturnsError, Disconnect, ProcessAlloc,
        RefuseAlloc, OpenDeviceFails, ProcessRead, ProcessErase, ProcessUnknown, ProcessWrite,
        WriteVblk, OnWrite, OnWriteError
  <2> QED
    BY <1>0, <1>1, <1>2, <2>1 DEF Sockets
<1> QED
  BY <1>3, <1>4, <1>5, <1>6

(* A callback keeps its event until it returns. *)
LEMMA CallbackStep ==
  ASSUME Sockets, Callback, Descriptors, Progress, [Next]_vars
  PROVE  Callback'
<1>1. NoCb \in Cbs
  BY DEF NoCb, Cbs
<1>2. CASE cb' = NoCb
  BY <1>1, <1>2 DEF Callback
<1>3. CASE \E c \in Clients : ReadPayload(c) \/ ProcessWrite(c)
  <2>1. PICK c \in Clients : ReadPayload(c) \/ ProcessWrite(c)
    BY <1>3
  <2>2. PICK n \in Nat : Place(c, n)
    BY DEF Progress
  <2>3. cb' \in Cbs /\ cb'.conn = c /\ cb'.phase = "payload"
    <3>1. message_end \in [Clients -> Nat]
      BY DEF Progress
    <3> QED
      BY <2>1, <2>2, <3>1, PlaceReadPayload, PlaceProcessWrite
  <2>4. cb.conn = c /\ ev_read' = ev_read
    BY <2>1 DEF ReadPayload, ProcessWrite, InPayload, InCommand, Dispatch
  <2>5. c \in ev_read
    BY <2>4, Inside
  <2> QED
    BY <2>3, <2>4, <2>5 DEF Callback
<1>4. CASE \E c \in Clients : OnRead(c)
  <2>1. PICK c \in Clients : OnRead(c)
    BY <1>4
  <2>2. /\ cb' = [conn |-> c, phase |-> "command", msg |-> 0, received |-> 0]
        /\ ev_read' = ev_read /\ c \in ev_read
    BY <2>1 DEF OnRead
  <2>3. cb' \in Cbs /\ cb'.conn = c /\ cb'.phase = "command"
    BY <2>2 DEF Cbs
  <2> QED
    BY <2>2, <2>3 DEF Callback
<1>5. CASE \E c \in Clients : OnAccept(c)
  <2>1. cb' = NoCb
    BY <1>5 DEF OnAccept
  <2> QED
    BY <1>1, <2>1 DEF Callback
<1>6. CASE /\ cb' # NoCb
           /\ ~(\E c \in Clients : ReadPayload(c) \/ ProcessWrite(c) \/ OnRead(c) \/ OnAccept(c))
  <2>1. cb' = cb /\ ev_read' = ev_read
    BY <1>6, Steps, ZenonT(30)
    DEF vars, Interrupt, Connect, ClientSend, Arrive, ClientRecv, ClientClose, ReadMessage,
        ReadReturnsZero, ReadReturnsError, Disconnect, ProcessAlloc,
        RefuseAlloc, OpenDeviceFails, ProcessRead, ProcessErase, ProcessUnknown,
        WriteVblk, OnWrite, OnWriteError
  <2> QED
    BY <2>1 DEF Callback
<1> QED
  BY <1>2, <1>3, <1>4, <1>5, <1>6

(* The reference's blocks after one more message. *)
LEMMA NextBlocks ==
  ASSUME NEW c \in Clients, NEW n \in Nat, n < Len(Script[c])
  PROVE  /\ n \in 0 .. Len(Script[c]) /\ n + 1 \in 1 .. Len(Script[c])
         /\ n \in 0 .. Len(Script[c]) - 1
         /\ RefVblks(c, n + 1) = RefStep(c, n + 1, RefVblks(c, n))
<1>1. /\ n \in 0 .. Len(Script[c]) /\ n + 1 \in 1 .. Len(Script[c])
      /\ n \in 0 .. Len(Script[c]) - 1
  BY Requested
<1> QED
  BY <1>1, RefVblksSteps

(* Every connection stays at its place or goes on to the next message,     *)
(* whose effect on the blocks is the reference's.                          *)
LEMMA ProgressStep ==
  ASSUME Sockets, Callback, Descriptors, Progress, [Next]_vars
  PROVE  Progress'
<1>0. /\ message_end \in [Clients -> Nat] /\ vblks \in [Clients -> Seq(BlockContents)]
      /\ refused \subseteq Clients
  BY DEF Progress
<1>1. message_end' \in [Clients -> Nat]
  <2>1. CASE \E c \in Clients : ReadMessage(c)
    <3>1. PICK c \in Clients : ReadMessage(c)
      BY <2>1
    <3>2. PICK n \in Nat : Place(c, n)
      BY DEF Progress
    <3> QED
      BY <1>0, <3>1, <3>2, PlaceReadMessage
  <2>2. CASE ~(\E c \in Clients : ReadMessage(c))
    <3>1. message_end' = message_end \/ \E c \in Clients : message_end' = [message_end EXCEPT ![c] = 0]
      BY <2>2, Steps, ZenonT(60)
      DEF vars, clientVars, Interrupt, Connect, ClientSend, ClientRecv, ClientClose, Arrive,
          OnAccept, OnRead, ReadPayload, ReadReturnsZero, ReadReturnsError, Disconnect,
          ProcessAlloc, RefuseAlloc, OpenDeviceFails, ProcessRead, ProcessErase, ProcessUnknown,
          ProcessWrite, WriteVblk, OnWrite, OnWriteError, Dispatch
    <3>2. \A c \in Clients : [message_end EXCEPT ![c] = 0] \in [Clients -> Nat]
      BY <1>0
    <3> QED
      BY <1>0, <3>1, <3>2
  <2> QED
    BY <2>1, <2>2
<1>2. CASE Rests
  BY <1>0, <1>1, <1>2 DEF Progress, Rests
<1>3. ASSUME NEW c \in Clients, Works(c) PROVE Progress'
  <2>1. PICK n \in Nat : Place(c, n) /\ (c \notin refused => vblks[c] = RefVblks(c, n))
    BY DEF Progress
  <2>2. CASE Serves(c, n)
    <3>1. /\ vblks' = [vblks EXCEPT ![c] = RefStep(c, n + 1, vblks[c])]
          /\ refused' = refused /\ Place(c, n + 1)' /\ n < Len(Script[c]) /\ n + 1 \in Nat
      BY <2>2 DEF Serves
    <3>2. /\ n \in 0 .. Len(Script[c]) /\ n + 1 \in 1 .. Len(Script[c])
          /\ RefVblks(c, n + 1) = RefStep(c, n + 1, RefVblks(c, n))
      BY <3>1, NextBlocks
    <3>3. RefStep(c, n + 1, vblks[c]) \in Seq(BlockContents)
      BY <1>0, <3>2, RefStepType
    <3>4. /\ vblks' \in [Clients -> Seq(BlockContents)]
          /\ vblks'[c] = RefStep(c, n + 1, vblks[c])
          /\ \A d \in Clients : d # c => vblks'[d] = vblks[d]
      BY <1>0, <3>1, <3>3
    <3>5. c \notin refused' => vblks'[c] = RefVblks(c, n + 1)
      BY <2>1, <3>1, <3>2, <3>4
    <3>6. ASSUME NEW d \in Clients
          PROVE  \E m \in Nat : Place(d, m)' /\ (d \notin refused' => vblks'[d] = RefVblks(d, m))
      <4>1. CASE d = c
        BY <3>1, <3>5, <4>1
      <4>2. CASE d # c
        <5>1. PICK m \in Nat : Place(d, m) /\ (d \notin refused => vblks[d] = RefVblks(d, m))
          BY DEF Progress
        <5>2. Place(d, m)'
          BY <1>3, <4>2, <5>1, PlaceFrame DEF Works
        <5> QED
          BY <3>1, <3>4, <4>2, <5>1, <5>2
      <4> QED
        BY <4>1, <4>2
    <3> QED
      BY <1>0, <1>1, <3>1, <3>4, <3>6 DEF Progress
  <2>3. CASE Refuses(c, n)
    <3>1. vblks' = vblks /\ refused' = refused \cup {c} /\ Place(c, n + 1)' /\ n + 1 \in Nat
      BY <2>3 DEF Refuses
    <3>2. ASSUME NEW d \in Clients
          PROVE  \E m \in Nat : Place(d, m)' /\ (d \notin refused' => vblks'[d] = RefVblks(d, m))
      <4>1. CASE d = c
        BY <3>1, <4>1
      <4>2. CASE d # c
        <5>1. PICK m \in Nat : Place(d, m) /\ (d \notin refused => vblks[d] = RefVblks(d, m))
          BY DEF Progress
        <5>2. Place(d, m)'
          BY <1>3, <4>2, <5>1, PlaceFrame DEF Works
        <5> QED
          BY <3>1, <4>2, <5>1, <5>2
      <4> QED
        BY <4>1, <4>2
    <3> QED
      BY <1>0, <1>1, <3>1, <3>2 DEF Progress
  <2> QED
    BY <1>3, <2>1, <2>2, <2>3 DEF Works
<1> QED
  BY <1>0, <1>2, <1>3, Advances

(* The replies of one connection are units of some connection. *)
LEMMA OwnUnitsAreUnits ==
  ASSUME NEW c \in Clients
  PROVE  UnitsOf(c) \subseteq Units /\ Seq(UnitsOf(c)) \subseteq Seq(Units)
<1>1. UnitsOf(c) \subseteq Units
  BY DEF UnitsOf, Units
<1>2. ASSUME NEW s \in Seq(UnitsOf(c)) PROVE s \in Seq(Units)
  <2>1. PICK n \in Nat : n = Len(s)
    BY LenProperties
  <2>2. s \in [1 .. n -> UnitsOf(c)]
    BY <2>1, LenProperties
  <2>3. s \in [1 .. n -> Units]
    BY <1>1, <2>2
  <2> QED
    BY <2>3, SeqDef
<1> QED
  BY <1>1, <1>2

(* What one on_write moves: len units, within the first reply and the room *)
(* in the socket of the descriptor's owner.                                *)
Moved(c, to, len) ==
  LET b == writeq[c][1] IN
  /\ to \in Clients /\ to = Peer(c) /\ len \in Nat
  /\ c \in ev_write /\ writeq[c] # << >>
  /\ len <= Len(b.buf) - b.offset
  /\ len <= SockBuf - Len(outbuf[to])
  /\ outbuf' = [outbuf EXCEPT ![to] = Cat(outbuf[to], SubSeq(b.buf, b.offset + 1, b.offset + len))]
  /\ writeq' = [writeq EXCEPT ![c] = AfterWrite(writeq[c], len)]
  /\ ev_write' = IF AfterWrite(writeq[c], len) # << >> THEN ev_write ELSE ev_write \ {c}
  /\ got' = got

(* on_write writes to whoever owns the descriptor. *)
LEMMA OnWriteMoves ==
  ASSUME Descriptors, Queues, NEW c \in Clients, OnWrite(c)
  PROVE  \E to \in Clients, len \in Nat : Moved(c, to, len)
<1>1. c \in ev_write /\ Peer(c) # NoClient /\ Len(outbuf[Peer(c)]) < SockBuf
  BY DEF OnWrite, Writable
<1>2. writeq[c] # << >> /\ Queued(UnitsOf(c), writeq[c])
  BY <1>1 DEF Queues
<1>3. PICK to \in Clients : to = Peer(c)
  <2>1. c \in conns
    BY <1>1 DEF Queues
  <2>2. fd[c] \in 1 .. NumFds
    BY <2>1, Sizes DEF Descriptors
  <2> QED
    BY <1>1, <2>2 DEF Peer, Descriptors
<1>4. PICK b \in Bufs(UnitsOf(c)) :
        /\ b = writeq[c][1] /\ b = Head(writeq[c])
        /\ b.offset = 0 \/ b.offset \in 1 .. Len(b.buf) - 1
  <2>1. Len(writeq[c]) \in Nat \ {0} /\ writeq[c] \in Seq(Bufs(UnitsOf(c)))
    BY <1>2, EmptySeq DEF Queued
  <2>2. 1 \in 1 .. Len(writeq[c])
    BY <2>1
  <2>3. writeq[c][1] \in Bufs(UnitsOf(c))
    BY <2>1, <2>2, ElementOfSeq
  <2>4. Head(writeq[c]) = writeq[c][1]
    BY <2>1, <2>2
  <2>5. writeq[c][1].offset = 0 \/ writeq[c][1].offset \in 1 .. Len(writeq[c][1].buf) - 1
    BY <1>2, <2>2 DEF Queued
  <2> QED
    BY <2>3, <2>4, <2>5
<1>5. PICK l \in Nat, o \in Nat, z \in Nat, m \in Nat :
        l = Len(b.buf) /\ o = b.offset /\ z = Len(outbuf[to]) /\ m = SockBuf
  <2>1. b.buf \in Seq(UnitsOf(c)) /\ b.offset \in Nat /\ outbuf[to] \in Seq(Units)
    BY DEF Bufs, Queues
  <2> QED
    BY <2>1, LenProperties, Sizes
<1>a. PICK x \in Nat, y \in Nat : x = l - o /\ y = m - z
  <2>1. o = 0 \/ o \in 1 .. l - 1
    BY <1>4, <1>5
  <2>2. z < m
    BY <1>1, <1>3, <1>5
  <2>3. l - o \in Nat /\ m - z \in Nat
    BY <2>1, <2>2
  <2> QED
    BY <2>3
<1>6. PICK len \in Nat : len = Min({x, y}) /\ len <= x /\ len <= y
  <2>1. Min({x, y}) \in Nat /\ Min({x, y}) <= x /\ Min({x, y}) <= y
    BY MinPair
  <2> QED
    BY <2>1
<1>7. len = Min({Len(b.buf) - b.offset, SockBuf - Len(outbuf[to])})
  BY <1>5, <1>6, <1>a, Zenon
<1>8. /\ outbuf' = [outbuf EXCEPT ![to] = Cat(outbuf[to], SubSeq(b.buf, b.offset + 1, b.offset + len))]
      /\ writeq' = [writeq EXCEPT ![c] = AfterWrite(writeq[c], len)]
      /\ ev_write' = IF AfterWrite(writeq[c], len) # << >> THEN ev_write ELSE ev_write \ {c}
      /\ got' = got
  BY <1>3, <1>4, <1>7, Zenon DEF OnWrite, Cat, clientVars
<1>9. len <= Len(b.buf) - b.offset /\ len <= SockBuf - Len(outbuf[to])
  BY <1>5, <1>6, <1>a, Zenon
<1>10. Moved(c, to, len)
  BY <1>1, <1>2, <1>3, <1>4, <1>8, <1>9, Zenon DEF Moved
<1> QED
  BY <1>10

(* What it moves comes from the front of the queue. *)
LEMMA MovedFacts ==
  ASSUME Queues, NEW c \in Clients, NEW to \in Clients, NEW len \in Nat, Moved(c, to, len)
  PROVE  \E w \in Seq(UnitsOf(c)) :
           /\ outbuf' = [outbuf EXCEPT ![to] = Cat(outbuf[to], w)]
           /\ Len(w) <= SockBuf - Len(outbuf[to])
           /\ Queued(UnitsOf(c), AfterWrite(writeq[c], len))
           /\ Rest(writeq[c]) = Cat(w, Rest(AfterWrite(writeq[c], len)))
<1> DEFINE b == writeq[c][1]
           w == SubSeq(b.buf, b.offset + 1, b.offset + len)
<1>1. writeq[c] # << >> /\ Queued(UnitsOf(c), writeq[c]) /\ len <= Len(b.buf) - b.offset
  BY DEF Moved, Queues
<1>2. /\ Queued(UnitsOf(c), AfterWrite(writeq[c], len))
      /\ w \in Seq(UnitsOf(c)) /\ Len(w) = len
      /\ Rest(writeq[c]) = Cat(w, Rest(AfterWrite(writeq[c], len)))
  BY <1>1, QueueWritten
<1>3. outbuf' = [outbuf EXCEPT ![to] = Cat(outbuf[to], w)]
  BY Zenon DEF Moved
<1>4. len <= SockBuf - Len(outbuf[to])
  BY DEF Moved
<1> HIDE DEF w
<1>5. Len(w) <= SockBuf - Len(outbuf[to])
  BY <1>2, <1>4, Zenon
<1> QED
  BY <1>2, <1>3, <1>5

(* The queues stay queues, and on_write is added for those with a reply. *)
LEMMA QueuesStep ==
  ASSUME Sockets, Callback, Descriptors, Progress, Queues, [Next]_vars
  PROVE  Queues'
<1>0. /\ outbuf \in [Clients -> Seq(Units)] /\ got \in [Clients -> Seq(Units)]
      /\ DOMAIN writeq = Clients /\ ev_write \subseteq conns
      /\ \A c \in Clients : /\ Len(outbuf[c]) <= SockBuf
                            /\ Queued(UnitsOf(c), writeq[c])
                            /\ c \in ev_write <=> writeq[c] # << >>
  BY DEF Queues
<1>1. conns \subseteq conns'
  BY Steps, ZenonT(60)
  DEF vars, connVars, Interrupt, Connect, ClientSend, ClientRecv, ClientClose, Arrive, OnAccept,
      OnRead, ReadMessage, ReadPayload, ReadReturnsZero, ReadReturnsError, Disconnect,
      ProcessAlloc, RefuseAlloc, OpenDeviceFails, ProcessRead, ProcessErase, ProcessUnknown,
      ProcessWrite, WriteVblk, OnWrite, OnWriteError
<1>2. CASE UNCHANGED <<got, outbuf, writeq, ev_write>>
  BY <1>0, <1>1, <1>2 DEF Queues
<1>3. ASSUME NEW c \in Clients, ClientRecv(c) PROVE Queues'
  <2>1. /\ got' = [got EXCEPT ![c] = Cat(got[c], outbuf[c])]
        /\ outbuf' = [outbuf EXCEPT ![c] = << >>]
        /\ writeq' = writeq /\ ev_write' = ev_write
    BY <1>3 DEF ClientRecv, Cat
  <2>2. Cat(got[c], outbuf[c]) \in Seq(Units)
    BY <1>0, CatFacts
  <2>3. << >> \in Seq(Units) /\ Len(<< >>) = 0 /\ 0 <= SockBuf
    BY EmptySeq, Sizes
  <2>4. got' \in [Clients -> Seq(Units)] /\ outbuf' \in [Clients -> Seq(Units)]
    BY <1>0, <2>1, <2>2, <2>3
  <2>5. \A d \in Clients : Len(outbuf'[d]) <= SockBuf
    BY <1>0, <2>1, <2>3
  <2> QED
    BY <1>0, <1>1, <2>1, <2>4, <2>5 DEF Queues
<1>4. ASSUME NEW c \in Clients, OnWrite(c) PROVE Queues'
  <2>1. PICK to \in Clients, len \in Nat : Moved(c, to, len)
    BY <1>4, OnWriteMoves
  <2>2. PICK w \in Seq(UnitsOf(c)) :
          /\ outbuf' = [outbuf EXCEPT ![to] = Cat(outbuf[to], w)]
          /\ Len(w) <= SockBuf - Len(outbuf[to])
          /\ Queued(UnitsOf(c), AfterWrite(writeq[c], len))
    BY <2>1, MovedFacts
  <2>3. Cat(outbuf[to], w) \in Seq(Units) /\ Len(Cat(outbuf[to], w)) <= SockBuf
    <3>1. w \in Seq(Units) /\ outbuf[to] \in Seq(Units)
      BY <1>0, OwnUnitsAreUnits
    <3>2. Cat(outbuf[to], w) \in Seq(Units) /\ Len(Cat(outbuf[to], w)) = Len(outbuf[to]) + Len(w)
      <4>1. PICK s \in Seq(Units), t \in Seq(Units) : s = outbuf[to] /\ t = w
        BY <3>1
      <4>2. Cat(s, t) \in Seq(Units) /\ Len(Cat(s, t)) = Len(s) + Len(t)
        BY CatFacts
      <4> QED
        BY <4>1, <4>2, Zenon
    <3>3. PICK x \in Nat, y \in Nat, z \in Nat : x = Len(outbuf[to]) /\ y = Len(w) /\ z = SockBuf
      BY <3>1, LenProperties, Sizes
    <3>4. y <= z - x
      BY <2>2, <3>3
    <3>5. x + y <= z
      BY <3>4
    <3> QED
      BY <3>2, <3>3, <3>5
  <2>4. /\ outbuf' \in [Clients -> Seq(Units)]
        /\ \A d \in Clients : Len(outbuf'[d]) <= SockBuf
    <3> HIDE <2>2
    <3>1. outbuf' = [outbuf EXCEPT ![to] = Cat(outbuf[to], w)]
      BY <2>2
    <3> QED
      BY <1>0, <2>3, <3>1
  <2> DEFINE rest == AfterWrite(writeq[c], len)
  <2>5. /\ writeq' = [writeq EXCEPT ![c] = rest]
        /\ ev_write' = IF rest # << >> THEN ev_write ELSE ev_write \ {c}
        /\ got' = got /\ c \in ev_write
    BY <2>1, Zenon DEF Moved
  <2>6. Queued(UnitsOf(c), rest)
    BY <2>2
  <2> HIDE DEF rest
  <2>7. ASSUME NEW d \in Clients
        PROVE  Queued(UnitsOf(d), writeq'[d]) /\ (d \in ev_write' <=> writeq'[d] # << >>)
    <3>1. CASE d = c
      <4>1. writeq'[d] = rest
        BY <1>0, <2>5, <3>1
      <4> QED
        BY <2>5, <2>6, <3>1, <4>1
    <3>2. CASE d # c
      <4>1. writeq'[d] = writeq[d] /\ (d \in ev_write' <=> d \in ev_write)
        BY <1>0, <2>5, <3>2
      <4> QED
        BY <1>0, <4>1
    <3> QED
      BY <3>1, <3>2
  <2>8. DOMAIN writeq' = Clients /\ ev_write' \subseteq conns'
    BY <1>0, <1>1, <2>5
  <2> QED
    BY <1>0, <2>4, <2>5, <2>7, <2>8 DEF Queues
<1>5. ASSUME NEW c \in Clients, Works(c) PROVE Queues'
  <2>1. PICK n \in Nat : Place(c, n)
    BY DEF Progress
  <2>2. CASE Refuses(c, n)
    BY <1>2, <2>2 DEF Refuses
  <2>3. CASE Serves(c, n)
    <3>1. n < Len(Script[c]) /\ Replied(c, n + 1) /\ UNCHANGED <<got, outbuf>>
      BY <2>3 DEF Serves
    <3>2. n + 1 \in 1 .. Len(Script[c]) /\ vblks[c] \in Seq(BlockContents)
      BY <3>1, NextBlocks DEF Progress
    <3>3. PICK a \in Seq(UnitsOf(c)) : a = Answer(c, n + 1, vblks[c])
      BY <3>2, AnswerType
    <3>4. CASE UNCHANGED <<writeq, ev_write>>
      BY <1>2, <3>1, <3>4
    <3>5. CASE /\ writeq' = [writeq EXCEPT ![c] = Append(writeq[c], [buf |-> a, offset |-> 0])]
               /\ ev_write' = ev_write \cup {c}
      <4> DEFINE q == Append(writeq[c], [buf |-> a, offset |-> 0])
      <4>1. Queued(UnitsOf(c), q) /\ q # << >>
        BY <1>0, QueueReply
      <4>2. writeq' = [writeq EXCEPT ![c] = q]
        BY <3>5
      <4> HIDE DEF q
      <4>3. c \in conns
        BY <1>5, Inside DEF Works
      <4>4. ASSUME NEW d \in Clients
            PROVE  Queued(UnitsOf(d), writeq'[d]) /\ (d \in ev_write' <=> writeq'[d] # << >>)
        <5>1. CASE d = c
          <6>1. writeq'[d] = q
            BY <1>0, <4>2, <5>1
          <6> QED
            BY <3>5, <4>1, <5>1, <6>1
        <5>2. CASE d # c
          <6>1. writeq'[d] = writeq[d] /\ (d \in ev_write' <=> d \in ev_write)
            BY <1>0, <3>5, <4>2, <5>2
          <6> QED
            BY <1>0, <6>1
        <5> QED
          BY <5>1, <5>2
      <4>5. DOMAIN writeq' = Clients /\ ev_write' \subseteq conns'
        BY <1>0, <1>1, <3>5, <4>2, <4>3
      <4> QED
        BY <1>0, <3>1, <4>4, <4>5 DEF Queues
    <3> QED
      BY <3>1, <3>3, <3>4, <3>5 DEF Replied
  <2> QED
    BY <1>5, <2>1, <2>2, <2>3 DEF Works
<1>6. message_end \in [Clients -> Nat] /\ vblks \in [Clients -> Seq(BlockContents)]
  BY DEF Progress
<1> QED
  BY <1>2, <1>3, <1>4, <1>5, <1>6, Advances DEF Rests

(* The first state. *)
LEMMA ConnInvInit ==
  ASSUME Init
  PROVE  ConnInv
<1>1. \A c \in Clients : StreamLen(c, 0) = 0 /\ 0 \in 0 .. Len(Script[c]) /\ RefVblks(c, 0) = << >>
  BY StreamLens, Requested, RefVblksSteps
<1>2. Sockets
  BY <1>1, Requested DEF Init, Sockets
<1>3. Descriptors
  BY Sizes DEF Init, Descriptors
<1>4. Callback
  BY DEF Init, Callback, NoCb, Cbs
<1>5. Progress
  <2>1. vblks \in [Clients -> Seq(BlockContents)] /\ message_end \in [Clients -> Nat]
    BY EmptySeq DEF Init
  <2>2. ASSUME NEW c \in Clients PROVE Place(c, 0) /\ vblks[c] = RefVblks(c, 0)
    <3>1. ~Dropped(c) /\ ~InPayload(c) /\ message_end[c] = 0 /\ consumed[c] = 0 + 0
      BY DEF Init, Dropped, InPayload, NoCb
    <3>2. 0 <= MsgLen
      BY Sizes
    <3>3. At(c, 0)
      BY <1>1, <3>1, <3>2 DEF At
    <3> QED
      BY <1>1, <3>1, <3>3 DEF Place, Init
  <2>3. \A c \in Clients : \E n \in Nat : Place(c, n) /\ (c \notin refused => vblks[c] = RefVblks(c, n))
    BY <2>2
  <2>4. refused \subseteq Clients
    BY DEF Init
  <2> QED
    BY <2>1, <2>3, <2>4 DEF Progress
<1>6. Queues
  <2>1. outbuf \in [Clients -> Seq(Units)] /\ got \in [Clients -> Seq(Units)]
    BY EmptySeq DEF Init
  <2>2. \A c \in Clients : writeq[c] = << >> /\ outbuf[c] = << >> /\ c \notin ev_write
    BY DEF Init
  <2>3. \A A : Queued(A, << >>)
    BY EmptySeq DEF Queued
  <2>4. Len(<< >>) = 0 /\ 0 <= SockBuf
    BY Sizes
  <2>5. DOMAIN writeq = Clients /\ ev_write \subseteq conns
    BY DEF Init
  <2>6. \A c \in Clients : Len(outbuf[c]) <= SockBuf
    BY <2>2, <2>4
  <2> QED
    BY <2>1, <2>2, <2>3, <2>5, <2>6 DEF Queues
<1> QED
  BY <1>2, <1>3, <1>4, <1>5, <1>6 DEF ConnInv

(* No step of the clients, the network or the server breaks it. *)
LEMMA ConnInvStep ==
  ASSUME ConnInv, [Next]_vars
  PROVE  ConnInv'
<1>1. Sockets /\ Descriptors /\ Callback /\ Progress /\ Queues
  BY DEF ConnInv
<1>2. Sockets' /\ Descriptors' /\ Callback' /\ Progress' /\ Queues'
  BY <1>1, SocketsStep, DescriptorsStep, CallbackStep, ProgressStep, QueuesStep
<1> QED
  BY <1>2 DEF ConnInv

(* The inductive invariant: where the server is in the stream of every     *)
(* client, who owns which descriptor, and what the queues hold.            *)
THEOREM ConnInvariant == Spec => []ConnInv
<1>1. ConnInv /\ [Next]_vars => ConnInv'
  BY ConnInvStep
<1> QED
  BY ConnInvInit, <1>1, PTL DEF Spec

(* Between two callbacks of a connection the messages it has read to the   *)
(* end are those it has served.                                            *)
LEMMA ServedIsProcessed ==
  ASSUME Sockets, NEW c \in Clients, NEW n \in Nat, Place(c, n), cb.conn # c
  PROVE  Processed(c) = n
<1>1. Left(c, n)
  <2>1. CASE Dropped(c)
    BY <2>1 DEF Place
  <2>2. CASE ~Dropped(c)
    <3>1. n \in 0 .. Len(Script[c]) /\ message_end[c] = 0 /\ consumed[c] = StreamLen(c, n) + 0
      BY <2>2 DEF Place, At, InPayload
    <3>2. StreamLen(c, n) \in Nat
      BY <3>1, StreamLens
    <3>3. ASSUME n < Len(Script[c]) PROVE consumed[c] < StreamLen(c, n + 1)
      <4>1. n \in 0 .. Len(Script[c]) - 1 /\ n + 1 \in 1 .. Len(Script[c])
        BY <3>3, Requested
      <4>2. PICK x \in Nat, z \in Nat : x = StreamLen(c, n) /\ z = Size(c, n + 1) /\ z > 0
        BY <3>2, <4>1, MessageShape, Sizes
      <4>3. StreamLen(c, n + 1) = x + z
        BY <4>1, <4>2, StreamLens
      <4>4. consumed[c] = x
        BY <3>1, <4>2
      <4>5. x < x + z
        BY <4>2
      <4> QED
        BY <4>3, <4>4, <4>5
    <3>4. StreamLen(c, n) <= consumed[c]
      BY <3>1, <3>2
    <3>5. message_end[c] <= MsgLen
      BY <3>1, Sizes
    <3> QED
      BY <3>1, <3>3, <3>4, <3>5 DEF Left
  <2> QED
    BY <2>1, <2>2
<1>2. consumed[c] \in Nat
  BY DEF Sockets
<1> QED
  BY <1>1, <1>2, ProcessedIs

(* Every variable stays in its type: what was consumed has arrived, what   *)
(* arrived was sent, message_end_ stays within message_, only the first    *)
(* reply of a queue is partly written, no block or socket holds more than  *)
(* it can, and no two connections own one descriptor.                      *)
THEOREM TypeCorrect == Spec => []TypeOK
<1>1. ASSUME ConnInv PROVE TypeOK
  <2>0. Sockets /\ Descriptors /\ Callback /\ Progress /\ Queues
    BY <1>1 DEF ConnInv
  <2>1. ASSUME NEW c \in Clients
        PROVE  /\ sent[c] \in 0 .. Len(Script[c])
               /\ arrived[c] \in 0 .. StreamLen(c, sent[c])
               /\ consumed[c] \in 0 .. arrived[c]
    <3>1. /\ sent[c] \in Nat /\ arrived[c] \in Nat /\ consumed[c] \in Nat
          /\ sent[c] <= Len(Script[c]) /\ consumed[c] <= arrived[c]
          /\ arrived[c] <= StreamLen(c, sent[c])
      BY <2>0 DEF Sockets
    <3>2. sent[c] \in 0 .. Len(Script[c])
      BY <3>1, Requested
    <3>3. StreamLen(c, sent[c]) \in Nat
      BY <3>2, StreamLens
    <3> QED
      BY <3>1, <3>2, <3>3
  <2>2. ASSUME NEW c \in Clients PROVE message_end[c] \in 0 .. MsgLen
    <3>1. message_end[c] \in Nat /\ MsgLen \in Nat
      BY <2>0, Sizes DEF Progress
    <3>2. PICK n \in Nat : Place(c, n)
      BY <2>0 DEF Progress
    <3> QED
      <4>1. 0 <= MsgLen
        BY <3>1
      <4>2. message_end[c] <= MsgLen
        BY <3>2, <4>1 DEF Place, At, Left
      <4> QED
        BY <3>1, <4>2
  <2>3. ASSUME NEW c \in Clients, NEW i \in DOMAIN writeq[c]
        PROVE  \/ writeq[c][i].offset = 0
               \/ i = 1 /\ writeq[c][i].offset \in 1 .. Len(writeq[c][i].buf) - 1
    <3>1. Queued(UnitsOf(c), writeq[c])
      BY <2>0 DEF Queues
    <3>2. i \in 1 .. Len(writeq[c])
      BY <3>1, LenProperties DEF Queued
    <3> QED
      BY <3>1, <3>2 DEF Queued
  <2>4. ASSUME NEW c \in Clients, NEW i \in DOMAIN vblks[c] PROVE Len(vblks[c][i]) <= BlkLen
    <3>1. vblks[c] \in Seq(BlockContents)
      BY <2>0 DEF Progress
    <3>2. vblks[c][i] \in BlockContents
      BY <3>1, LenProperties
    <3> QED
      BY <3>2 DEF BlockContents
  <2>5. ASSUME NEW c \in Clients PROVE fd[c] \in 0 .. NumFds /\ Len(outbuf[c]) <= SockBuf
    BY <2>0 DEF Descriptors, Queues
  <2>6. serving \in BOOLEAN /\ link \in [Clients -> {"idle", "open", "closed"}]
    BY <2>0 DEF Sockets
  <2>7. /\ owner \in [1 .. NumFds -> Clients \cup {NoClient}]
        /\ \A f \in 1 .. NumFds : owner[f] # NoClient => fd[owner[f]] = f
        /\ conns \subseteq Clients /\ ev_read \subseteq conns
    BY <2>0 DEF Descriptors
  <2>8. ev_write \subseteq conns /\ refused \subseteq Clients
    BY <2>0 DEF Queues, Progress
  <2>9. cb.conn \in Clients \cup {NoClient}
    BY <2>0 DEF Callback, Cbs
  <2> QED
    BY <2>1, <2>2, <2>3, <2>4, <2>5, <2>6, <2>7, <2>8, <2>9 DEF TypeOK
<1> QED
  BY <1>1, ConnInvariant, PTL

(* on_write never takes the front of an empty queue, and no queued reply   *)
(* is left without the event that sends it.                                *)
THEOREM WriteEventArmedAlways == Spec => []WriteEventArmed
<1>1. ConnInv => WriteEventArmed
  BY DEF ConnInv, Queues, Descriptors, WriteEventArmed
<1> QED
  BY <1>1, ConnInvariant, PTL

(* process_command never takes the data of a write, or the tail of another *)
(* message, for a command, however the network cut the stream.             *)
THEOREM CommandsWholeAlways == Spec => []CommandsWhole
<1>1. ASSUME ConnInv PROVE CommandsWhole
  <2> SUFFICES ASSUME NEW c \in Clients, InCommand(c), message_end[c] = MsgLen
               PROVE  Header(c)[2] = 1
    BY DEF CommandsWhole
  <2>1. Callback /\ Descriptors
    BY <1>1 DEF ConnInv
  <2>2. PICK n \in Nat : Place(c, n)
    BY <1>1 DEF ConnInv, Progress
  <2>3. Header(c) = <<n + 1, 1>>
    BY <2>1, <2>2, Dispatched
  <2> QED
    BY <2>3
<1> QED
  BY <1>1, ConnInvariant, PTL

(* Between two callbacks of a connection, its blocks hold what its         *)
(* client's requests put there, in their order and once: no write is lost, *)
(* doubled, torn or applied to another connection's blocks.                *)
THEOREM BlocksExactAlways == Spec => []BlocksExact
<1>1. ASSUME ConnInv PROVE BlocksExact
  <2> SUFFICES ASSUME NEW c \in Clients \ refused, cb.conn # c
               PROVE  vblks[c] = RefVblks(c, Processed(c))
    BY DEF BlocksExact
  <2>1. PICK n \in Nat : Place(c, n) /\ vblks[c] = RefVblks(c, n)
    BY <1>1 DEF ConnInv, Progress
  <2>2. Processed(c) = n
    BY <1>1, <2>1, ServedIsProcessed DEF ConnInv
  <2> QED
    BY <2>1, <2>2
<1> QED
  BY <1>1, ConnInvariant, PTL

-----------------------------------------------------------------------------
(* Replies: exact as long as they reach the socket they are meant for      *)

(* All that has been sent to the client or will be. *)
Ledger(c) == Cat(Cat(got[c], outbuf[c]), Pending(c))

(* The server has served n messages, and the replies to them are under     *)
(* way; in a socket are only replies of its own connection.                *)
Delivered ==
  \A c \in Clients :
    /\ \E n \in Nat :
         /\ Place(c, n)
         /\ c \notin refused => vblks[c] = RefVblks(c, n) /\ Ledger(c) = RefReplies(c, n)
    /\ outbuf[c] \in Seq(UnitsOf(c))

(* The descriptor of a connection that has something to write is still its *)
(* own, or nobody's.                                                       *)
OwnPeers == \A c \in ev_write : Peer(c) \in {c, NoClient} \/ Pending(c) = << >>

(* The parts of a ledger. *)
LEMMA LedgerType ==
  ASSUME Queues, NEW c \in Clients
  PROVE  /\ got[c] \in Seq(Units) /\ outbuf[c] \in Seq(Units) /\ Ledger(c) \in Seq(Units)
         /\ Pending(c) = Rest(writeq[c])
         /\ Pending(c) \in Seq(UnitsOf(c)) /\ Pending(c) \in Seq(Units)
         /\ Len(Ledger(c)) = Len(got[c]) + Len(outbuf[c]) + Len(Pending(c))
         /\ Len(got[c]) \in Nat /\ Len(outbuf[c]) \in Nat /\ Len(Pending(c)) \in Nat
<1>1. got[c] \in Seq(Units) /\ outbuf[c] \in Seq(Units) /\ Queued(UnitsOf(c), writeq[c])
  BY DEF Queues
<1>2. Pending(c) = Rest(writeq[c])
  BY DEF Pending, Rest, Parts, Part
<1>3. Pending(c) \in Seq(UnitsOf(c)) /\ Pending(c) \in Seq(Units)
  BY <1>1, <1>2, PartsType, OwnUnitsAreUnits DEF Queued
<1>4. PICK g \in Seq(Units), o \in Seq(Units), p \in Seq(Units) :
        g = got[c] /\ o = outbuf[c] /\ p = Pending(c)
  BY <1>1, <1>3
<1>5. Cat(g, o) \in Seq(Units) /\ Len(Cat(g, o)) = Len(g) + Len(o)
  BY CatFacts
<1>6. Cat(Cat(g, o), p) \in Seq(Units) /\ Len(Cat(Cat(g, o), p)) = Len(Cat(g, o)) + Len(p)
  <2>1. PICK u \in Seq(Units) : u = Cat(g, o)
    BY <1>5
  <2>2. Cat(u, p) \in Seq(Units) /\ Len(Cat(u, p)) = Len(u) + Len(p)
    BY CatFacts
  <2> QED
    BY <2>1, <2>2, Zenon
<1>7. Len(g) \in Nat /\ Len(o) \in Nat /\ Len(p) \in Nat
  BY LenProperties
<1>8. Ledger(c) = Cat(Cat(g, o), p)
  BY <1>4, Zenon DEF Ledger
<1>9. Len(Cat(Cat(g, o), p)) = Len(g) + Len(o) + Len(p)
  BY <1>5, <1>6, Zenon
<1>10. Ledger(c) \in Seq(Units) /\ Len(Ledger(c)) = Len(g) + Len(o) + Len(p)
  BY <1>6, <1>8, <1>9, Zenon
<1> QED
  BY <1>1, <1>2, <1>3, <1>4, <1>7, <1>10, Zenon

(* Receiving moves units within a ledger. *)
LEMMA LedgerRecv ==
  ASSUME Queues, NEW c \in Clients, ClientRecv(c), NEW d \in Clients
  PROVE  Ledger(d)' = Ledger(d) /\ Pending(d)' = Pending(d)
<1>1. /\ got' = [got EXCEPT ![c] = Cat(got[c], outbuf[c])]
      /\ outbuf' = [outbuf EXCEPT ![c] = << >>] /\ writeq' = writeq
  BY DEF ClientRecv, Cat
<1>2. Pending(d)' = Pending(d)
  BY <1>1 DEF Pending
<1>3. got \in [Clients -> Seq(Units)] /\ outbuf \in [Clients -> Seq(Units)]
  BY DEF Queues
<1>4. CASE d # c
  <2>1. got'[d] = got[d] /\ outbuf'[d] = outbuf[d]
    BY <1>1, <1>3, <1>4
  <2> QED
    BY <1>2, <2>1, Zenon DEF Ledger
<1>5. CASE d = c
  <2>1. got'[d] = Cat(got[d], outbuf[d]) /\ outbuf'[d] = << >>
    BY <1>1, <1>3, <1>5
  <2>2. PICK s \in Seq(Units) : s = Cat(got[d], outbuf[d])
    BY <1>3, CatFacts
  <2>3. Cat(s, << >>) = s
    BY CatFacts
  <2>4. Cat(got'[d], outbuf'[d]) = Cat(got[d], outbuf[d])
    BY <2>1, <2>2, <2>3, Zenon
  <2> QED
    BY <1>2, <2>4, Zenon DEF Ledger
<1> QED
  BY <1>4, <1>5

(* So does writing to a descriptor that is the connection's own. *)
LEMMA LedgerWrite ==
  ASSUME Queues, OwnPeers, NEW c \in Clients, NEW to \in Clients, NEW len \in Nat,
         Moved(c, to, len), NEW d \in Clients, outbuf[d] \in Seq(UnitsOf(d))
  PROVE  /\ Ledger(d)' = Ledger(d) /\ outbuf'[d] \in Seq(UnitsOf(d))
         /\ Pending(d) = << >> => Pending(d)' = << >>
<1> DEFINE rest == AfterWrite(writeq[c], len)
<1>1. PICK w \in Seq(UnitsOf(c)) :
        /\ outbuf' = [outbuf EXCEPT ![to] = Cat(outbuf[to], w)]
        /\ Queued(UnitsOf(c), rest)
        /\ Rest(writeq[c]) = Cat(w, Rest(rest))
  BY MovedFacts
<1>2. writeq' = [writeq EXCEPT ![c] = rest] /\ got' = got /\ c \in ev_write /\ to = Peer(c)
  BY Zenon DEF Moved
<1>3. PICK r \in Seq(UnitsOf(c)) : r = Rest(rest)
  BY <1>1, PartsType DEF Queued
<1> HIDE DEF rest
<1>4. writeq'[c] = rest /\ \A e \in Clients : e # c => writeq'[e] = writeq[e]
  BY <1>2 DEF Queues
<1>5. Pending(c)' = r
  <2>1. Pending(c)' = Rest(writeq'[c])
    BY DEF Pending, Rest, Parts, Part
  <2> QED
    BY <1>3, <1>4, <2>1, Zenon
<1>6. \A e \in Clients : e # c => Pending(e)' = Pending(e)
  BY <1>4 DEF Pending
<1>7. Pending(c) = Cat(w, r)
  BY <1>1, <1>3, LedgerType, Zenon
<1>8. Pending(c) = << >> => w = << >> /\ r = << >>
  <2>1. SUFFICES ASSUME Pending(c) = << >> PROVE w = << >> /\ r = << >>
    OBVIOUS
  <2>2. Len(Cat(w, r)) = Len(w) + Len(r) /\ Len(w) \in Nat /\ Len(r) \in Nat
    BY CatFacts, LenProperties
  <2>3. Len(Cat(w, r)) = 0
    BY <1>7, <2>1
  <2>4. Len(w) = 0 /\ Len(r) = 0
    <3>1. PICK i \in Nat, j \in Nat : i = Len(w) /\ j = Len(r) /\ i + j = 0
      BY <2>2, <2>3
    <3>2. i = 0 /\ j = 0
      BY <3>1
    <3> QED
      BY <3>1, <3>2
  <2> QED
    BY <2>4, EmptySeq
<1>9. outbuf \in [Clients -> Seq(Units)]
  BY DEF Queues
<1>10. CASE Pending(c) = << >>
  <2>1. w = << >> /\ r = << >>
    BY <1>8, <1>10
  <2>2. Cat(outbuf[to], w) = outbuf[to]
    BY <1>9, <2>1, CatFacts
  <2>3. outbuf' = outbuf
    BY <1>1, <1>9, <2>2
  <2>4. Pending(d)' = Pending(d)
    BY <1>5, <1>6, <1>10, <2>1
  <2> QED
    BY <1>2, <2>3, <2>4, Zenon DEF Ledger
<1>11. CASE Pending(c) # << >>
  <2>1. to = c
    <3>1. to # NoClient
      BY Sizes
    <3> QED
      BY <1>2, <1>11, <3>1 DEF OwnPeers
  <2>2. CASE d # c
    <3>1. outbuf'[d] = outbuf[d] /\ got'[d] = got[d] /\ Pending(d)' = Pending(d)
      BY <1>1, <1>2, <1>6, <1>9, <2>1, <2>2
    <3> QED
      BY <3>1, Zenon DEF Ledger
  <2>3. CASE d = c
    <3>1. outbuf'[c] = Cat(outbuf[c], w) /\ got'[c] = got[c]
      BY <1>1, <1>2, <1>9, <2>1
    <3>2. outbuf'[d] \in Seq(UnitsOf(d))
      <4>1. PICK s \in Seq(UnitsOf(c)) : s = outbuf[c]
        BY <2>3
      <4>2. Cat(s, w) \in Seq(UnitsOf(c))
        BY CatFacts
      <4> QED
        BY <2>3, <3>1, <4>1, <4>2, Zenon
    <3>3. PICK g \in Seq(Units), o \in Seq(Units), x \in Seq(Units), y \in Seq(Units) :
            g = got[c] /\ o = outbuf[c] /\ x = w /\ y = r
      BY LedgerType, OwnUnitsAreUnits
    <3>4. /\ Cat(g, o) \in Seq(Units) /\ Cat(g, Cat(o, x)) = Cat(Cat(g, o), x)
      BY CatFacts
    <3>5. Cat(Cat(Cat(g, o), x), y) = Cat(Cat(g, o), Cat(x, y))
      BY <3>4, CatFacts
    <3>6. Ledger(c)' = Cat(Cat(g, Cat(o, x)), y)
      BY <1>5, <3>1, <3>3, Zenon DEF Ledger
    <3>7. Ledger(c) = Cat(Cat(g, o), Cat(x, y))
      BY <1>7, <3>3, Zenon DEF Ledger
    <3>8. Ledger(d)' = Ledger(d)
      BY <2>3, <3>4, <3>5, <3>6, <3>7, Zenon
    <3> QED
      BY <1>11, <2>3, <3>2, <3>8
  <2> QED
    BY <2>2, <2>3
<1> QED
  BY <1>10, <1>11

(* A reply that is queued is added to one ledger. *)
LEMMA LedgerReply ==
  ASSUME Queues, Progress, NEW c \in Clients, NEW n \in Nat, Serves(c, n)
  PROVE  /\ Ledger(c)' = Cat(Ledger(c), Answer(c, n + 1, vblks[c]))
         /\ \A d \in Clients : d # c => Ledger(d)' = Ledger(d) /\ Pending(d)' = Pending(d)
<1>1. n < Len(Script[c]) /\ Replied(c, n + 1) /\ UNCHANGED <<got, outbuf>>
  BY DEF Serves
<1>2. n + 1 \in 1 .. Len(Script[c]) /\ vblks[c] \in Seq(BlockContents)
  BY <1>1, NextBlocks DEF Progress
<1>3. PICK a \in Seq(UnitsOf(c)) : a = Answer(c, n + 1, vblks[c])
  BY <1>2, AnswerType
<1>4. PICK u \in Seq(Units), p \in Seq(Units), l \in Seq(Units) :
        u = Cat(got[c], outbuf[c]) /\ p = Pending(c) /\ l = a
  BY <1>3, LedgerType, OwnUnitsAreUnits, CatFacts
<1>5. Ledger(c) = Cat(u, p)
  BY <1>4, Zenon DEF Ledger
<1>6. CASE a = << >> /\ UNCHANGED <<writeq, ev_write>>
  <2>1. \A d \in Clients : Ledger(d)' = Ledger(d) /\ Pending(d)' = Pending(d)
    BY <1>1, <1>6 DEF Ledger, Pending
  <2>2. Cat(Ledger(c), << >>) = Ledger(c)
    BY LedgerType, CatFacts
  <2> QED
    BY <1>3, <1>6, <2>1, <2>2, Zenon
<1>7. CASE writeq' = [writeq EXCEPT ![c] = Append(writeq[c], [buf |-> a, offset |-> 0])]
  <2> DEFINE q == Append(writeq[c], [buf |-> a, offset |-> 0])
  <2>1. Rest(q) = Cat(Rest(writeq[c]), a)
    BY QueueReply DEF Queues
  <2>2. writeq' = [writeq EXCEPT ![c] = q]
    BY <1>7
  <2> HIDE DEF q
  <2>3. writeq'[c] = q /\ \A d \in Clients : d # c => writeq'[d] = writeq[d]
    BY <2>2 DEF Queues
  <2>4. Pending(c)' = Cat(Pending(c), a)
    <3>1. Pending(c)' = Rest(writeq'[c])
      BY DEF Pending, Rest, Parts, Part
    <3>2. Pending(c) = Rest(writeq[c])
      BY LedgerType
    <3> QED
      BY <2>1, <2>3, <3>1, <3>2, Zenon
  <2>5. \A d \in Clients : d # c => Pending(d)' = Pending(d)
    BY <2>3 DEF Pending
  <2>6. \A d \in Clients : d # c => Ledger(d)' = Ledger(d)
    BY <1>1, <2>5 DEF Ledger
  <2>7. Cat(Cat(u, p), l) = Cat(u, Cat(p, l))
    BY CatFacts
  <2>8. Ledger(c)' = Cat(u, Cat(p, l))
    BY <1>1, <1>4, <2>4, Zenon DEF Ledger
  <2> QED
    BY <1>3, <1>4, <1>5, <2>5, <2>6, <2>7, <2>8, Zenon
<1> QED
  BY <1>1, <1>3, <1>6, <1>7 DEF Replied

(* The ledgers after a step that serves nobody. *)
LEMMA LedgerRests ==
  ASSUME Descriptors, Queues, OwnPeers, Delivered, Rests, NEW d \in Clients
  PROVE  /\ Ledger(d)' = Ledger(d) /\ outbuf'[d] \in Seq(UnitsOf(d))
         /\ Pending(d) = << >> => Pending(d)' = << >>
<1>1. outbuf[d] \in Seq(UnitsOf(d))
  BY DEF Delivered
<1>2. CASE UNCHANGED <<got, outbuf, writeq, ev_write>>
  BY <1>1, <1>2 DEF Ledger, Pending
<1>3. ASSUME NEW c \in Clients, ClientRecv(c)
      PROVE  /\ Ledger(d)' = Ledger(d) /\ outbuf'[d] \in Seq(UnitsOf(d))
             /\ Pending(d) = << >> => Pending(d)' = << >>
  <2>1. outbuf' = [outbuf EXCEPT ![c] = << >>] /\ outbuf \in [Clients -> Seq(Units)]
    BY <1>3 DEF ClientRecv, Queues
  <2>2. outbuf'[d] \in Seq(UnitsOf(d))
    BY <1>1, <2>1, EmptySeq
  <2> QED
    BY <1>3, <2>2, LedgerRecv
<1>4. ASSUME NEW c \in Clients, OnWrite(c)
      PROVE  /\ Ledger(d)' = Ledger(d) /\ outbuf'[d] \in Seq(UnitsOf(d))
             /\ Pending(d) = << >> => Pending(d)' = << >>
  <2>1. PICK to \in Clients, len \in Nat : Moved(c, to, len)
    BY <1>4, OnWriteMoves
  <2> QED
    BY <1>1, <2>1, LedgerWrite
<1> QED
  BY <1>2, <1>3, <1>4 DEF Rests

(* Every reply is added to its client's ledger once and in its turn, and   *)
(* the rest only moves within the ledgers.                                 *)
LEMMA DeliveredStep ==
  ASSUME ConnInv, OwnPeers, Delivered, [Next]_vars
  PROVE  Delivered'
<1>0. /\ Sockets /\ Descriptors /\ Callback /\ Progress /\ Queues
      /\ message_end \in [Clients -> Nat] /\ vblks \in [Clients -> Seq(BlockContents)]
  BY DEF ConnInv, Progress
<1> SUFFICES ASSUME NEW d \in Clients
             PROVE  /\ \E m \in Nat :
                         /\ Place(d, m)'
                         /\ d \notin refused' =>
                              vblks'[d] = RefVblks(d, m) /\ Ledger(d)' = RefReplies(d, m)
                    /\ outbuf'[d] \in Seq(UnitsOf(d))
  BY DEF Delivered
<1>1. PICK m \in Nat :
        /\ Place(d, m)
        /\ d \notin refused => vblks[d] = RefVblks(d, m) /\ Ledger(d) = RefReplies(d, m)
  BY DEF Delivered
<1>2. outbuf[d] \in Seq(UnitsOf(d))
  BY DEF Delivered
<1>3. CASE Rests
  <2>1. Place(d, m)' /\ vblks' = vblks /\ refused' = refused
    BY <1>1, <1>3 DEF Rests
  <2>2. Ledger(d)' = Ledger(d) /\ outbuf'[d] \in Seq(UnitsOf(d))
    BY <1>0, <1>3, LedgerRests
  <2> QED
    BY <1>1, <2>1, <2>2
<1>4. ASSUME NEW c \in Clients, Works(c), d # c
      PROVE  /\ \E k \in Nat :
                   /\ Place(d, k)'
                   /\ d \notin refused' =>
                        vblks'[d] = RefVblks(d, k) /\ Ledger(d)' = RefReplies(d, k)
             /\ outbuf'[d] \in Seq(UnitsOf(d))
  <2>1. Place(d, m)'
    BY <1>1, <1>4, PlaceFrame DEF Works
  <2>2. PICK n \in Nat : Place(c, n)
    BY DEF Delivered
  <2>3. CASE Serves(c, n)
    <3>1. /\ vblks' = [vblks EXCEPT ![c] = RefStep(c, n + 1, vblks[c])]
          /\ refused' = refused /\ outbuf' = outbuf
      BY <2>3 DEF Serves
    <3>2. vblks'[d] = vblks[d]
      BY <1>0, <1>4, <3>1
    <3>3. Ledger(d)' = Ledger(d)
      BY <1>0, <1>4, <2>3, LedgerReply
    <3> QED
      BY <1>1, <1>2, <2>1, <3>1, <3>2, <3>3
  <2>4. CASE Refuses(c, n)
    <3>1. UNCHANGED <<got, outbuf, vblks, writeq>> /\ refused' = refused \cup {c}
      BY <2>4 DEF Refuses
    <3>2. Ledger(d)' = Ledger(d)
      BY <3>1 DEF Ledger, Pending
    <3> QED
      BY <1>1, <1>2, <1>4, <2>1, <3>1, <3>2
  <2> QED
    BY <1>4, <2>2, <2>3, <2>4 DEF Works
<1>5. ASSUME NEW c \in Clients, Works(c), d = c
      PROVE  /\ \E k \in Nat :
                   /\ Place(d, k)'
                   /\ d \notin refused' =>
                        vblks'[d] = RefVblks(d, k) /\ Ledger(d)' = RefReplies(d, k)
             /\ outbuf'[d] \in Seq(UnitsOf(d))
  <2>1. CASE Serves(d, m)
    <3>1. /\ vblks' = [vblks EXCEPT ![d] = RefStep(d, m + 1, vblks[d])]
          /\ refused' = refused /\ outbuf' = outbuf /\ Place(d, m + 1)' /\ m < Len(Script[d])
          /\ m + 1 \in Nat
      BY <2>1 DEF Serves
    <3>2. m \in 0 .. Len(Script[d]) - 1 /\ RefVblks(d, m + 1) = RefStep(d, m + 1, RefVblks(d, m))
      BY <3>1, NextBlocks
    <3>3. vblks'[d] = RefStep(d, m + 1, vblks[d])
      BY <1>0, <3>1
    <3>4. Ledger(d)' = Cat(Ledger(d), Answer(d, m + 1, vblks[d]))
      BY <1>0, <2>1, LedgerReply
    <3>5. RefReplies(d, m + 1) = Cat(RefReplies(d, m), Answer(d, m + 1, RefVblks(d, m)))
      BY <3>2, RefRepliesSteps
    <3>6. d \notin refused' => vblks'[d] = RefVblks(d, m + 1) /\ Ledger(d)' = RefReplies(d, m + 1)
      BY <1>1, <3>1, <3>2, <3>3, <3>4, <3>5, Zenon
    <3> QED
      BY <1>2, <3>1, <3>6
  <2>2. CASE Refuses(d, m)
    <3>1. d \in refused' /\ outbuf' = outbuf /\ Place(d, m + 1)' /\ m + 1 \in Nat
      BY <2>2 DEF Refuses
    <3> QED
      BY <1>2, <3>1
  <2> QED
    BY <1>1, <1>5, <2>1, <2>2 DEF Works
<1> QED
  BY <1>0, <1>3, <1>4, <1>5, Advances

(* At first nothing was asked for and nothing sent. *)
LEMMA DeliveredInit ==
  ASSUME Init
  PROVE  Delivered
<1> SUFFICES ASSUME NEW c \in Clients
             PROVE  /\ Place(c, 0) /\ vblks[c] = RefVblks(c, 0) /\ Ledger(c) = RefReplies(c, 0)
                    /\ outbuf[c] \in Seq(UnitsOf(c))
  BY DEF Delivered
<1>1. got[c] = << >> /\ outbuf[c] = << >> /\ writeq[c] = << >> /\ vblks[c] = << >>
  BY DEF Init
<1>2. << >> \in Seq(UnitsOf(c)) /\ << >> \in Seq(Bufs(UnitsOf(c))) /\ Len(<< >>) = 0
  BY EmptySeq
<1>3. Pending(c) = << >>
  <2>1. Pending(c) = Rest(<< >>)
    BY <1>1 DEF Pending, Rest, Parts, Part
  <2>2. Parts(<< >>) \in Seq(Seq(UnitsOf(c))) /\ Len(Parts(<< >>)) = 0
    BY <1>2, PartsType
  <2>3. Parts(<< >>) = << >>
    BY <2>2, EmptySeq
  <2> QED
    BY <2>1, <2>2, <2>3, FlattenEmpty DEF Rest
<1>4. Cat(<< >>, << >>) = << >>
  BY <1>2, CatFacts
<1>5. Ledger(c) = << >>
  BY <1>1, <1>3, <1>4, Zenon DEF Ledger
<1>6. RefReplies(c, 0) = << >> /\ RefVblks(c, 0) = << >>
  BY RefRepliesSteps, RefVblksSteps
<1>7. Place(c, 0)
  <2>1. ~Dropped(c) /\ ~InPayload(c) /\ message_end[c] = 0 /\ consumed[c] = 0 + 0
    BY DEF Init, Dropped, InPayload, NoCb
  <2>2. 0 <= MsgLen /\ StreamLen(c, 0) = 0 /\ 0 \in 0 .. Len(Script[c])
    BY Sizes, StreamLens, Requested
  <2>3. At(c, 0)
    BY <2>1, <2>2 DEF At
  <2> QED
    BY <2>1, <2>3 DEF Place
<1> QED
  BY <1>1, <1>2, <1>5, <1>6, <1>7

(* What is delivered is exact. *)
LEMMA DeliveredExact ==
  ASSUME ConnInv, Delivered
  PROVE  RepliesExact /\ OwnReplies
<1>1. RepliesExact
  <2> SUFFICES ASSUME NEW c \in Clients \ refused, cb.conn # c
               PROVE  got[c] \o outbuf[c] \o Pending(c) = RefReplies(c, Processed(c))
    BY DEF RepliesExact
  <2>1. PICK n \in Nat : Place(c, n) /\ Ledger(c) = RefReplies(c, n)
    BY DEF Delivered
  <2>2. Processed(c) = n
    BY <2>1, ServedIsProcessed DEF ConnInv
  <2> QED
    BY <2>1, <2>2, Zenon DEF Ledger, Cat
<1>2. OwnReplies
  <2> SUFFICES ASSUME NEW c \in Clients, NEW i \in DOMAIN outbuf[c] PROVE outbuf[c][i].of = c
    BY DEF OwnReplies
  <2>1. outbuf[c] \in Seq(UnitsOf(c))
    BY DEF Delivered
  <2>2. outbuf[c][i] \in UnitsOf(c)
    BY <2>1, LenProperties
  <2> QED
    BY <2>2 DEF UnitsOf
<1> QED
  BY <1>1, <1>2

(* As long as no descriptor with replies still to be written is given to   *)
(* another connection, every client receives exactly the replies to its    *)
(* requests, however on_write has to cut them and whatever else happens.   *)
(* That the descriptor is kept is what close() in on_read, which leaves    *)
(* ev_write added, does not ensure.                                        *)
THEOREM RepliesExactWhileOwned == Spec /\ []OwnPeers => [](RepliesExact /\ OwnReplies)
<1>1. Init => Delivered
  BY DeliveredInit
<1>2. ConnInv /\ OwnPeers /\ Delivered /\ [Next]_vars => Delivered'
  BY DeliveredStep
<1>3. ConnInv /\ Delivered => RepliesExact /\ OwnReplies
  BY DeliveredExact
<1> QED
  BY <1>1, <1>2, <1>3, ConnInvariant, PTL DEF Spec

(* A connection that is not closed owns its descriptor. *)
LEMMA PeerOf ==
  ASSUME Descriptors, Queues, NEW c \in ev_write
  PROVE  c \in Clients /\ Peer(c) \in Clients \cup {NoClient} /\ (~Dropped(c) => Peer(c) = c)
<1>1. c \in Clients /\ fd[c] # 0 /\ fd[c] \in 0 .. NumFds
  BY DEF Descriptors, Queues
<1>2. fd[c] \in 1 .. NumFds
  BY <1>1, Sizes
<1> QED
  BY <1>1, <1>2 DEF Descriptors, Peer, Dropped

(* A server with a single connection never misdirects a reply, even to a   *)
(* client that leaves in the middle of everything.                         *)
THEOREM SingleConnectionExact ==
  ASSUME \A a, b \in Clients : a = b
  PROVE  Spec => [](RepliesExact /\ OwnReplies)
<1>1. ASSUME ConnInv PROVE OwnPeers
  <2> SUFFICES ASSUME NEW c \in ev_write PROVE Peer(c) \in {c, NoClient}
    BY DEF OwnPeers
  <2>1. c \in Clients /\ Peer(c) \in Clients \cup {NoClient}
    BY <1>1, PeerOf DEF ConnInv
  <2> QED
    BY <2>1
<1> QED
  BY <1>1, ConnInvariant, RepliesExactWhileOwned, PTL

-----------------------------------------------------------------------------
(* Patient clients: a client that waits for its replies and closes only    *)
(* when it has them, or when the server has closed, leaves nothing in its  *)
(* queue; so its descriptor can be given to another connection.            *)

(* A client has the replies to all messages but its last. *)
Waits == \A c \in Clients : sent[c] > 0 => Len(got[c]) >= Len(RefReplies(c, sent[c] - 1))

(* It closes when it has them all. *)
ClosesServed ==
  \A c \in Clients : link[c] = "closed" =>
     Dropped(c) \/ (sent[c] = Len(Script[c]) /\ HasReplies(c, sent[c]))

(* A connection is closed only when nothing is left to be written. *)
NothingDropped == \A c \in Clients : Dropped(c) => Pending(c) = << >>

(* The client of a refused allocation waits for a reply, for ever. *)
RefusedWait ==
  \A c \in refused :
     /\ ~Dropped(c) /\ cb.conn # c /\ consumed[c] = StreamLen(c, sent[c])
     /\ Len(Ledger(c)) < Len(RefReplies(c, sent[c]))

(* A callback has something to read, or the peer has closed. *)
Starts ==
  \A c \in Clients : InCommand(c) /\ message_end[c] = 0 => Available(c) > 0 \/ AtEOF(c)

Patience == Waits /\ ClosesServed /\ NothingDropped /\ RefusedWait /\ Starts

(* Then replies reach their own socket. *)
LEMMA PatientPeers ==
  ASSUME Descriptors, Queues, NothingDropped
  PROVE  OwnPeers
BY PeerOf DEF NothingDropped, OwnPeers

(* Later messages are further in the stream, and only they. *)
LEMMA StreamOrder ==
  ASSUME NEW c \in Clients, NEW m \in 0 .. Len(Script[c]), NEW k \in 0 .. Len(Script[c]),
         StreamLen(c, m) <= StreamLen(c, k)
  PROVE  m <= k
<1>0. PICK N \in Nat : N = Len(Script[c])
  BY Requested
<1>1. SUFFICES ASSUME ~(m <= k) PROVE FALSE
  OBVIOUS
<1>2. m \in k .. Len(Script[c]) /\ m - k \in Nat /\ m - k > 0
  BY <1>0, <1>1
<1>3. PICK x \in Nat, y \in Nat : x = StreamLen(c, k) /\ y = StreamLen(c, m)
  BY StreamLens
<1>4. x + (m - k) <= y
  BY <1>2, <1>3, StreamMonotone
<1>5. y <= x
  BY <1>3
<1>6. PICK z \in Nat : z = m - k /\ z > 0
  BY <1>2
<1> QED
  BY <1>4, <1>5, <1>6

(* Beyond the end of message n, the client has sent another. *)
LEMMA SentMore ==
  ASSUME Sockets, NEW c \in Clients, NEW n \in 0 .. Len(Script[c]), StreamLen(c, n) < consumed[c]
  PROVE  sent[c] \in 0 .. Len(Script[c]) /\ n < sent[c]
<1>1. sent[c] \in 0 .. Len(Script[c])
  BY Requested DEF Sockets
<1>2. PICK x \in Nat, y \in Nat, a \in Nat, q \in Nat :
        x = StreamLen(c, n) /\ y = StreamLen(c, sent[c]) /\ a = arrived[c] /\ q = consumed[c]
  BY <1>1, StreamLens DEF Sockets
<1>3. x < q /\ q <= a /\ a <= y
  BY <1>2 DEF Sockets
<1>4. x < y
  BY <1>3
<1>5. SUFFICES ASSUME ~(n < sent[c]) PROVE FALSE
  BY <1>1
<1>6. PICK m \in Nat : m = sent[c] /\ m \in 0 .. Len(Script[c])
  BY <1>1, Requested
<1>7. n \in m .. Len(Script[c]) /\ n - m \in Nat
  BY <1>5, <1>6, Requested
<1>8. y + (n - m) <= x
  BY <1>2, <1>6, <1>7, StreamMonotone
<1> QED
  BY <1>4, <1>7, <1>8

(* A client with the replies to m messages has all replies of a server     *)
(* that has served no more.                                                *)
LEMMA GotAll ==
  ASSUME Queues, NEW c \in Clients, NEW n \in 0 .. Len(Script[c]), NEW m \in n .. Len(Script[c]),
         Ledger(c) = RefReplies(c, n), Len(got[c]) >= Len(RefReplies(c, m))
  PROVE  Pending(c) = << >>
<1>1. PICK g \in Nat, o \in Nat, p \in Nat :
        /\ g = Len(got[c]) /\ o = Len(outbuf[c]) /\ p = Len(Pending(c))
        /\ Len(Ledger(c)) = g + o + p
  BY LedgerType
<1>2. PICK x \in Nat, y \in Nat : x = Len(RefReplies(c, n)) /\ y = Len(RefReplies(c, m)) /\ x <= y
  <2>1. m \in 0 .. Len(Script[c])
    BY Requested
  <2>2. Len(RefReplies(c, n)) \in Nat /\ Len(RefReplies(c, m)) \in Nat
    BY <2>1, RefRepliesSteps, LenProperties
  <2>3. Len(RefReplies(c, n)) <= Len(RefReplies(c, m))
    BY RefRepliesMonotone
  <2> QED
    BY <2>2, <2>3
<1>3. x = g + o + p /\ g >= y
  BY <1>1, <1>2
<1>4. p = 0
  BY <1>2, <1>3
<1> QED
  BY <1>1, <1>4, LedgerType, EmptySeq

(* A client that misses a reply of a longer script has not got it. *)
LEMMA NotAll ==
  ASSUME Queues, NEW c \in Clients, NEW n \in 0 .. Len(Script[c]),
         Len(Ledger(c)) < Len(RefReplies(c, n))
  PROVE  Len(got[c]) < Len(RefReplies(c, n))
<1>1. PICK g \in Nat, o \in Nat, p \in Nat :
        /\ g = Len(got[c]) /\ o = Len(outbuf[c]) /\ p = Len(Pending(c))
        /\ Len(Ledger(c)) = g + o + p
  BY LedgerType
<1>2. PICK x \in Nat : x = Len(RefReplies(c, n))
  BY RefRepliesSteps, LenProperties
<1>3. g + o + p < x
  BY <1>1, <1>2
<1>4. g < x
  BY <1>3
<1> QED
  BY <1>1, <1>2, <1>4

(* An allocation has a reply. *)
LEMMA AllocAnswered ==
  ASSUME NEW c \in Clients, NEW n \in Nat, n < Len(Script[c]), Script[c][n + 1].op = "alloc"
  PROVE  Len(RefReplies(c, n)) < Len(RefReplies(c, n + 1))
<1>1. n \in 0 .. Len(Script[c]) /\ n + 1 \in 1 .. Len(Script[c]) /\ n \in 0 .. Len(Script[c]) - 1
  BY NextBlocks
<1>2. PICK s \in Seq(UnitsOf(c)), t \in Seq(UnitsOf(c)) :
        s = RefReplies(c, n) /\ t = Answer(c, n + 1, RefVblks(c, n)) /\ Len(t) > 0
  BY <1>1, RefVblksType, AnswerType, RefRepliesSteps
<1>3. RefReplies(c, n + 1) = Cat(s, t)
  BY <1>1, <1>2, RefRepliesSteps
<1>4. PICK i \in Nat, j \in Nat : i = Len(s) /\ j = Len(t) /\ Len(Cat(s, t)) = i + j
  BY CatFacts, LenProperties
<1>5. i < i + j
  BY <1>2, <1>4
<1> QED
  BY <1>2, <1>3, <1>4, <1>5, Zenon

(* Who is closed stays closed, and who becomes so had a read() that got    *)
(* nothing.                                                                *)
LEMMA DroppedOnly ==
  ASSUME Descriptors, Callback, [Next]_vars, NEW c \in Clients
  PROVE  /\ Dropped(c) => Dropped(c)'
         /\ Dropped(c)' /\ ~Dropped(c) => ReadReturnsZero(c) \/ ReadReturnsError(c)
<1>1. CASE SameDropped
  BY <1>1 DEF SameDropped
<1>2. CASE \E d \in Clients : ReadReturnsZero(d) \/ ReadReturnsError(d)
  <2>1. PICK d \in Clients : ReadReturnsZero(d) \/ ReadReturnsError(d)
    BY <1>2
  <2>2. /\ Dropped(d)'
        /\ \A e \in Clients : e # d => (Dropped(e)' <=> Dropped(e))
    BY <2>1, Disconnects, DescriptorsDisconnect
  <2> QED
    BY <2>1, <2>2
<1> QED
  BY <1>1, <1>2, DescriptorsStep

(* What a client and the network change. *)
LEMMA ClientChanges ==
  ASSUME Sockets, Queues, [Next]_vars, NEW c \in Clients
  PROVE  /\ sent'[c] = sent[c] \/ ClientSend(c)
         /\ got'[c] = got[c] \/ ClientRecv(c)
         /\ link'[c] = link[c] \/ Connect(c) \/ ClientClose(c)
         /\ arrived'[c] = arrived[c] \/ Arrive(c)
<1>0. /\ sent \in [Clients -> Nat] /\ arrived \in [Clients -> Nat] /\ got \in [Clients -> Seq(Units)]
      /\ link \in [Clients -> {"idle", "open", "closed"}]
  BY DEF Sockets, Queues
<1>1. CASE \E d \in Clients : ClientSend(d)
  <2>1. PICK d \in Clients : ClientSend(d)
    BY <1>1
  <2>2. got' = got /\ link' = link /\ arrived' = arrived
    BY <2>1 DEF ClientSend
  <2>3. d # c => sent'[c] = sent[c]
    BY <1>0, <2>1 DEF ClientSend
  <2> QED
    BY <2>1, <2>2, <2>3
<1>2. CASE \E d \in Clients : ClientRecv(d)
  <2>1. PICK d \in Clients : ClientRecv(d)
    BY <1>2
  <2>2. sent' = sent /\ link' = link /\ arrived' = arrived
    BY <2>1 DEF ClientRecv
  <2>3. d # c => got'[c] = got[c]
    BY <1>0, <2>1 DEF ClientRecv
  <2> QED
    BY <2>1, <2>2, <2>3
<1>3. CASE \E d \in Clients : Connect(d) \/ ClientClose(d)
  <2>1. PICK d \in Clients : Connect(d) \/ ClientClose(d)
    BY <1>3
  <2>2. sent' = sent /\ got' = got /\ arrived' = arrived
    BY <2>1 DEF Connect, ClientClose
  <2>3. d # c => link'[c] = link[c]
    BY <1>0, <2>1 DEF Connect, ClientClose
  <2> QED
    BY <2>1, <2>2, <2>3
<1>4. CASE \E d \in Clients : Arrive(d)
  <2>1. PICK d \in Clients : Arrive(d)
    BY <1>4
  <2>2. sent' = sent /\ got' = got /\ link' = link
    BY <2>1 DEF Arrive, clientVars
  <2>3. d # c => arrived'[c] = arrived[c]
    BY <1>0, <2>1 DEF Arrive
  <2> QED
    BY <2>1, <2>2, <2>3
<1>5. CASE ~(\E d \in Clients : ClientSend(d) \/ ClientRecv(d) \/ Connect(d) \/ ClientClose(d) \/ Arrive(d))
  <2>1. UNCHANGED <<sent, got, link, arrived>>
    BY <1>5, Steps, ZenonT(60)
    DEF vars, clientVars, Interrupt, OnAccept, OnRead, ReadMessage, ReadPayload,
        ReadReturnsZero, ReadReturnsError, Disconnect, ProcessAlloc,
        RefuseAlloc, OpenDeviceFails, ProcessRead, ProcessErase, ProcessUnknown, ProcessWrite,
        WriteVblk, OnWrite, OnWriteError
  <2> QED
    BY <2>1
<1> QED
  BY <1>1, <1>2, <1>3, <1>4, <1>5

(* A client that has closed does nothing more. *)
LEMMA ClosedStays ==
  ASSUME Sockets, Queues, [Next]_vars, NEW c \in Clients, link[c] = "closed"
  PROVE  link'[c] = "closed" /\ sent'[c] = sent[c] /\ got'[c] = got[c]
<1>1. ~ClientSend(c) /\ ~ClientRecv(c) /\ ~Connect(c) /\ ~ClientClose(c)
  BY DEF ClientSend, ClientRecv, Connect, ClientClose
<1> QED
  BY <1>1, ClientChanges

(* What the client has received it keeps. *)
LEMMA GotGrows ==
  ASSUME Sockets, Queues, [Next]_vars, NEW c \in Clients
  PROVE  Len(got[c]) \in Nat /\ Len(got'[c]) \in Nat /\ Len(got[c]) <= Len(got'[c])
<1>1. Len(got[c]) \in Nat
  BY LedgerType
<1>2. CASE got'[c] = got[c]
  BY <1>1, <1>2
<1>3. CASE ClientRecv(c)
  <2>1. PICK s \in Seq(Units), t \in Seq(Units) : s = got[c] /\ t = outbuf[c]
    BY LedgerType
  <2>2. got'[c] = Cat(s, t)
    BY <1>3, <2>1 DEF ClientRecv, Cat, Queues
  <2>3. Len(Cat(s, t)) = Len(s) + Len(t) /\ Len(s) \in Nat /\ Len(t) \in Nat
    BY CatFacts, LenProperties
  <2>4. Len(s) + Len(t) \in Nat /\ Len(s) <= Len(s) + Len(t)
    BY <2>3
  <2> QED
    BY <1>1, <2>1, <2>2, <2>3, <2>4, Zenon
<1> QED
  BY <1>2, <1>3, ClientChanges

(* A client sends when it has the replies to what it sent before. *)
LEMMA WaitsStep ==
  ASSUME ConnInv, Waits, [Next]_vars
  PROVE  Waits'
<1>0. Sockets /\ Queues
  BY DEF ConnInv
<1> SUFFICES ASSUME NEW c \in Clients, sent'[c] > 0
             PROVE  Len(got'[c]) >= Len(RefReplies(c, sent'[c] - 1))
  BY DEF Waits
<1>1. PICK g \in Nat, h \in Nat : g = Len(got[c]) /\ h = Len(got'[c]) /\ g <= h
  BY <1>0, GotGrows
<1>2. PICK m \in Nat : m = sent[c] /\ m \in 0 .. Len(Script[c])
  BY <1>0, Requested DEF Sockets
<1>3. CASE ClientSend(c)
  <2>1. sent'[c] = m + 1 /\ Len(got[c]) = Len(RefReplies(c, m))
    BY <1>0, <1>2, <1>3 DEF ClientSend, HasReplies, Sockets
  <2>2. (m + 1) - 1 = m
    OBVIOUS
  <2>3. Len(RefReplies(c, sent'[c] - 1)) = g
    BY <1>1, <2>1, <2>2, Zenon
  <2>4. h >= g
    BY <1>1
  <2> QED
    BY <1>1, <2>3, <2>4, Zenon
<1>4. CASE sent'[c] = sent[c]
  <2>1. m > 0 /\ m - 1 \in 0 .. Len(Script[c])
    <3>1. m > 0
      BY <1>2, <1>4
    <3> QED
      BY <1>2, <3>1, Requested
  <2>2. PICK x \in Nat : x = Len(RefReplies(c, m - 1))
    BY <2>1, RefRepliesSteps, LenProperties
  <2>3. g >= x
    BY <1>1, <1>2, <2>1, <2>2 DEF Waits
  <2>4. h >= x
    BY <1>1, <2>3
  <2>5. RefReplies(c, sent'[c] - 1) = RefReplies(c, m - 1)
    BY <1>2, <1>4
  <2> QED
    BY <1>1, <2>2, <2>4, <2>5, Zenon
<1> QED
  BY <1>0, <1>3, <1>4, ClientChanges

(* It closes when it has them all, or the server has closed. *)
LEMMA ClosesServedStep ==
  ASSUME Impatient = {}, ConnInv, ClosesServed, [Next]_vars
  PROVE  ClosesServed'
<1>0. Sockets /\ Descriptors /\ Callback /\ Queues
  BY DEF ConnInv
<1> SUFFICES ASSUME NEW c \in Clients, link'[c] = "closed"
             PROVE  Dropped(c)' \/ (sent'[c] = Len(Script[c]) /\ Len(got'[c]) = Len(RefReplies(c, sent'[c])))
  BY DEF ClosesServed, HasReplies
<1>1. CASE link[c] = "closed"
  <2>1. sent'[c] = sent[c] /\ got'[c] = got[c]
    BY <1>0, <1>1, ClosedStays
  <2>2. Dropped(c) => Dropped(c)'
    BY <1>0, DroppedOnly
  <2>3. Dropped(c) \/ (sent[c] = Len(Script[c]) /\ Len(got[c]) = Len(RefReplies(c, sent[c])))
    BY <1>1 DEF ClosesServed, HasReplies
  <2> QED
    BY <2>1, <2>2, <2>3
<1>2. CASE link[c] # "closed"
  <2>1. Connect(c) \/ ClientClose(c)
    BY <1>0, <1>2, ClientChanges
  <2>2. ~Connect(c)
    <3>1. Connect(c) => link'[c] = "open"
      BY <1>0 DEF Connect, Sockets
    <3> QED
      BY <3>1
  <2>3. /\ Dropped(c) \/ (sent[c] = Len(Script[c]) /\ Len(got[c]) = Len(RefReplies(c, sent[c])))
        /\ UNCHANGED <<sent, got, owner, fd>>
    BY <2>1, <2>2 DEF ClientClose, HasReplies, connVars
  <2> QED
    BY <2>3 DEF Dropped
<1> QED
  BY <1>1, <1>2

(* A read() that gets nothing finds the queue empty: the client has all    *)
(* its replies and has closed, or it is still sending a message, which it  *)
(* began when it had them.                                                 *)
LEMMA DropNothing ==
  ASSUME ConnInv, Delivered, Patience, NEW c \in Clients, ReadReturnsZero(c) \/ ReadReturnsError(c)
  PROVE  Pending(c) = << >>
<1>0. Sockets /\ Descriptors /\ Callback /\ Queues /\ message_end \in [Clients -> Nat]
  BY DEF ConnInv, Progress
<1>1. cb.conn = c /\ Reading(c) /\ ~Dropped(c)
  BY <1>0, Disconnects, Inside
<1>2. c \notin refused
  BY <1>1 DEF Patience, RefusedWait
<1>3. PICK n \in Nat : Place(c, n) /\ Ledger(c) = RefReplies(c, n)
  BY <1>2 DEF Delivered
<1>4. At(c, n) /\ n \in 0 .. Len(Script[c]) /\ StreamLen(c, n) \in Nat
  <2>1. At(c, n) /\ n \in 0 .. Len(Script[c])
    BY <1>0, <1>1, <1>3, InPlace DEF At
  <2> QED
    BY <2>1, StreamLens
<1>5. CASE InCommand(c) /\ message_end[c] = 0
  <2>1. AtEOF(c)
    <3>1. Available(c) > 0 \/ AtEOF(c)
      BY <1>5 DEF Patience, Starts
    <3> QED
      BY <3>1 DEF ReadReturnsZero, ReadReturnsError
  <2>2. sent[c] = Len(Script[c]) /\ Len(got[c]) = Len(RefReplies(c, sent[c]))
    BY <1>1, <2>1 DEF AtEOF, Patience, ClosesServed, HasReplies
  <2>3. Len(Script[c]) \in n .. Len(Script[c])
    BY <1>4, Requested
  <2>4. Len(got[c]) >= Len(RefReplies(c, Len(Script[c])))
    BY <1>0, <2>2, LedgerType
  <2> QED
    BY <1>0, <1>3, <1>4, <2>3, <2>4, GotAll
<1>6. CASE ~(InCommand(c) /\ message_end[c] = 0)
  <2>1. StreamLen(c, n) < consumed[c]
    <3>1. CASE InPayload(c)
      <4>1. consumed[c] = StreamLen(c, n) + MsgLen + cb.received /\ cb.received \in Nat
        BY <1>0, <1>3, <3>1, Receiving
      <4>a. StreamLen(c, n) \in Nat /\ MsgLen \in Nat /\ MsgLen > 0
        BY <1>4, Sizes
      <4>b. PICK r \in Nat : r = cb.received
        BY <4>1
      <4>2. PICK x \in Nat, w \in Nat : x = StreamLen(c, n) /\ w = MsgLen /\ w > 0
        BY <4>a
      <4>3. x < x + w + r
        BY <4>2
      <4> QED
        BY <4>1, <4>b, <4>2, <4>3, Zenon
    <3>2. CASE ~InPayload(c)
      <4>1. InCommand(c)
        BY <1>0, <1>1, <3>2, Inside
      <4>2. consumed[c] = StreamLen(c, n) + message_end[c] /\ message_end[c] # 0
        BY <1>4, <1>6, <3>2, <4>1 DEF At
      <4>3. PICK x \in Nat, w \in Nat : x = StreamLen(c, n) /\ w = message_end[c]
        BY <1>0, <1>4
      <4>4. x < x + w
        BY <4>2, <4>3
      <4> QED
        BY <4>2, <4>3, <4>4, Zenon
    <3> QED
      BY <3>1, <3>2
  <2>2. sent[c] \in 0 .. Len(Script[c]) /\ n < sent[c]
    BY <1>0, <1>4, <2>1, SentMore
  <2>3. sent[c] > 0 /\ sent[c] - 1 \in n .. Len(Script[c])
    BY <1>4, <2>2, Requested
  <2>4. Len(got[c]) >= Len(RefReplies(c, sent[c] - 1))
    BY <2>3 DEF Patience, Waits
  <2> QED
    BY <1>0, <1>3, <1>4, <2>3, <2>4, GotAll
<1> QED
  BY <1>5, <1>6

(* Once it is empty, the queue of a closed connection stays empty. *)
LEMMA NothingDroppedStep ==
  ASSUME ConnInv, Delivered, Patience, OwnPeers, [Next]_vars
  PROVE  NothingDropped'
<1>0. /\ Sockets /\ Descriptors /\ Callback /\ Progress /\ Queues
      /\ message_end \in [Clients -> Nat] /\ vblks \in [Clients -> Seq(BlockContents)]
  BY DEF ConnInv, Progress
<1> SUFFICES ASSUME NEW c \in Clients, Dropped(c)' PROVE Pending(c)' = << >>
  BY DEF NothingDropped
<1>1. CASE Dropped(c)
  <2>1. Pending(c) = << >>
    BY <1>1 DEF Patience, NothingDropped
  <2>2. CASE Rests
    BY <1>0, <2>1, <2>2, LedgerRests
  <2>3. ASSUME NEW d \in Clients, Works(d) PROVE Pending(c)' = << >>
    <3>1. d # c
      BY <1>0, <1>1, <2>3, Inside DEF Works
    <3>2. PICK n \in Nat : Place(d, n)
      BY <1>0 DEF Progress
    <3>3. CASE Serves(d, n)
      BY <1>0, <2>1, <3>1, <3>3, LedgerReply
    <3>4. CASE Refuses(d, n)
      BY <2>1, <3>4 DEF Refuses, Pending
    <3> QED
      BY <2>3, <3>2, <3>3, <3>4 DEF Works
  <2> QED
    BY <1>0, <2>2, <2>3, Advances
<1>2. CASE ~Dropped(c)
  <2>1. ReadReturnsZero(c) \/ ReadReturnsError(c)
    BY <1>0, <1>2, DroppedOnly
  <2>2. Pending(c) = << >>
    BY <2>1, DropNothing
  <2>3. writeq' = writeq
    BY <2>1 DEF ReadReturnsZero, ReadReturnsError, Disconnect
  <2> QED
    BY <2>2, <2>3 DEF Pending
<1> QED
  BY <1>1, <1>2

(* How a connection gets into its callback. *)
LEMMA Enters ==
  ASSUME Callback, [Next]_vars, NEW c \in Clients
  PROVE  /\ cb.conn # c /\ cb'.conn = c => OnRead(c)
         /\ InCommand(c)' => OnRead(c) \/ cb' = cb
<1>0. cb \in Cbs /\ c # NoClient
  BY Sizes DEF Callback
<1>1. CASE \E d \in Clients : OnRead(d)
  <2>1. PICK d \in Clients : OnRead(d)
    BY <1>1
  <2>2. cb'.conn = d
    BY <2>1 DEF OnRead
  <2> QED
    BY <2>1, <2>2 DEF InCommand
<1>2. CASE \E d \in Clients : ReadPayload(d) \/ ProcessWrite(d)
  <2>1. PICK d \in Clients : ReadPayload(d) \/ ProcessWrite(d)
    BY <1>2
  <2>2. cb.conn = d
    BY <2>1 DEF ReadPayload, ProcessWrite, InPayload, InCommand, Dispatch
  <2>3. cb'.conn = d /\ cb'.phase = "payload"
    <3>1. CASE ProcessWrite(d)
      BY <3>1 DEF ProcessWrite
    <3>2. CASE ReadPayload(d)
      <4>1. \E k : cb' = [cb EXCEPT !.received = k]
        BY <3>2 DEF ReadPayload
      <4>2. cb.phase = "payload"
        BY <3>2 DEF ReadPayload, InPayload
      <4> QED
        BY <1>0, <2>2, <4>1, <4>2 DEF Cbs
    <3> QED
      BY <2>1, <3>1, <3>2
  <2> QED
    BY <2>2, <2>3 DEF InCommand
<1>3. CASE ~(\E d \in Clients : OnRead(d) \/ ReadPayload(d) \/ ProcessWrite(d))
  <2>1. cb' = cb \/ cb' = NoCb
    BY <1>3, Steps, ZenonT(60)
    DEF vars, clientVars, Interrupt, Connect, ClientSend, ClientRecv, ClientClose, Arrive, OnAccept,
        ReadMessage, ReadReturnsZero, ReadReturnsError, Disconnect, ProcessAlloc,
        RefuseAlloc, OpenDeviceFails, ProcessRead, ProcessErase, ProcessUnknown,
        WriteVblk, OnWrite, OnWriteError
  <2> QED
    BY <1>0, <2>1 DEF InCommand, NoCb
<1> QED
  BY <1>1, <1>2, <1>3

(* Only its own callback reads from a connection. *)
LEMMA ConsumedOutside ==
  ASSUME Sockets, Callback, Descriptors, Progress, [Next]_vars, NEW c \in Clients
  PROVE  /\ cb.conn # c => consumed'[c] = consumed[c]
         /\ cb' = cb /\ InCommand(c) /\ ~ReadMessage(c) =>
              consumed'[c] = consumed[c] /\ message_end'[c] = message_end[c]
<1>0. /\ consumed \in [Clients -> Nat] /\ message_end \in [Clients -> Nat] /\ c # NoClient
  BY Sizes DEF Sockets, Progress
<1>1. CASE \E d \in Clients : OnRead(d) \/ InCallback(d)
  <2>1. PICK d \in Clients : OnRead(d) \/ InCallback(d)
    BY <1>1
  <2>2. d # c => Frame(c)
    BY <1>0, <2>1, Others
  <2>3. CASE d # c
    BY <2>2, <2>3 DEF Frame
  <2>4. CASE d = c
    <3>1. CASE OnRead(c)
      BY <3>1 DEF OnRead
    <3>2. CASE ReadMessage(c)
      BY <3>2 DEF ReadMessage, InCommand
    <3>3. CASE ReadPayload(c)
      BY <3>3 DEF ReadPayload, InPayload, InCommand
    <3>4. CASE InCallback(c) /\ ~ReadMessage(c) /\ ~ReadPayload(c)
      <4>1. consumed' = consumed
        BY <3>4, ZenonT(30)
        DEF InCallback, ReadReturnsZero, ReadReturnsError, Disconnect, ProcessAlloc,
            RefuseAlloc, OpenDeviceFails, ProcessRead, ProcessErase, ProcessUnknown, ProcessWrite,
            WriteVblk
      <4>2. cb' = NoCb \/ cb'.phase = "payload"
        BY <3>4 DEF InCallback, ReadReturnsZero, ReadReturnsError, Disconnect, ProcessAlloc,
            RefuseAlloc, OpenDeviceFails, ProcessRead, ProcessErase, ProcessUnknown, ProcessWrite,
            WriteVblk
      <4>3. ~(cb' = cb /\ InCommand(c))
        BY <1>0, <4>2 DEF InCommand, NoCb
      <4> QED
        BY <4>1, <4>3
    <3> QED
      BY <2>1, <2>4, <3>1, <3>2, <3>3, <3>4
  <2> QED
    BY <2>3, <2>4
<1>2. CASE ~(\E d \in Clients : OnRead(d) \/ InCallback(d))
  <2>1. consumed' = consumed /\ message_end' = message_end
    BY <1>2, ZenonT(60)
    DEF Next, ClientStep, vars, Interrupt, Connect, ClientSend, ClientRecv, ClientClose, Arrive,
        OnAccept, OnWrite, OnWriteError
  <2> QED
    BY <2>1
<1> QED
  BY <1>1, <1>2

(* Such a client neither sends nor closes, and nothing of it is left to be *)
(* read.                                                                   *)
LEMMA RefusedIdle ==
  ASSUME ConnInv, Patience, NEW c \in refused
  PROVE  /\ c \in Clients /\ ~Dropped(c) /\ cb.conn # c
         /\ ~ClientSend(c) /\ ~OnRead(c)
<1>0. Sockets /\ Queues /\ c \in Clients
  BY DEF ConnInv, Progress
<1>1. /\ ~Dropped(c) /\ cb.conn # c /\ consumed[c] = StreamLen(c, sent[c])
      /\ Len(Ledger(c)) < Len(RefReplies(c, sent[c]))
  BY DEF Patience, RefusedWait
<1>2. sent[c] \in 0 .. Len(Script[c])
  BY <1>0, Requested DEF Sockets
<1>3. Len(got[c]) < Len(RefReplies(c, sent[c]))
  BY <1>0, <1>1, <1>2, NotAll
<1>4. ~HasReplies(c, sent[c])
  <2>1. PICK g \in Nat, x \in Nat : g = Len(got[c]) /\ x = Len(RefReplies(c, sent[c]))
    <3>1. Len(got[c]) \in Nat
      BY <1>0, LedgerType
    <3>2. Len(RefReplies(c, sent[c])) \in Nat
      BY <1>0, <1>2, RefRepliesSteps, LenProperties
    <3> QED
      BY <3>1, <3>2
  <2>2. g < x
    BY <1>3, <2>1
  <2>3. g # x
    BY <2>2
  <2> QED
    BY <2>1, <2>3 DEF HasReplies
<1>5. link[c] # "closed"
  BY <1>0, <1>1, <1>4 DEF Patience, ClosesServed
<1>6. ~(Available(c) > 0)
  <2>1. PICK q \in Nat, a \in Nat, y \in Nat :
          q = consumed[c] /\ a = arrived[c] /\ y = StreamLen(c, sent[c])
    BY <1>0, <1>2, StreamLens DEF Sockets
  <2>2. q <= a /\ a <= y /\ q = y
    BY <1>0, <1>1, <2>1 DEF Sockets
  <2>3. ~(a - q > 0)
    BY <2>2
  <2> QED
    BY <2>1, <2>3 DEF Available
<1> QED
  BY <1>0, <1>1, <1>4, <1>5, <1>6 DEF ClientSend, OnRead, AtEOF

(* It stays so. *)
LEMMA RefusedStays ==
  ASSUME ConnInv, Delivered, Patience, OwnPeers, [Next]_vars, NEW c \in refused
  PROVE  /\ ~Dropped(c)' /\ cb'.conn # c /\ consumed'[c] = StreamLen(c, sent'[c])
         /\ Len(Ledger(c)') < Len(RefReplies(c, sent'[c]))
<1>0. /\ Sockets /\ Descriptors /\ Callback /\ Progress /\ Queues
      /\ message_end \in [Clients -> Nat] /\ vblks \in [Clients -> Seq(BlockContents)]
  BY DEF ConnInv, Progress
<1>1. /\ c \in Clients /\ ~Dropped(c) /\ cb.conn # c
      /\ ~ClientSend(c) /\ ~OnRead(c)
  BY RefusedIdle
<1>2. sent'[c] = sent[c]
  BY <1>0, <1>1, ClientChanges
<1>3. consumed'[c] = consumed[c] /\ cb'.conn # c
  BY <1>0, <1>1, ConsumedOutside, Enters
<1>4. ~Dropped(c)'
  BY <1>0, <1>1, DroppedOnly, Disconnects, Inside
<1>5. Ledger(c)' = Ledger(c)
  <2>1. CASE Rests
    BY <1>0, <1>1, <2>1, LedgerRests
  <2>2. ASSUME NEW d \in Clients, Works(d) PROVE Ledger(c)' = Ledger(c)
    <3>1. d # c
      BY <1>1, <2>2 DEF Works
    <3>2. PICK n \in Nat : Place(d, n)
      BY <1>0 DEF Progress
    <3>3. CASE Serves(d, n)
      BY <1>0, <1>1, <3>1, <3>3, LedgerReply
    <3>4. CASE Refuses(d, n)
      BY <3>4 DEF Refuses, Pending, Ledger
    <3> QED
      BY <2>2, <3>2, <3>3, <3>4 DEF Works
  <2> QED
    BY <1>0, <2>1, <2>2, Advances
<1>6. consumed[c] = StreamLen(c, sent[c]) /\ Len(Ledger(c)) < Len(RefReplies(c, sent[c]))
  BY DEF Patience, RefusedWait
<1>7. StreamLen(c, sent'[c]) = StreamLen(c, sent[c]) /\ RefReplies(c, sent'[c]) = RefReplies(c, sent[c])
  BY <1>2
<1>8. Len(Ledger(c)') < Len(RefReplies(c, sent'[c]))
  BY <1>5, <1>6, <1>7, Zenon
<1>9. consumed'[c] = StreamLen(c, sent'[c])
  BY <1>3, <1>6, <1>7
<1> QED
  BY <1>3, <1>4, <1>8, <1>9

(* An allocation is refused: the client waits for its reply, so it has     *)
(* sent nothing after it.                                                  *)
LEMMA RefusedLast ==
  ASSUME Sockets, Queues, Waits, NEW c \in Clients, NEW n \in Nat, n < Len(Script[c]),
         Script[c][n + 1].op = "alloc", Ledger(c) = RefReplies(c, n),
         sent[c] \in 0 .. Len(Script[c]), n + 1 <= sent[c]
  PROVE  sent[c] = n + 1
<1>1. PICK m \in Nat : m = sent[c] /\ m \in 0 .. Len(Script[c])
  BY Requested
<1>2. SUFFICES ASSUME m # n + 1 PROVE FALSE
  BY <1>1
<1>3. n + 1 < m
  BY <1>1, <1>2
<1>4. m > 0 /\ n + 1 \in 0 .. Len(Script[c]) /\ m - 1 \in n + 1 .. Len(Script[c])
      /\ m - 1 \in 0 .. Len(Script[c]) /\ n \in 0 .. Len(Script[c])
  BY <1>1, <1>3, Requested
<1>5. PICK g \in Nat, o \in Nat, p \in Nat :
        /\ g = Len(got[c]) /\ o = Len(outbuf[c]) /\ p = Len(Pending(c))
        /\ Len(Ledger(c)) = g + o + p
  BY LedgerType
<1>6. PICK x \in Nat, y \in Nat, z \in Nat :
        x = Len(RefReplies(c, n)) /\ y = Len(RefReplies(c, n + 1)) /\ z = Len(RefReplies(c, m - 1))
  BY <1>4, RefRepliesSteps, LenProperties
<1>7. x < y
  BY <1>6, AllocAnswered
<1>8. y <= z
  <2>1. Len(RefReplies(c, n + 1)) <= Len(RefReplies(c, m - 1))
    BY <1>4, RefRepliesMonotone
  <2> QED
    BY <1>6, <2>1, Zenon
<1>9. g >= z
  BY <1>1, <1>4, <1>5, <1>6 DEF Waits
<1>10. x = g + o + p
  BY <1>5, <1>6
<1> QED
  BY <1>7, <1>8, <1>9, <1>10

(* A client that is refused now. *)
LEMMA RefusedNow ==
  ASSUME ConnInv, ConnInv', Delivered, Patience, OwnPeers, [Next]_vars,
         NEW c \in refused', c \notin refused
  PROVE  /\ ~Dropped(c)' /\ cb'.conn # c /\ consumed'[c] = StreamLen(c, sent'[c])
         /\ Len(Ledger(c)') < Len(RefReplies(c, sent'[c]))
<1>0. /\ Sockets /\ Descriptors /\ Callback /\ Progress /\ Queues /\ Sockets' /\ c \in Clients
      /\ message_end \in [Clients -> Nat] /\ vblks \in [Clients -> Seq(BlockContents)]
  BY DEF ConnInv, Progress
<1>1. PICK n \in Nat : Place(c, n) /\ Ledger(c) = RefReplies(c, n)
  BY <1>0 DEF Delivered
<1>2. Works(c) /\ Refuses(c, n)
  <2>1. ~Rests
    BY DEF Rests
  <2>2. PICK d \in Clients : Works(d)
    BY <1>0, <2>1, Advances
  <2>3. PICK m \in Nat : Place(d, m)
    BY <1>0 DEF Progress
  <2>4. ~Serves(d, m)
    BY DEF Serves
  <2>5. Refuses(d, m)
    BY <2>2, <2>3, <2>4 DEF Works
  <2>6. d = c
    BY <2>5 DEF Refuses
  <2> QED
    BY <1>1, <2>2, <2>3, <2>4, <2>6 DEF Works
<1>3. /\ n < Len(Script[c]) /\ Place(c, n + 1)' /\ Script[c][n + 1].op = "alloc"
      /\ UNCHANGED <<got, outbuf, writeq, sent>> /\ cb.conn = c /\ cb' = NoCb
  BY <1>2 DEF Works, Refuses
<1>4. cb'.conn # c /\ ~InPayload(c)'
  BY <1>0, <1>3, Sizes DEF NoCb, InPayload
<1>5. ~Dropped(c)'
  <2>1. ~ReadReturnsZero(c) /\ ~ReadReturnsError(c)
    BY DEF ReadReturnsZero, ReadReturnsError, Disconnect
  <2> QED
    BY <1>0, <1>3, <2>1, DroppedOnly, Inside
<1>6. consumed'[c] = StreamLen(c, n + 1) + 0 /\ n + 1 \in 0 .. Len(Script[c])
  BY <1>3, <1>4, <1>5 DEF Place, At
<1>7. consumed'[c] = StreamLen(c, n + 1)
  BY <1>0, <1>6, StreamLens
<1>8. sent[c] \in 0 .. Len(Script[c]) /\ n + 1 <= sent[c]
  <2>1. sent[c] \in 0 .. Len(Script[c])
    BY <1>0, Requested DEF Sockets
  <2>2. PICK q \in Nat, a \in Nat, y \in Nat :
          q = consumed'[c] /\ a = arrived'[c] /\ y = StreamLen(c, sent[c])
    BY <1>0, <2>1, StreamLens DEF Sockets
  <2>3. q <= a /\ a <= y
    BY <1>0, <1>3, <2>2 DEF Sockets
  <2>4. q <= y
    BY <2>3
  <2>5. StreamLen(c, n + 1) <= StreamLen(c, sent[c])
    BY <1>7, <2>2, <2>4
  <2> QED
    BY <1>0, <1>6, <2>1, <2>5, StreamOrder
<1>9. sent[c] = n + 1
  BY <1>0, <1>1, <1>3, <1>8, RefusedLast DEF Patience
<1>10. Ledger(c)' = RefReplies(c, n)
  BY <1>1, <1>3 DEF Ledger, Pending
<1>11. Len(RefReplies(c, n)) < Len(RefReplies(c, n + 1))
  BY <1>0, <1>3, AllocAnswered
<1>12. sent'[c] = n + 1
  BY <1>3, <1>9
<1> QED
  BY <1>4, <1>5, <1>7, <1>10, <1>11, <1>12, Zenon

(* Both together. *)
LEMMA RefusedWaitStep ==
  ASSUME ConnInv, ConnInv', Delivered, Patience, OwnPeers, [Next]_vars
  PROVE  RefusedWait'
<1> SUFFICES ASSUME NEW c \in refused'
             PROVE  /\ ~Dropped(c)' /\ cb'.conn # c /\ consumed'[c] = StreamLen(c, sent'[c])
                    /\ Len(Ledger(c)') < Len(RefReplies(c, sent'[c]))
  BY DEF RefusedWait
<1> QED
  BY RefusedStays, RefusedNow

(* What has arrived stays; new units come behind it. *)
LEMMA ArrivesMore ==
  ASSUME Sockets, Queues, [Next]_vars, NEW c \in Clients
  PROVE  /\ arrived[c] \in Nat /\ arrived'[c] \in Nat /\ arrived[c] <= arrived'[c]
         /\ arrived[c] = StreamLen(c, sent[c]) => arrived'[c] = arrived[c]
<1>0. arrived \in [Clients -> Nat] /\ arrived[c] \in Nat /\ sent[c] \in 0 .. Len(Script[c])
  BY Requested DEF Sockets
<1>1. CASE arrived'[c] = arrived[c]
  BY <1>0, <1>1
<1>2. CASE Arrive(c)
  <2>1. PICK a \in Nat, y \in Nat : a = arrived[c] /\ y = StreamLen(c, sent[c])
    BY <1>0, StreamLens
  <2>2. a < y
    BY <1>2, <2>1 DEF Arrive
  <2>3. PICK to : /\ to \in (IF Torn THEN a + 1 .. y
                             ELSE {e \in {StreamLen(c, n) : n \in 1 .. sent[c]} : e > a})
                  /\ arrived' = [arrived EXCEPT ![c] = to]
    BY <1>2, <2>1 DEF Arrive
  <2>4. to \in Nat /\ a <= to
    <3>1. CASE Torn
      BY <2>3, <3>1
    <3>2. CASE ~Torn
      <4>1. PICK n \in 1 .. sent[c] : to = StreamLen(c, n) /\ to > a
        BY <2>3, <3>2
      <4>2. n \in 0 .. Len(Script[c])
        BY <1>0, Requested
      <4>3. to \in Nat
        BY <4>1, <4>2, StreamLens
      <4> QED
        BY <4>1, <4>3
    <3> QED
      BY <3>1, <3>2
  <2>5. arrived'[c] = to
    BY <1>0, <2>3
  <2>6. a # y
    BY <2>2
  <2> QED
    BY <2>1, <2>4, <2>5, <2>6
<1> QED
  BY <1>1, <1>2, ClientChanges

(* A callback has something to read until it has read. *)
LEMMA StartsStep ==
  ASSUME ConnInv, ConnInv', Patience, [Next]_vars
  PROVE  Starts'
<1>0. /\ Sockets /\ Descriptors /\ Callback /\ Progress /\ Queues /\ Sockets'
      /\ message_end \in [Clients -> Nat]
  BY DEF ConnInv, Progress
<1> SUFFICES ASSUME NEW c \in Clients, InCommand(c)', message_end'[c] = 0
             PROVE  Available(c)' > 0 \/ AtEOF(c)'
  BY DEF Starts
<1>1. CASE OnRead(c)
  <2>1. (Available(c) > 0 \/ AtEOF(c)) /\ UNCHANGED <<arrived, consumed, link, sent>>
    BY <1>1 DEF OnRead, clientVars
  <2> QED
    BY <2>1 DEF Available, AtEOF
<1>2. CASE cb' = cb
  <2>1. InCommand(c)
    BY <1>2 DEF InCommand
  <2>2. ~ReadMessage(c)
    <3>1. SUFFICES ASSUME ReadMessage(c) PROVE FALSE
      OBVIOUS
    <3>2. PICK n \in Nat : Place(c, n)
      BY <1>0 DEF Progress
    <3>3. message_end'[c] > 0
      BY <1>0, <3>1, <3>2, PlaceReadMessage
    <3> QED
      BY <3>3
  <2>3. consumed'[c] = consumed[c] /\ message_end'[c] = message_end[c]
    BY <1>0, <1>2, <2>1, <2>2, ConsumedOutside
  <2>4. Available(c) > 0 \/ AtEOF(c)
    BY <2>1, <2>3 DEF Patience, Starts
  <2>5. PICK a \in Nat, b \in Nat, q \in Nat :
          a = arrived[c] /\ b = arrived'[c] /\ q = consumed[c] /\ a <= b
    BY <1>0, ArrivesMore DEF Sockets
  <2>6. CASE Available(c) > 0
    <3>1. a - q > 0
      BY <2>5, <2>6 DEF Available
    <3>2. b - q > 0
      BY <2>5, <3>1
    <3>3. Available(c)' = b - q
      BY <2>3, <2>5 DEF Available
    <3> QED
      BY <3>2, <3>3
  <2>7. CASE AtEOF(c)
    <3>1. link[c] = "closed" /\ arrived[c] = StreamLen(c, sent[c]) /\ Available(c) = 0
      BY <2>7 DEF AtEOF
    <3>2. link'[c] = "closed" /\ sent'[c] = sent[c]
      BY <1>0, <3>1, ClosedStays
    <3>3. arrived'[c] = arrived[c]
      BY <1>0, <3>1, ArrivesMore
    <3> QED
      BY <2>3, <3>1, <3>2, <3>3 DEF AtEOF, Available
  <2> QED
    BY <2>4, <2>6, <2>7
<1> QED
  BY <1>0, <1>1, <1>2, Enters

(* At first nobody has sent anything. *)
LEMMA PatienceInit ==
  ASSUME Init
  PROVE  Patience
<1>1. ASSUME NEW c \in Clients
      PROVE  sent[c] = 0 /\ link[c] = "idle" /\ ~Dropped(c) /\ ~InCommand(c)
  BY Sizes DEF Init, Dropped, InCommand, NoCb
<1>2. refused = {}
  BY DEF Init
<1> QED
  BY <1>1, <1>2 DEF Patience, Waits, ClosesServed, NothingDropped, RefusedWait, Starts

(* Every step keeps the five facts together. *)
LEMMA PatienceStep ==
  ASSUME Impatient = {}, ConnInv, ConnInv', Delivered, Patience, [Next]_vars
  PROVE  Patience'
<1>1. OwnPeers
  BY PatientPeers DEF ConnInv, Patience
<1>2. Waits' /\ ClosesServed'
  BY WaitsStep, ClosesServedStep DEF Patience
<1>3. NothingDropped'
  BY <1>1, NothingDroppedStep
<1>4. RefusedWait' /\ Starts'
  BY <1>1, RefusedWaitStep, StartsStep
<1> QED
  BY <1>2, <1>3, <1>4 DEF Patience

(* Clients that wait for their replies and leave when they have them, as   *)
(* the demo client does, get exactly the replies to their requests and no  *)
(* others, for any number of them, however their messages are cut on the   *)
(* way and although the descriptors of those that left are used again:     *)
(* what close() in on_read leaves behind is then empty.                    *)
THEOREM PatientClientsExact ==
  ASSUME Impatient = {}
  PROVE  Spec => [](RepliesExact /\ OwnReplies)
<1>1. Init => Delivered /\ Patience
  BY DeliveredInit, PatienceInit
<1>2. ConnInv /\ ConnInv' /\ Delivered /\ Patience /\ [Next]_vars => Delivered' /\ Patience'
  <2> SUFFICES ASSUME ConnInv, ConnInv', Delivered, Patience, [Next]_vars
               PROVE  Delivered' /\ Patience'
    OBVIOUS
  <2>1. OwnPeers
    BY PatientPeers DEF ConnInv, Patience
  <2> QED
    BY <2>1, DeliveredStep, PatienceStep
<1>3. ConnInv /\ Delivered => RepliesExact /\ OwnReplies
  BY DeliveredExact
<1> QED
  BY <1>1, <1>2, <1>3, ConnInvariant, PTL DEF Spec

=============================================================================
