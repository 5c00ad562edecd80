----------------------------- MODULE AllocExchange -----------------------------
(***************************************************************************)
(* The demo client (ocssd_client.cc) and the server exchange messages in   *)
(* the wire format: the client serializes a request, the server decodes    *)
(* it, grants a virtual OCSSD and serializes that into a reply buffer of   *)
(* fixed size, the client takes the reply with a single recv() into the    *)
(* buffer its request was built in, and decodes what is there.  A client   *)
(* with remote access then sends I/O requests.                             *)
(*                                                                         *)
(* Requests arrive whole here (OcssdConn cuts them); the reply may arrive  *)
(* in pieces, of which the client's recv() gets the first, or not at all.  *)
(* Nobody checks that a reply fits its buffer, that recv() succeeded or    *)
(* that deserialize found anything.                                        *)
(***************************************************************************)
EXTENDS WireFormat

CONSTANTS
  AllocArgs,         \* the arguments of ocssd_alloc_request's constructor
  IoArgs,            \* the arguments of ocssd_io_request's constructor
  Grants,            \* the virtual OCSSDs the manager may grant
  JunkBytes,         \* what an uninitialised byte may hold
  BUFFER_SIZE,       \* the client's buffer
  VSSD_BUFFER_SIZE   \* the reply buffer

(* The constructor of ocssd_alloc_request takes any numbers; those of an   *)
(* ocssd_io_request are a uint32_t and two of 64 bits.                     *)
ASSUME ArgsAssumption ==
  /\ AllocArgs \subseteq [channels : Int, blocks : Int, shared : Int, numa_id : Int, remote : Int]
  /\ IoArgs \subseteq [command : IoCommands, block_index : 0 .. Word - 1,
                       count : 0 .. Word * Word - 1, offset : 0 .. Word * Word - 1]

VARIABLES
  client,     \* where the client is
  args,       \* the arguments of the request it sent last
  message,    \* the server's message_buf_
  decoded,    \* the request the server read from it
  vssd,       \* the virtual OCSSD granted
  reply,      \* the reply on its way
  link,       \* the connection is up
  buffer,     \* the client's buffer
  received,   \* what recv() returned
  result      \* the outcome of deserialize

vars == <<client, args, message, decoded, vssd, reply, link, buffer, received, result>>

Nothing == << >>

Init ==
  /\ client = "start"
  /\ args = Nothing
  /\ message = Nothing
  /\ decoded = Nothing
  /\ vssd = NoVssd
  /\ reply = Nothing
  /\ link = TRUE
  /\ buffer = Nothing
  /\ received = 0
  /\ result = [size |-> 0, vssd |-> NoVssd]

AllocOf(a) == AllocRequest(a.channels, a.blocks, a.shared, a.numa_id, a.remote)

(* Faulty variant: the buffer is not cleared before the request is built.  *)
SendAllocDirty(a) ==
  /\ client = "start"
  /\ args' = a
  /\ message' = AllocRequestBytes(AllocOf(a))
  /\ \E junk \in JunkBytes :
       buffer' = [i \in 1 .. BUFFER_SIZE |-> IF i \in DOMAIN message' THEN message'[i] ELSE junk]
  /\ client' = "recv"
  /\ UNCHANGED <<decoded, vssd, reply, link, received, result>>

(* The head of test_local_ocssd and test_remote_ocssd: the buffer is       *)
(* cleared, and the request built and sent.                                *)
SendAlloc(a) ==
  /\ client = "start"
  /\ args' = a
  /\ message' = AllocRequestBytes(AllocOf(a))
  /\ buffer' = [i \in 1 .. BUFFER_SIZE |-> At(message', i)]
  /\ client' = "recv"
  /\ UNCHANGED <<decoded, vssd, reply, link, received, result>>

-----------------------------------------------------------------------------
(* process_command and process_alloc_request *)

Shared(v) == v.units[1].channels[1].shared = 1

Answers(v, r) ==
  /\ Shared(v) <=> r.shared = 1
  /\ \A u \in DOMAIN v.units : Len(v.units[u].channels) <= r.channels

(* The magic selects the handler. *)
DecodeAlloc ==
  /\ message # Nothing
  /\ Get4(message, 0) = REQUEST_MAGIC
  /\ decoded' = AllocRequestIn(message)
  /\ message' = Nothing
  /\ UNCHANGED <<client, args, buffer, received, result>>

(* There is nothing to grant, and no answer. *)
RefuseAlloc ==
  /\ DecodeAlloc
  /\ UNCHANGED <<vssd, reply, link>>

(* What was granted is serialized, whatever its length. *)
ProcessAlloc(v, junk) ==
  /\ DecodeAlloc
  /\ Answers(v, decoded')
  /\ vssd' = v
  /\ reply' = VssdBytes(v, junk)
  /\ UNCHANGED link

(* A grant that the reply buffer cannot take: what serialize overwrites    *)
(* may also end the server.                                                *)
SerializeOverruns(v) ==
  /\ DecodeAlloc
  /\ Answers(v, decoded')
  /\ Len(VssdBytes(v, 0)) > VSSD_BUFFER_SIZE
  /\ link' = FALSE
  /\ UNCHANGED <<vssd, reply>>

-----------------------------------------------------------------------------
(* The rest of test_local_ocssd and test_remote_ocssd *)

(* recv() stores the first n bytes of the reply over the request the       *)
(* buffer still holds.                                                     *)
RecvReply(n) ==
  /\ client = "recv"
  /\ n \in 1 .. Len(reply)
  /\ n <= BUFFER_SIZE
  /\ received' = n
  /\ buffer' = [i \in 1 .. BUFFER_SIZE |-> IF i <= n THEN reply[i] ELSE buffer[i]]
  /\ client' = "deserialize"
  /\ UNCHANGED <<args, message, decoded, vssd, reply, link, result>>

(* recv() returns 0 or -1: the server has closed the connection or is      *)
(* gone.  The result is printed, and the client goes on with the request   *)
(* in its buffer.                                                          *)
RecvNothing ==
  /\ client = "recv"
  /\ link' = FALSE
  /\ received' = 0
  /\ client' = "deserialize"
  /\ UNCHANGED <<args, message, decoded, vssd, reply, buffer, result>>

(* Where the client may be next.  What lies beyond the buffer, and the     *)
(* first unit of none (get_unit(0), with local access), are undefined.     *)
AfterDecode(out) ==
  IF out.size <= BUFFER_SIZE /\ (args.remote = 1 \/ out.vssd.units # << >>)
  THEN {IF args.remote = 1 THEN "io" ELSE "done"}
  ELSE {IF args.remote = 1 THEN "io" ELSE "done", "crashed"}

(* vssd.deserialize; nobody looks at the size it returns. *)
Deserialize ==
  /\ client = "deserialize"
  /\ result' = VssdIn(buffer)
  /\ client' \in AfterDecode(result')
  /\ UNCHANGED <<args, message, decoded, vssd, reply, link, buffer, received>>

(* test_erase_block, test_write_block and test_read_block. *)
SendIo(q) ==
  /\ client = "io"
  /\ link
  /\ args' = q
  /\ message' = IoRequestBytes(q)
  /\ client' = "done"
  /\ UNCHANGED <<decoded, vssd, reply, link, buffer, received, result>>

(* Nothing is sent on a broken connection: the signal ends the client, or  *)
(* it comes to its end.                                                    *)
SendFails ==
  /\ client = "io"
  /\ ~link
  /\ client' = "done"
  /\ UNCHANGED <<args, message, decoded, vssd, reply, link, buffer, received, result>>

(* process_read_request, process_write_request and process_erase_request   *)
(* up to the decoding of the request.                                      *)
ProcessIo ==
  /\ message # Nothing
  /\ \E c \in IoCommands : Get4(message, 0) = IoMagic(c)
  /\ decoded' = IoRequestIn(message)
  /\ message' = Nothing
  /\ UNCHANGED <<client, args, vssd, reply, link, buffer, received, result>>

Next ==
  \/ \E a \in AllocArgs : SendAlloc(a)
  \/ RefuseAlloc
  \/ \E v \in Grants, junk \in JunkBytes : ProcessAlloc(v, junk)
  \/ \E v \in Grants : SerializeOverruns(v)
  \/ \E n \in DOMAIN reply : RecvReply(n)
  \/ RecvNothing
  \/ Deserialize
  \/ \E q \in IoArgs : SendIo(q)
  \/ SendFails
  \/ ProcessIo

Spec == Init /\ [][Next]_vars

-----------------------------------------------------------------------------

IsAlloc(a) == "channels" \in DOMAIN a

(* The server acts on the request the client made: each field comes back   *)
(* as it was sent, cut to the width of the field, and the magic leads to   *)
(* the handler of that request.                                            *)
RequestUnderstood ==
  args # Nothing /\ message = Nothing =>
    decoded = IF IsAlloc(args) THEN AllocOf(args) ELSE args

Decoded == client \in {"io", "done", "crashed"}

(* A reply that arrives whole is read back exactly, to its last byte,      *)
(* whatever the padding of the name and the client's buffer held.          *)
WholeReplyExact ==
  Decoded /\ received > 0 /\ received = Len(reply) =>
    client # "crashed" /\ result = [size |-> Len(reply), vssd |-> vssd]

(* The blocks that a channel as decoded offers are blocks of the channel   *)
(* as granted.                                                             *)
ChannelWithin(got, given) ==
  IF got.shared = 1
  THEN \A i \in DOMAIN got.luns : got.luns[i].num > 0 =>
         /\ got.id = given.id /\ given.shared = 1 /\ i \in DOMAIN given.luns
         /\ got.luns[i].lun = given.luns[i].lun
         /\ got.luns[i].start = given.luns[i].start
         /\ got.luns[i].num <= given.luns[i].num
  ELSE got.total_blocks > 0 =>
         /\ got.id = given.id /\ given.shared = 0
         /\ got.total_blocks <= given.total_blocks

UnitWithin(got, given) ==
  got.channels # << >> =>
    /\ got.name = given.name /\ got.geo = given.geo
    /\ Len(got.channels) <= Len(given.channels)
    /\ \A c \in DOMAIN got.channels : ChannelWithin(got.channels[c], given.channels[c])

Header == 12   \* the magic, the id and the number of units

(* The client does not notice that its one recv() got a part of the reply. *)
(* As long as that part has the header, what it decodes is a part of its   *)
(* grant and never a block of somebody else: the rest of the buffer is the *)
(* tail of the request and zeros, in which no count or range is found, the *)
(* counts and ranges that were cut come out smaller, and nothing is read   *)
(* from beyond the buffer.                                                 *)
ShortReplyHarmless ==
  Decoded /\ received >= Header /\ Len(reply) <= BUFFER_SIZE =>
    /\ client # "crashed"
    /\ result.size <= BUFFER_SIZE
    /\ Len(result.vssd.units) = Len(vssd.units)
    /\ \A u \in DOMAIN vssd.units : UnitWithin(result.vssd.units[u], vssd.units[u])

=============================================================================
