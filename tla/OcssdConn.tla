------------------------------- MODULE OcssdConn -------------------------------
(***************************************************************************)
(* The connections of the OCSSD server: ocssd_conn (ocssd_conn.h) and the  *)
(* libevent callbacks on_accept, on_read and on_write                      *)
(* (ocssd_libevent_server.cc), with the clients, the sockets, libevent and *)
(* the virtual blocks of liblightnvm as their environment.                 *)
(*                                                                         *)
(* One event loop runs every callback to its end, so cb is the callback    *)
(* under way; what the peers and the network do may still fall between two *)
(* read() calls of one callback.  A client is one TCP connection; what it  *)
(* will send is fixed by its script, so the socket's receive queue is two  *)
(* counters into Stream(c): what has arrived and what the server consumed. *)
(***************************************************************************)
EXTENDS Integers, Sequences, FiniteSets, FiniteSetsExt, SequencesExt

CONSTANTS
  Clients,     \* connections, each with one ocssd_conn
  Script,      \* the requests of each client: [op, idx, count, offset, remote]
  MsgLen,      \* MESSAGE_BUFFER_SIZE, in units of the stream
  AllocLen,    \* length of a serialized virtual_ocssd
  BlkLen,      \* units a virtual block holds
  VblksPerAlloc, \* blocks initialize_vssd_blocks makes of one grant
  SockBuf,     \* units a socket's send buffer holds
  NumFds,      \* descriptors the server may have open for connections
  Torn,        \* TRUE: the network may deliver a message in pieces
  Impatient,   \* the clients that may leave before they have their replies
  NoClient

Ops == {"alloc", "read", "write", "erase", "unknown"}

ASSUME ConnAssumption ==
  /\ NoClient \notin Clients
  /\ Impatient \subseteq Clients
  /\ Torn \in BOOLEAN
  /\ {MsgLen, AllocLen, BlkLen, SockBuf, NumFds} \subseteq Nat \ {0}
  /\ VblksPerAlloc \in Nat

Requests == [op : Ops, idx : Nat, count : Nat, offset : Nat, remote : BOOLEAN]

(* Blocks the client owns once the messages before n have been granted. *)
VblksBefore(c, n) ==
  VblksPerAlloc * Cardinality({m \in 1 .. n - 1 : /\ Script[c][m].op = "alloc"
                                                   /\ Script[c][m].remote})

(* A client uses only block indexes it was given. *)
ASSUME ScriptAssumption ==
  /\ Script \in [Clients -> Seq(Requests)]
  /\ \A c \in Clients : \A n \in DOMAIN Script[c] :
       Script[c][n].op \in {"read", "write", "erase"} => Script[c][n].idx < VblksBefore(c, n)

VARIABLES
  serving,      \* the process is inside event_base_dispatch
  link,         \* the client's end of the connection
  sent,         \* messages the client has sent
  arrived,      \* units that have reached the server's socket
  consumed,     \* units the server has read
  outbuf,       \* units in the socket towards the client
  got,          \* units the client has received
  owner,        \* the server's descriptor table
  conns,        \* the ocssd_conn objects allocated
  fd,           \* ocssd_conn.connfd_
  message_end,  \* ocssd_conn.message_end_
  writeq,       \* ocssd_conn.writeq: [buf, offset] records
  ev_read,      \* the connections whose ev_read is added
  ev_write,     \* the connections whose ev_write is added
  vblks,        \* ocssd_conn.blks_array_: the content of each virtual block
  refused,      \* clients with an allocation that was not granted
  cb            \* the on_read callback under way

clientVars == <<link, sent, got>>
connVars == <<conns, fd>>
vars == <<serving, clientVars, arrived, consumed, outbuf, owner, connVars,
          message_end, writeq, ev_read, ev_write, vblks, refused, cb>>

-----------------------------------------------------------------------------
(* The byte stream of a client                                             *)

Payload(r) == IF r.op = "write" THEN r.count ELSE 0

(* Message n of the script as units of the stream. *)
Message(c, n) == [i \in 1 .. MsgLen + Payload(Script[c][n]) |-> <<n, i>>]

(* The first n messages one after the other. *)
StreamTo(c, n) == FlattenSeq([m \in 1 .. n |-> Message(c, m)])

Stream(c) == StreamTo(c, Len(Script[c]))
StreamLen(c, n) == Len(StreamTo(c, n))

NoCb == [conn |-> NoClient, phase |-> "none", msg |-> 0, received |-> 0]

-----------------------------------------------------------------------------
(* Virtual blocks (liblightnvm): a write appends at the write position and *)
(* fails when the block is full, a read of what was never written fails.   *)
(* nvm_vblk_test leaves a fresh block fully written.                       *)

Garbage == <<"uninitialised">>

Tested == [i \in 1 .. BlkLen |-> <<"test">>]

VblkWrite(blk, data) == IF Len(blk) + Len(data) <= BlkLen THEN blk \o data ELSE blk

(* GetBlockPointer does not check its index.  What is beyond blks_array_   *)
(* is taken for a block without data: reading it fails, and a write or an  *)
(* erase changes none of the client's blocks.                              *)
GetBlock(bs, idx) == IF idx + 1 \in DOMAIN bs THEN bs[idx + 1] ELSE << >>

VblkRead(blk, count, offset) ==
  IF offset + count <= Len(blk) THEN SubSeq(blk, offset + 1, offset + count)
  ELSE [i \in 1 .. count |-> Garbage]

-----------------------------------------------------------------------------

Init ==
  /\ serving = TRUE
  /\ link = [c \in Clients |-> "idle"]
  /\ sent = [c \in Clients |-> 0]
  /\ arrived = [c \in Clients |-> 0]
  /\ consumed = [c \in Clients |-> 0]
  /\ outbuf = [c \in Clients |-> << >>]
  /\ got = [c \in Clients |-> << >>]
  /\ owner = [f \in 1 .. NumFds |-> NoClient]
  /\ conns = {}
  /\ fd = [c \in Clients |-> 0]
  /\ message_end = [c \in Clients |-> 0]
  /\ writeq = [c \in Clients |-> << >>]
  /\ ev_read = {}
  /\ ev_write = {}
  /\ vblks = [c \in Clients |-> << >>]
  /\ refused = {}
  /\ cb = NoCb

-----------------------------------------------------------------------------
(* What the clients should receive: the replies of a server that serves    *)
(* the script of each client in order, all allocations granted.            *)

(* Blocks bs after message n. *)
RefStep(c, n, bs) ==
  LET r == Script[c][n] IN
  CASE r.op = "alloc" /\ r.remote -> bs \o [i \in 1 .. VblksPerAlloc |-> Tested]
    [] r.op = "write" -> [bs EXCEPT ![r.idx + 1] =
                            VblkWrite(@, SubSeq(Message(c, n), MsgLen + 1, MsgLen + r.count))]
    [] r.op = "erase" -> [bs EXCEPT ![r.idx + 1] = << >>]
    [] OTHER -> bs

(* The client's blocks after the first n messages. *)
RefVblks(c, n) ==
  LET after[m \in 0 .. Len(Script[c])] ==
        IF m = 0 THEN << >> ELSE RefStep(c, m, after[m - 1])
  IN after[n]

AllocReply(c, n) == [i \in 1 .. AllocLen |-> [of |-> c, msg |-> n, val |-> <<"vssd", i>>]]

ReadReply(c, n, data) == [i \in 1 .. Len(data) |-> [of |-> c, msg |-> n, val |-> data[i]]]

RefReply(c, n) ==
  LET r == Script[c][n] IN
  CASE r.op = "alloc" -> AllocReply(c, n)
    [] r.op = "read" -> ReadReply(c, n, VblkRead(GetBlock(RefVblks(c, n - 1), r.idx), r.count, r.offset))
    [] OTHER -> << >>

RefReplies(c, n) == FlattenSeq([m \in 1 .. n |-> RefReply(c, m)])

-----------------------------------------------------------------------------
(* The environment: clients and network                                    *)

Connect(c) ==
  /\ link[c] = "idle"
  /\ link' = [link EXCEPT ![c] = "open"]
  /\ UNCHANGED <<serving, sent, got, arrived, consumed, outbuf, owner, connVars,
                 message_end, writeq, ev_read, ev_write, vblks, refused, cb>>

HasReplies(c, n) == Len(got[c]) = Len(RefReplies(c, n))

(* A client sends its next message when it has the replies to the earlier  *)
(* ones; requests without a reply are not waited for.                      *)
ClientSend(c) ==
  /\ link[c] = "open"
  /\ sent[c] < Len(Script[c])
  /\ HasReplies(c, sent[c])
  /\ sent' = [sent EXCEPT ![c] = @ + 1]
  /\ UNCHANGED <<serving, link, got, arrived, consumed, outbuf, owner, connVars,
                 message_end, writeq, ev_read, ev_write, vblks, refused, cb>>

(* Everything sent arrives, in order: unit by unit, or message by message. *)
Arrive(c) ==
  /\ arrived[c] < StreamLen(c, sent[c])
  /\ LET ends == {StreamLen(c, n) : n \in 1 .. sent[c]}
     IN \E to \in (IF Torn THEN arrived[c] + 1 .. StreamLen(c, sent[c])
                   ELSE {e \in ends : e > arrived[c]}) :
          arrived' = [arrived EXCEPT ![c] = to]
  /\ UNCHANGED <<serving, clientVars, consumed, outbuf, owner, connVars,
                 message_end, writeq, ev_read, ev_write, vblks, refused, cb>>

ClientRecv(c) ==
  /\ link[c] = "open"
  /\ outbuf[c] # << >>
  /\ got' = [got EXCEPT ![c] = @ \o outbuf[c]]
  /\ outbuf' = [outbuf EXCEPT ![c] = << >>]
  /\ UNCHANGED <<serving, link, sent, arrived, consumed, owner, connVars,
                 message_end, writeq, ev_read, ev_write, vblks, refused, cb>>

(* The server has closed its end. *)
Dropped(c) == fd[c] # 0 /\ owner[fd[c]] # c

(* A client closes its socket when it is done or the server has closed,    *)
(* an impatient one any time.                                              *)
ClientClose(c) ==
  /\ link[c] = "open"
  /\ \/ c \in Impatient
     \/ Dropped(c)
     \/ sent[c] = Len(Script[c]) /\ HasReplies(c, sent[c])
  /\ link' = [link EXCEPT ![c] = "closed"]
  /\ UNCHANGED <<serving, sent, got, arrived, consumed, outbuf, owner, connVars,
                 message_end, writeq, ev_read, ev_write, vblks, refused, cb>>

-----------------------------------------------------------------------------
(* on_accept                                                               *)

FreeFds == {f \in 1 .. NumFds : owner[f] = NoClient}

(* accept() takes the lowest free descriptor; ev_read is added, ev_write   *)
(* only set up.  Without a free descriptor accept() fails and the          *)
(* connection stays in the backlog.                                        *)
OnAccept(c) ==
  /\ serving
  /\ cb = NoCb
  /\ link[c] # "idle"
  /\ fd[c] = 0
  /\ FreeFds # {}
  /\ fd' = [fd EXCEPT ![c] = Min(FreeFds)]
  /\ owner' = [owner EXCEPT ![Min(FreeFds)] = c]
  /\ conns' = conns \cup {c}
  /\ ev_read' = ev_read \cup {c}
  /\ UNCHANGED <<serving, clientVars, arrived, consumed, outbuf, message_end,
                 writeq, ev_write, vblks, refused, cb>>

-----------------------------------------------------------------------------
(* on_read: process_incoming_requests, process_command                     *)

Available(c) == arrived[c] - consumed[c]

(* The peer closed and all it sent has arrived: read() will return 0. *)
AtEOF(c) ==
  /\ link[c] = "closed"
  /\ arrived[c] = StreamLen(c, sent[c])
  /\ Available(c) = 0

(* Faulty variant: ev_read is set up for EV_WRITE as well. *)
OnReadOrWritable(c) ==
  /\ serving
  /\ cb = NoCb
  /\ c \in ev_read
  /\ cb' = [conn |-> c, phase |-> "command", msg |-> 0, received |-> 0]
  /\ UNCHANGED <<serving, clientVars, arrived, consumed, outbuf, owner, connVars,
                 message_end, writeq, ev_read, ev_write, vblks, refused>>

OnRead(c) ==
  /\ serving
  /\ cb = NoCb
  /\ c \in ev_read
  /\ Available(c) > 0 \/ AtEOF(c)
  /\ cb' = [conn |-> c, phase |-> "command", msg |-> 0, received |-> 0]
  /\ UNCHANGED <<serving, clientVars, arrived, consumed, outbuf, owner, connVars,
                 message_end, writeq, ev_read, ev_write, vblks, refused>>

InCommand(c) == cb.conn = c /\ cb.phase = "command"
InPayload(c) == cb.conn = c /\ cb.phase = "payload"

(* One read() of process_command's loop. *)
ReadMessage(c) ==
  /\ InCommand(c)
  /\ message_end[c] < MsgLen
  /\ Available(c) > 0
  /\ LET len == Min({Available(c), MsgLen - message_end[c]})
     IN /\ consumed' = [consumed EXCEPT ![c] = @ + len]
        /\ message_end' = [message_end EXCEPT ![c] = @ + len]
  /\ UNCHANGED <<serving, clientVars, arrived, outbuf, owner, connVars, writeq,
                 ev_read, ev_write, vblks, refused, cb>>

(* Faulty variant: close() is missing. *)
DisconnectUnclosed(c) ==
  /\ ev_read' = ev_read \ {c}
  /\ cb' = NoCb
  /\ UNCHANGED <<serving, clientVars, arrived, consumed, outbuf, owner, connVars,
                 message_end, writeq, ev_write, vblks, refused>>

(* The read() in process_command or process_write_request that got nothing *)
(* closes the socket and deletes ev_read, whatever the reason.             *)
Disconnect(c) ==
  /\ owner' = [owner EXCEPT ![fd[c]] = NoClient]
  /\ ev_read' = ev_read \ {c}
  /\ cb' = NoCb
  /\ UNCHANGED <<serving, clientVars, arrived, consumed, outbuf, connVars,
                 message_end, writeq, ev_write, vblks, refused>>

(* The next step of the callback is a read(). *)
Reading(c) ==
  \/ InCommand(c) /\ message_end[c] < MsgLen
  \/ InPayload(c) /\ cb.received < Script[c][cb.msg].count

ReadReturnsZero(c) == Reading(c) /\ AtEOF(c) /\ Disconnect(c)

(* len < 0: on a non-blocking socket also when nothing has arrived yet. *)
ReadReturnsError(c) == Reading(c) /\ Available(c) = 0 /\ ~AtEOF(c) /\ Disconnect(c)

-----------------------------------------------------------------------------
(* The commands.  The first unit of the message carries the header.        *)

Header(c) == Stream(c)[consumed[c] - MsgLen + 1]

Command(c) == IF Header(c)[2] = 1 THEN Script[c][Header(c)[1]].op ELSE "unknown"

Request(c) == Script[c][Header(c)[1]]

(* process_command has a whole message and switches on its header. *)
Dispatch(c, op) ==
  /\ InCommand(c)
  /\ message_end[c] = MsgLen
  /\ message_end' = [message_end EXCEPT ![c] = 0]
  /\ Command(c) = op

(* Faulty variant: event_add is missing. *)
ReplyUnarmed(c, buf) ==
  /\ writeq' = [writeq EXCEPT ![c] = Append(@, [buf |-> buf, offset |-> 0])]
  /\ UNCHANGED ev_write

(* A reply is queued and the write event added. *)
Reply(c, buf) ==
  /\ writeq' = [writeq EXCEPT ![c] = Append(@, [buf |-> buf, offset |-> 0])]
  /\ ev_write' = ev_write \cup {c}

(* process_alloc_request.  For a remote virtual OCSSD                      *)
(* initialize_vssd_blocks appends its blocks to blks_array_.               *)
ProcessAlloc(c) ==
  /\ Dispatch(c, "alloc")
  /\ Reply(c, AllocReply(c, Header(c)[1]))
  /\ vblks' = IF Request(c).remote
              THEN [vblks EXCEPT ![c] = @ \o [i \in 1 .. VblksPerAlloc |-> Tested]]
              ELSE vblks
  /\ cb' = NoCb
  /\ UNCHANGED <<serving, clientVars, arrived, consumed, outbuf, owner, connVars,
                 ev_read, refused>>

(* Nothing could be allocated: process_alloc_request returns, no reply. *)
RefuseAlloc(c) ==
  /\ Dispatch(c, "alloc")
  /\ refused' = refused \cup {c}
  /\ cb' = NoCb
  /\ UNCHANGED <<serving, clientVars, arrived, consumed, outbuf, owner, connVars,
                 writeq, ev_read, ev_write, vblks>>

(* nvm_dev_open fails in initialize_remote_vssd: nobody catches the        *)
(* exception, and the process ends with the blocks granted and no reply.   *)
OpenDeviceFails(c) ==
  /\ Dispatch(c, "alloc")
  /\ Request(c).remote
  /\ refused' = refused \cup {c}
  /\ serving' = FALSE
  /\ cb' = NoCb
  /\ UNCHANGED <<clientVars, arrived, consumed, outbuf, owner, connVars,
                 writeq, ev_read, ev_write, vblks>>

(* process_read_request: the buffer is sent even when the read failed. *)
ProcessRead(c) ==
  /\ Dispatch(c, "read")
  /\ LET r == Request(c)
     IN Reply(c, ReadReply(c, Header(c)[1],
                           VblkRead(GetBlock(vblks[c], r.idx), r.count, r.offset)))
  /\ cb' = NoCb
  /\ UNCHANGED <<serving, clientVars, arrived, consumed, outbuf, owner, connVars,
                 ev_read, vblks, refused>>

(* Faulty variant: the data that follows the message is not read. *)
ProcessWriteHeaderOnly(c) ==
  /\ Dispatch(c, "write")
  /\ cb' = NoCb
  /\ UNCHANGED <<serving, clientVars, arrived, consumed, outbuf, owner, connVars,
                 writeq, ev_read, ev_write, vblks, refused>>

(* process_write_request up to its loop. *)
ProcessWrite(c) ==
  /\ Dispatch(c, "write")
  /\ cb' = [conn |-> c, phase |-> "payload", msg |-> Header(c)[1], received |-> 0]
  /\ UNCHANGED <<serving, clientVars, arrived, consumed, outbuf, owner, connVars,
                 writeq, ev_read, ev_write, vblks, refused>>

(* One read() of process_write_request's loop. *)
ReadPayload(c) ==
  /\ InPayload(c)
  /\ cb.received < Script[c][cb.msg].count
  /\ Available(c) > 0
  /\ LET len == Min({Available(c), Script[c][cb.msg].count - cb.received})
     IN /\ consumed' = [consumed EXCEPT ![c] = @ + len]
        /\ cb' = [cb EXCEPT !.received = @ + len]
  /\ UNCHANGED <<serving, clientVars, arrived, outbuf, owner, connVars,
                 message_end, writeq, ev_read, ev_write, vblks, refused>>

(* All received: nvm_vblk_write, whose failure is only printed. *)
WriteVblk(c) ==
  /\ InPayload(c)
  /\ cb.received = Script[c][cb.msg].count
  /\ vblks' = [vblks EXCEPT ![c][Script[c][cb.msg].idx + 1] =
                 VblkWrite(@, SubSeq(Stream(c), consumed[c] - cb.received + 1, consumed[c]))]
  /\ cb' = NoCb
  /\ UNCHANGED <<serving, clientVars, arrived, consumed, outbuf, owner, connVars,
                 message_end, writeq, ev_read, ev_write, refused>>

(* Faulty variant: block 0 is erased whatever the index. *)
ProcessEraseFirst(c) ==
  /\ Dispatch(c, "erase")
  /\ vblks' = [vblks EXCEPT ![c][1] = << >>]
  /\ cb' = NoCb
  /\ UNCHANGED <<serving, clientVars, arrived, consumed, outbuf, owner, connVars,
                 writeq, ev_read, ev_write, refused>>

ProcessErase(c) ==
  /\ Dispatch(c, "erase")
  /\ vblks' = [vblks EXCEPT ![c][Request(c).idx + 1] = << >>]
  /\ cb' = NoCb
  /\ UNCHANGED <<serving, clientVars, arrived, consumed, outbuf, owner, connVars,
                 writeq, ev_read, ev_write, refused>>

(* default: the message is dropped. *)
ProcessUnknown(c) ==
  /\ Dispatch(c, "unknown")
  /\ cb' = NoCb
  /\ UNCHANGED <<serving, clientVars, arrived, consumed, outbuf, owner, connVars,
                 writeq, ev_read, ev_write, vblks, refused>>

-----------------------------------------------------------------------------
(* on_write.  The event was added for a descriptor number; libevent        *)
(* reports it for whichever connection owns that number now, and leaves it *)
(* out while nobody does.                                                  *)

Peer(c) == owner[fd[c]]

Writable(c) ==
  /\ c \in ev_write
  /\ Peer(c) # NoClient
  /\ Len(outbuf[Peer(c)]) < SockBuf

(* Faulty variants: a written buffer stays queued; offset is not advanced. *)
AfterWriteKept(q, len) ==
  IF q[1].offset + len <= Len(q[1].buf) THEN [q EXCEPT ![1].offset = @ + len] ELSE Tail(q)

AfterWriteFromStart(q, len) == IF q[1].offset + len < Len(q[1].buf) THEN q ELSE Tail(q)

(* The queue after len units of its first buffer are written. *)
AfterWrite(q, len) ==
  IF q[1].offset + len < Len(q[1].buf) THEN [q EXCEPT ![1].offset = @ + len] ELSE Tail(q)

(* write() takes what fits; the rest is left for the next event.  EINTR or *)
(* EAGAIN re-add the event and change nothing.                             *)
OnWrite(c) ==
  /\ serving
  /\ cb = NoCb
  /\ Writable(c)
  /\ LET b == Head(writeq[c])
         to == Peer(c)
         len == Min({Len(b.buf) - b.offset, SockBuf - Len(outbuf[to])})
         rest == AfterWrite(writeq[c], len)
     IN /\ outbuf' = [outbuf EXCEPT ![to] = @ \o SubSeq(b.buf, b.offset + 1, b.offset + len)]
        /\ writeq' = [writeq EXCEPT ![c] = rest]
        /\ ev_write' = IF rest # << >> THEN ev_write ELSE ev_write \ {c}
  /\ UNCHANGED <<serving, clientVars, arrived, consumed, owner, connVars,
                 message_end, ev_read, vblks, refused, cb>>

(* The peer has gone and write() fails: err(1, "write") ends the server. *)
OnWriteError(c) ==
  /\ serving
  /\ cb = NoCb
  /\ c \in ev_write
  /\ Peer(c) # NoClient
  /\ link[Peer(c)] = "closed"
  /\ serving' = FALSE
  /\ UNCHANGED <<clientVars, arrived, consumed, outbuf, owner, connVars,
                 message_end, writeq, ev_read, ev_write, vblks, refused, cb>>

(* SIGINT: event_base_loopbreak ends the loop after the running callback. *)
Interrupt ==
  /\ serving
  /\ cb = NoCb
  /\ serving' = FALSE
  /\ UNCHANGED <<clientVars, arrived, consumed, outbuf, owner, connVars,
                 message_end, writeq, ev_read, ev_write, vblks, refused, cb>>

-----------------------------------------------------------------------------

ClientStep(c) == Connect(c) \/ ClientSend(c) \/ ClientRecv(c)

InCallback(c) ==
  \/ ReadMessage(c) \/ ReadReturnsZero(c) \/ ReadReturnsError(c)
  \/ ProcessAlloc(c) \/ RefuseAlloc(c) \/ OpenDeviceFails(c) \/ ProcessRead(c)
  \/ ProcessErase(c) \/ ProcessUnknown(c) \/ ProcessWrite(c) \/ ReadPayload(c)
  \/ WriteVblk(c)

Next ==
  \/ Interrupt
  \/ \E c \in Clients :
       \/ ClientStep(c) \/ ClientClose(c) \/ Arrive(c)
       \/ OnAccept(c) \/ OnRead(c) \/ InCallback(c) \/ OnWrite(c) \/ OnWriteError(c)

Spec == Init /\ [][Next]_vars

(* TCP delivers; the clients run their scripts to the end; libevent runs   *)
(* every event that stays active.  A descriptor that is now and then free  *)
(* is given to a waiting connection, which is why accepting is strongly    *)
(* fair: the backlog is served in order.                                   *)
Fairness ==
  \A c \in Clients :
    /\ WF_vars(ClientStep(c))
    /\ WF_vars(ClientClose(c))
    /\ WF_vars(Arrive(c))
    /\ SF_vars(OnAccept(c))
    /\ SF_vars(OnRead(c))
    /\ WF_vars(InCallback(c))
    /\ SF_vars(OnWrite(c))

FairSpec == Spec /\ Fairness

-----------------------------------------------------------------------------

(* Every variable stays in its type; at most one reply is partly written,  *)
(* the first of its queue, which is then not done, and the descriptors of  *)
(* open connections differ.                                                *)
TypeOK ==
  /\ serving \in BOOLEAN
  /\ link \in [Clients -> {"idle", "open", "closed"}]
  /\ \A c \in Clients :
       /\ sent[c] \in 0 .. Len(Script[c])
       /\ arrived[c] \in 0 .. StreamLen(c, sent[c])
       /\ consumed[c] \in 0 .. arrived[c]
       /\ message_end[c] \in 0 .. MsgLen
       /\ fd[c] \in 0 .. NumFds
       /\ Len(outbuf[c]) <= SockBuf
       /\ \A i \in DOMAIN writeq[c] :
            \/ writeq[c][i].offset = 0
            \/ i = 1 /\ writeq[c][i].offset \in 1 .. Len(writeq[c][i].buf) - 1
       /\ \A i \in DOMAIN vblks[c] : Len(vblks[c][i]) <= BlkLen
  /\ owner \in [1 .. NumFds -> Clients \cup {NoClient}]
  /\ \A f \in 1 .. NumFds : owner[f] # NoClient => fd[owner[f]] = f
  /\ conns \subseteq Clients /\ ev_read \subseteq conns /\ ev_write \subseteq conns
  /\ refused \subseteq Clients
  /\ cb.conn \in Clients \cup {NoClient}

(* The write event of a connection is added exactly when its queue has a   *)
(* reply: on_write never takes the front of an empty queue, and no queued  *)
(* reply waits without an event that will send it.                         *)
WriteEventArmed == \A c \in conns : c \in ev_write <=> writeq[c] # << >>

(* process_command never mistakes part of a write's data, or the tail of   *)
(* another message, for a command: when its buffer is full, it holds one   *)
(* whole message, however the network cut the stream.                      *)
CommandsWhole ==
  \A c \in Clients :
    InCommand(c) /\ message_end[c] = MsgLen => Header(c)[2] = 1

Pending(c) ==
  FlattenSeq([i \in 1 .. Len(writeq[c]) |->
                SubSeq(writeq[c][i].buf, writeq[c][i].offset + 1, Len(writeq[c][i].buf))])

(* Messages of the script that the server has read to the end. *)
Processed(c) == Cardinality({n \in 1 .. Len(Script[c]) : StreamLen(c, n) <= consumed[c]})

(* What a client has received, what is in its socket and what is queued    *)
(* for it together are exactly the replies to the requests read from it,   *)
(* in order, each whole and once, with the data the client itself wrote.   *)
RepliesExact ==
  \A c \in Clients \ refused :
    cb.conn # c =>
      got[c] \o outbuf[c] \o Pending(c) = RefReplies(c, Processed(c))

(* Once a callback is over, the blocks of a connection hold what its       *)
(* client's requests put there, and those of a connection that broke off   *)
(* within a write are untouched by it.                                     *)
BlocksExact ==
  \A c \in Clients \ refused : cb.conn # c => vblks[c] = RefVblks(c, Processed(c))

(* Every unit in the socket of a client comes from the queue of its own    *)
(* connection.                                                             *)
OwnReplies ==
  \A c \in Clients : \A i \in DOMAIN outbuf[c] : outbuf[c][i].of = c

(* The server closes a connection only when its client has closed it. *)
OnlyClientsDisconnect == \A c \in Clients : Dropped(c) => link[c] = "closed"

(* When the socket of a connection has been closed, its ocssd_conn has     *)
(* been freed.                                                             *)
ClosedConnFreed == \A c \in Clients : Dropped(c) /\ cb.conn # c => c \notin conns

(* While the server runs, every client gets all its replies, unless an     *)
(* allocation is refused, which is never answered.                         *)
ScriptsServed ==
  \A c \in Clients :
    TRUE ~> \/ ~serving
            \/ c \in refused
            \/ sent[c] = Len(Script[c]) /\ HasReplies(c, Len(Script[c]))

(* While the server runs, the descriptor of a client that has closed is    *)
(* closed in the end, whatever the client left unread or half sent.        *)
DescriptorsReturned ==
  \A c \in Clients :
    link[c] = "closed" /\ fd[c] # 0 ~> ~serving \/ Dropped(c)

=============================================================================
