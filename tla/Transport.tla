----------------------------- MODULE Transport -----------------------------
(***************************************************************************)
(* The path of a call from the normal world to the kernel and back: the    *)
(* client library over StreamTransport, or the Linux driver, a vsock       *)
(* stream, the guest's virtqueues, its vsock loop and the call gate of     *)
(* rustee-hal-virt.  The kernel is reduced to what it makes the guest      *)
(* send: success, a refusal, or a LOAD_TA request during an open.          *)
(*                                                                         *)
(* A host has one context at a time.  It may be released and opened again; *)
(* the sockets of its contexts are numbered.  Sends, receives and connects *)
(* may fail or time out, Fail of them in a behaviour.  A write of a PDU is *)
(* three packets, any number of which may have left when it fails.         *)
(*                                                                         *)
(* The bounce pools are counted in units: a message and a TA image take    *)
(* one each, a data buffer two, the first of which tells whose data it     *)
(* is.  Bytes that a misaligned stream turns into a message are Junk.      *)
(***************************************************************************)
EXTENDS Integers, Virtq, SequencesExt, FiniteSets

CONSTANTS
  Kinds,     \* hosts to look at: "stream", "driver"
  MaxCalls,  \* bound: calls of a behaviour
  Fail,      \* bound: failing sends, receives and connects
  MaxSock,   \* bound: sockets the host opens
  PoolTop,   \* units of a bounce pool
  RpcCookie, \* unit of the guest's RPC message
  MaxShms    \* regions import_shm keeps, 32 in the code

ASSUME PoolAssumption == RpcCookie \in 4..(PoolTop - 2) /\ Kinds \subseteq {"stream", "driver"}

VARIABLES
  kind,    \* the host of this behaviour
  sock,    \* number of the host's socket, and whether it is up
  cli,     \* the context: yielding, seq, bump
  pool,    \* the host's bounce pool
  call,    \* the call in progress
  toGuest, \* packets for the guest
  toHost,  \* PDUs the host's socket can read
  rx, tx,  \* the guest's virtqueues
  offer,   \* packets the handler has yet to send
  conn,    \* VsockConn: peer port, 0 for none, and received bytes
  gate,    \* VirtCallGate and the saved ENTER window
  waiting, \* the frame of the call parked on an RPC, or NoFrame
  gpool,   \* the guest's bounce pool
  shms,    \* regions import_shm knows
  halted,  \* the guest stopped in fail_halt
  res,     \* history: how each call ended for its caller
  runs,    \* history: how often the kernel got each call
  served,  \* history: calls the kernel answered with success
  fails,   \* history: failures so far
  calm     \* history: no failure, and no RPC left without an answer

host == <<kind, sock, cli, pool, call, res>>
guest == <<rx, conn, gate, waiting, gpool, shms, halted, runs, served>>
vars == <<host, guest, toGuest, toHost, tx, offer, fails, calm>>

Call == 1..MaxCalls
Unit == 0..(PoolTop - 1)
NoFrame == [cookie |-> PoolTop, n |-> 0]
Oob == PoolTop
NoCall == [st |-> "idle"]

----------------------------------------------------------------------------
(* Messages and PDUs *)

\* A message of struct optee_msg_arg; ret is the call it answers and whether
\* with success.  A ret never written reads as success.
Unwritten == [of |-> 0, ok |-> TRUE]

Msg(cmd, n) == [cmd |-> cmd, call |-> n, ret |-> Unwritten]

Zero == Msg("zero", 0)
Junk == Msg("junk", 0)
Elf == Msg("elf", 0)

write_msg(p, at, m) == [p EXCEPT ![at] = m]

\* decode_msg: images and data buffers are no messages.
decode_msg(p, at) == p[at].cmd \notin {"elf", "data", "out"}

\* The cookie goes with the frame, the message stays in the pool.
Frame(cookie) == [part |-> "frame", cookie |-> cookie]

Hdr(k, seq, len) == [part |-> "hdr", kind |-> k, seq |-> seq, len |-> len]

\* The window of len units at cookie.
Window(p, cookie, len) == [i \in 1..len |-> p[cookie + i - 1]]

InPool(cookie, len) == cookie # Oob /\ cookie + len <= PoolTop

copy_in(p, cookie, data) ==
  [u \in Unit |-> IF u - cookie + 1 \in DOMAIN data THEN data[u - cookie + 1] ELSE p[u]]

----------------------------------------------------------------------------
(* The host *)

Init ==
  /\ kind \in Kinds
  /\ sock = [n |-> 0, st |-> "none"]
  /\ cli = [yielding |-> FALSE, seq |-> 1, bump |-> 1]
  /\ pool = [u \in Unit |-> Zero]
  /\ call = NoCall
  /\ toGuest = <<>> /\ toHost = <<>>
  /\ rx = add_in(setup_queue) /\ tx = setup_queue
  /\ offer = <<>>
  /\ conn = [port |-> 0, bytes |-> <<>>]
  /\ gate = [yielding |-> FALSE, seq |-> 0, cookie |-> 0, len |-> 0, enter |-> 0, enterLen |-> 0]
  /\ waiting = NoFrame
  /\ gpool = [u \in Unit |-> Zero]
  /\ shms = {}
  /\ halted = FALSE
  /\ res = [n \in Call |-> [st |-> "none"]]
  /\ runs = [n \in Call |-> 0] /\ served = {}
  /\ fails = 0
  /\ calm = TRUE

Packet(op, d) == [op |-> op, port |-> sock.n, d |-> d]

Fails == fails < Fail /\ fails' = fails + 1 /\ calm' = FALSE

\* A faulty write_pdu, for mutation: the header always says ENTER.
write_pdu_enter(k, seq, cookie, p, len, next, failed) ==
  LET parts == <<Hdr("ENTER", seq, len), Frame(cookie), [part |-> "bounce", data |-> Window(p, cookie, len)]>>
      Out(i) == toGuest' = toGuest \o [j \in 1..i |-> Packet("RW", parts[j])]
  IN  Out(3) /\ next /\ UNCHANGED <<fails, calm>>

\* write_pdu and the sends of rustee_yield: header, frame and bounce window,
\* any number of which may be out when one fails.
write_pdu(k, seq, cookie, p, len, next, failed) ==
  LET parts == <<Hdr(k, seq, len), Frame(cookie), [part |-> "bounce", data |-> Window(p, cookie, len)]>>
      Out(i) == toGuest' = toGuest \o [j \in 1..i |-> Packet("RW", parts[j])]
  IN  \/ Out(3) /\ next /\ UNCHANGED <<fails, calm>>
      \/ \E i \in 0..2 : Out(i) /\ failed /\ Fails

\* The call returns to its caller.
Return(c, st, of, out) ==
  /\ call' = NoCall
  /\ res' = [res EXCEPT ![c.n] = [st |-> st, op |-> c.op, at |-> c.at, of |-> of, out |-> out]]

\* The transport gives up.  StreamTransport keeps yielding set on the error
\* of a write or a read; the driver clears it.  close_session of the driver
\* returns nothing.
Abandon(c, m) ==
  /\ Return(c, IF kind = "driver" /\ c.op = "close" THEN "void" ELSE "comm", 0, Zero)
  /\ cli' = [m EXCEPT !.yielding = kind = "stream"]

NextCall == Cardinality({n \in Call : res[n].st # "none"}) + 1

\* The calls: open_session, invoke_shm (for the driver an invocation with
\* memory), close_session, which for the library is as an invocation without
\* parameters, and register_shm, which is as unregister_shm but for the
\* region it allocates.
Ops == {"open", "shm", "close", "register"}

\* Units a call takes from the bump allocator, and those of its window.  The
\* message of register_shm has a place of its own.
alloc(op) == IF op = "shm" THEN 3 ELSE 1
Units(op) == IF op = "shm" THEN 3 ELSE 1

Request(p, op, n, at) ==
  LET q == write_msg(p, at, Msg(op, n))
  IN  IF op = "shm" THEN [q EXCEPT ![at + 1] = Msg("data", n)] ELSE q

Requested(op, at) ==
  [st |-> "recv", n |-> NextCall, op |-> op, at |-> at, len |-> Units(op)]

\* A faulty enter, for mutation: a transport that is yielding is entered.
enter_anyway(c, m, p) ==
  LET y == [m EXCEPT !.yielding = TRUE, !.seq = @ + 1]
  IN  write_pdu("ENTER", cli.seq, c.at, p, c.len,
                call' = c /\ cli' = y /\ UNCHANGED res, Abandon(c, y))

\* enter of StreamTransport, up to its last write.
enter(c, m, p) ==
  LET y == [m EXCEPT !.yielding = TRUE, !.seq = @ + 1]
  IN  IF cli.yielding
      THEN Return(c, "busy", 0, Zero) /\ cli' = m /\ UNCHANGED <<toGuest, fails, calm>>
      ELSE write_pdu("ENTER", cli.seq, c.at, p, c.len,
                     call' = c /\ cli' = y /\ UNCHANGED res, Abandon(c, y))

\* A call of the client library: alloc, write_msg and enter.  The bump
\* allocator never frees.
ClientCall(op) ==
  /\ kind = "stream" /\ sock.st = "up" /\ call = NoCall /\ NextCall \in Call
  /\ LET c == Requested(op, IF op = "register" THEN 0 ELSE cli.bump)
         p == Request(pool, op, NextCall, c.at)
     IN  IF cli.bump + alloc(op) > PoolTop
         THEN /\ Return(c, "nomem", 0, Zero)
              /\ UNCHANGED <<cli, pool, toGuest, fails, calm>>
         ELSE /\ pool' = p
              /\ enter(c, [cli EXCEPT !.bump = @ + alloc(op)], p)
  /\ UNCHANGED <<kind, sock, toHost, tx, offer, guest>>

\* The driver packs every request at the same cookie of a cleared pool.
DriverAt == 1

rustee_pack(op, n) == Request([u \in Unit |-> Zero], op, n, DriverAt)

\* rustee_yield up to the last send.  Calls of a context come one at a time,
\* so none finds the context yielding.
rustee_yield(c, p) ==
  LET y == [cli EXCEPT !.yielding = TRUE, !.seq = @ + 1]
  IN  write_pdu("ENTER", cli.seq, c.at, p, c.len,
                call' = [c EXCEPT !.st = "recv"] /\ cli' = y /\ UNCHANGED res, Abandon(c, y))

\* open_session, invoke_func and close_session of the driver, up to the last
\* send or to the connect that the first one needs.
DriverCall(op) ==
  /\ kind = "driver" /\ call = NoCall /\ NextCall \in Call
  /\ LET c == [Requested(op, DriverAt) EXCEPT !.st = "connect"]
         p == rustee_pack(op, NextCall)
     IN  /\ pool' = p
         /\ IF sock.st = "up" THEN rustee_yield(c, p)
            ELSE call' = c /\ UNCHANGED <<cli, res, toGuest, fails, calm>>
  /\ UNCHANGED <<kind, sock, toHost, tx, offer, guest>>

\* rustee_yield after rustee_vsock_ensure.
DriverConnected ==
  /\ call.st = "connect" /\ sock.st = "up"
  /\ rustee_yield(call, pool)
  /\ UNCHANGED <<kind, sock, pool, toHost, tx, offer, guest>>

\* connect_vsock of a new client, rustee_vsock_ensure of the first call.
Connect ==
  /\ sock.st = "none" /\ sock.n < MaxSock
  /\ kind = "driver" => call.st = "connect"
  /\ sock' = [n |-> sock.n + 1, st |-> "wait"]
  /\ toGuest' = Append(toGuest, [op |-> "REQUEST", port |-> sock.n + 1, d |-> 0])
  /\ UNCHANGED <<kind, cli, pool, call, res, guest, toHost, tx, offer, fails, calm>>

ConnectFails ==
  /\ sock.st = "wait"
  /\ Fails
  /\ sock' = [sock EXCEPT !.st = "none"]
  /\ IF call.st = "connect" THEN Abandon(call, cli) ELSE UNCHANGED <<call, res, cli>>
  /\ UNCHANGED <<kind, pool, guest, toGuest, toHost, tx, offer>>

\* What a caller of the driver gets from the message in its window.
rustee_unpack(c, p) ==
  IF c.op = "close" THEN "void" ELSE IF p[c.at].ret.ok THEN "ok" ELSE "err"

\* And a caller of the library, which looks at the reply of open_session and
\* invoke_shm only.
Outcome(c, p) ==
  IF kind = "driver" THEN rustee_unpack(c, p)
  ELSE IF c.op \notin {"open", "shm"} THEN "ok"
  ELSE IF ~decode_msg(p, c.at) THEN "comm"
  ELSE IF p[c.at].ret.ok THEN "ok" ELSE "err"

\* How the supplicant's handle_msg may leave the LOAD_TA message at cookie
\* and the length of the reply: the image is copied behind the message; there
\* is none and stamp_rpc_ret stores the error; no handler is installed.
on_rpc(p, cookie) ==
  {[pool |-> [p EXCEPT ![cookie].ret = [of |-> 0, ok |-> TRUE], ![cookie + 1] = Elf], len |-> 2],
   [pool |-> [p EXCEPT ![cookie].ret = [of |-> 0, ok |-> FALSE]], len |-> 1],
   [pool |-> p, len |-> 1]}

\* read_pdu: the bounce window of the PDU is copied to the host's pool.
Read(k) ==
  /\ call.st = "recv"
  /\ toHost # <<>> /\ Head(toHost).kind = k
  /\ toHost' = Tail(toHost)

Received == copy_in(pool, Head(toHost).cookie, Head(toHost).data)

\* A PDU of kind COMPLETE ends the call, whatever its seq.
RecvComplete ==
  /\ Read("COMPLETE")
  /\ pool' = Received
  /\ cli' = [cli EXCEPT !.yielding = FALSE]
  /\ Return(call, Outcome(call, Received), Received[call.at].ret.of,
            IF call.op = "shm" THEN Received[call.at + 1] ELSE Zero)
  /\ UNCHANGED <<kind, sock, guest, toGuest, tx, offer, fails, calm>>

\* StreamTransport always answers an RPC.
RecvRpc ==
  /\ kind = "stream"
  /\ Read("RPC")
  /\ \E r \in on_rpc(Received, Head(toHost).cookie) :
       /\ pool' = r.pool
       /\ write_pdu("RPC_REPLY", Head(toHost).seq, Head(toHost).cookie, r.pool, r.len,
                    UNCHANGED <<call, cli, res>>, Abandon(call, cli))
  /\ UNCHANGED <<kind, sock, guest, tx, offer>>

\* The driver gives the call up and leaves the RPC unanswered.
DriverRecvRpc ==
  /\ kind = "driver"
  /\ Read("RPC")
  /\ pool' = Received
  /\ Abandon(call, cli)
  /\ calm' = FALSE
  /\ UNCHANGED <<kind, sock, guest, toGuest, tx, offer, fails>>

\* A receive fails: time-out, signal, reset.
RecvFails ==
  /\ call.st = "recv"
  /\ Fails
  /\ Abandon(call, cli)
  /\ UNCHANGED <<kind, sock, pool, guest, toGuest, toHost, tx, offer>>

\* The context goes away and another one is opened: finalize, or
\* rustee_release after the last ioctl.  A process that ends in the middle of
\* a call is as one whose receive failed.
Reopen ==
  /\ sock.st = "up" /\ sock.n < MaxSock
  /\ call = NoCall
  /\ sock' = [sock EXCEPT !.st = "none"]
  /\ cli' = [yielding |-> FALSE, seq |-> 1, bump |-> 1]
  /\ pool' = [u \in Unit |-> Zero]
  /\ toGuest' = Append(toGuest, Packet("SHUTDOWN", 0))
  /\ toHost' = <<>>
  /\ UNCHANGED <<kind, call, res, guest, tx, offer, fails, calm>>

----------------------------------------------------------------------------
(* The virtio device, external: packets go to the socket they name *)

DeviceTx ==
  /\ HasAvail(tx)
  /\ tx' = device_used(tx, Empty)
  /\ LET pkt == Offered(tx)
         mine == pkt.port = sock.n
     IN  /\ sock' = IF mine /\ pkt.op = "RESPONSE" /\ sock.st = "wait"
                    THEN [sock EXCEPT !.st = "up"] ELSE sock
         /\ toHost' = IF mine /\ pkt.op = "RW" /\ sock.st = "up"
                      THEN Append(toHost, pkt.d) ELSE toHost
  /\ UNCHANGED <<kind, cli, pool, call, res, guest, toGuest, offer, fails, calm>>

----------------------------------------------------------------------------
(* The guest *)

Pkt == Head(toGuest)

\* The device fills the posted buffer, and an iteration of vsock_loop finds
\* it; nobody else looks at the buffer in between.
Arrived(op) == ~halted /\ offer = <<>> /\ toGuest # <<>> /\ HasAvail(rx) /\ Pkt.op = op

Polled ==
  /\ toGuest' = Tail(toGuest)
  /\ tx' = recycle_used(tx)
  /\ UNCHANGED <<host, toHost, fails, calm>>

\* The rest of the iteration sends the packets p; the receive buffer is posted
\* again after the last of them.
Handled(p) ==
  LET q == poll_used(device_used(rx, Pkt))
  IN  /\ Polled
      /\ rx' = IF p = <<>> THEN add_in(q) ELSE q
      /\ offer' = p

Reply(op, d) == [op |-> op, port |-> conn.port, d |-> d]

from_accept(port) == [port |-> port, bytes |-> <<>>]

\* accept_connect: the new connection replaces the old one.
GuestRequest ==
  /\ Arrived("REQUEST")
  /\ Handled(<<[op |-> "RESPONSE", port |-> Pkt.port, d |-> 0],
               [op |-> "CREDIT", port |-> Pkt.port, d |-> 0]>>)
  /\ conn' = from_accept(Pkt.port)
  /\ UNCHANGED <<gate, waiting, gpool, shms, halted, runs, served>>

\* Other operations are logged.
GuestOther ==
  /\ Arrived("SHUTDOWN")
  /\ Handled(<<>>)
  /\ UNCHANGED <<conn, gate, waiting, gpool, shms, halted, runs, served>>

\* A faulty take_pdu, for mutation: the header is drained as soon as it is
\* there, although the rest is not.
take_pdu_eager(b) ==
  IF Len(b) < 3 THEN [st |-> "none", rest |-> IF Len(b) = 2 THEN Tail(b) ELSE b]
  ELSE [st |-> "pdu", kind |-> b[1].kind, seq |-> b[1].seq, len |-> b[1].len,
        cookie |-> b[2].cookie, data |-> b[3].data, rest |-> SubSeq(b, 4, Len(b))]

\* take_pdu drains nothing until header, frame and bounce are there.  When
\* an earlier PDU was cut off, later bytes take the place of its missing
\* parts: a header in place of the frame gives a cookie beyond the pool, one
\* in place of the bounce a message of no sense, and what is left over starts
\* with bytes that are no header and stay for ever.
take_pdu(b) ==
  LET k == SelectInSeq(b, LAMBDA u : u.part = "bounce")
      framed == b[2].part = "frame"
  IN  IF b[1].part # "hdr" THEN [st |-> "bad", rest |-> b]
      ELSE IF k = 0 THEN [st |-> "none", rest |-> b]
      ELSE [st |-> "pdu", kind |-> b[1].kind, seq |-> b[1].seq, len |-> b[1].len,
            cookie |-> IF framed THEN b[2].cookie ELSE Oob,
            data |-> IF framed /\ k = 3 THEN b[3].data ELSE [i \in 1..b[1].len |-> Junk],
            rest |-> IF framed /\ k = 3 THEN SubSeq(b, 4, Len(b)) ELSE <<[part |-> "rest"]>>]

Taken == take_pdu(Append(conn.bytes, Pkt.d))

Credit == Reply("CREDIT", 0)

\* push_host_rw succeeds, and the received bytes are b afterwards.
Pushed(b) == conn' = [conn EXCEPT !.bytes = b]

\* feed_pdu: the bounce window of a PDU goes to the pool, if it lies there.
feed_pdu(t) ==
  IF t.st = "pdu" /\ InPool(t.cookie, t.len) THEN copy_in(gpool, t.cookie, t.data) ELSE gpool

\* recv_enter returns a frame.
Entered(t) == t.st = "pdu" /\ InPool(t.cookie, t.len) /\ t.kind = "ENTER"

\* The bytes complete no PDU, or one that recv_enter rejects.  (Bytes without a
\* connection would be dropped; no host sends them.)
GuestRwNothing ==
  /\ Arrived("RW") /\ conn.port # 0
  /\ Taken.st = "none" \/ (waiting = NoFrame /\ ~Entered(Taken))
  /\ Pushed(Taken.rest)
  /\ gpool' = feed_pdu(Taken)
  /\ Handled(<<Credit>>)
  /\ UNCHANGED <<gate, waiting, shms, halted, runs, served>>

\* fail_halt("rpc reply"): anything but an RPC_REPLY while a call is parked.
GuestHalts ==
  /\ Arrived("RW") /\ conn.port # 0
  /\ waiting # NoFrame /\ Taken.st # "none"
  /\ Taken.st = "pdu" => Taken.kind # "RPC_REPLY" \/ ~InPool(Taken.cookie, Taken.len)
  /\ Pushed(Taken.rest)
  /\ Polled
  /\ rx' = poll_used(device_used(rx, Pkt))
  /\ halted' = TRUE
  /\ UNCHANGED <<offer, gate, waiting, gpool, shms, runs, served>>

\* decode_cmd knows no REGISTER_SHM and UNREGISTER_SHM.
decode_cmd(m) == m.cmd \in {"open", "shm", "close", "junk"}

\* write_done stores the result in the message, if there still is one.
write_done(p, at, n, ok) ==
  IF decode_msg(p, at) THEN [p EXCEPT ![at].ret = [of |-> n, ok |-> ok]] ELSE p

\* import_shm keeps a region for ever; a full table is ignored by its caller
\* and the kernel then does not find the region.
import_shm(at) == IF Cardinality(shms) < MaxShms THEN shms \cup {at} ELSE shms

Pdu(k, g, cookie, p) ==
  [kind |-> k, seq |-> g.seq, cookie |-> cookie, data |-> Window(p, g.cookie, g.len)]

\* A faulty end of recv_rpc_reply, for mutation: the gate keeps yielding.
keep_yielding(g) == [g EXCEPT !.cookie = g.enter, !.len = g.enterLen]

\* recv_rpc_reply restores the window of the ENTER.
restore_enter_window(g) ==
  [g EXCEPT !.yielding = FALSE, !.cookie = g.enter, !.len = g.enterLen]

\* dispatch_out of a result, complete_stream and send_rw: the result goes to
\* the message at the cookie of the frame, the COMPLETE carries the window of
\* the gate.
Complete(g, cookie, n, ok, p) ==
  LET q == write_done(p, cookie, n, ok)
  IN  /\ Handled(<<Reply("RW", Pdu("COMPLETE", g, cookie, q)), Credit>>)
      /\ gate' = g
      /\ gpool' = q
      /\ waiting' = NoFrame

Count(n) == runs' = IF n \in Call THEN [runs EXCEPT ![n] = @ + 1] ELSE runs

\* The kernel answers call n; it may refuse any command.
Answers(g, cookie, n, ok, p) ==
  /\ Complete(g, cookie, n, ok, p)
  /\ served' = IF ok THEN served \cup {n} ELSE served

\* The gate after recv.
recv(t) == [gate EXCEPT !.seq = t.seq, !.cookie = t.cookie, !.len = t.len]

\* pack_load_ta: the guest's own request lies at a fixed place of its pool.
pack_load_ta(p, n) == write_msg(p, RpcCookie, Msg("load", n))

\* The gate in an RPC, and the window of the ENTER put away for later.
set_rpc_window(g) ==
  [g EXCEPT !.yielding = TRUE, !.cookie = RpcCookie, !.len = 1, !.enter = g.cookie, !.enterLen = g.len]

\* send_load_ta; the call is parked.
SendLoadTa(g, cookie, n, p) ==
  LET q == pack_load_ta(p, n)
      w == set_rpc_window(g)
  IN  /\ Handled(<<Reply("RW", Pdu("RPC", w, RpcCookie, q)), Credit>>)
      /\ gate' = w
      /\ gpool' = q
      /\ waiting' = [cookie |-> cookie, n |-> n]

\* recv_enter and handle_enter.  The memory of a "shm" call is the unit behind
\* its message, import_memrefs makes it known, and the TA writes there.
GuestEnter ==
  LET t == Taken
      g == recv(t)
      p == feed_pdu(t)
      m == p[t.cookie]
      area == t.cookie + 1
  IN  /\ Arrived("RW") /\ conn.port # 0
      /\ waiting = NoFrame /\ Entered(t)
      /\ Pushed(t.rest)
      /\ UNCHANGED halted
      /\ \/ /\ ~decode_cmd(m)
            /\ Complete(g, t.cookie, m.call, FALSE, p)
            /\ UNCHANGED <<runs, served, shms>>
         \/ /\ decode_cmd(m) /\ m.cmd # "shm"
            /\ \E ok \in BOOLEAN : Answers(g, t.cookie, m.call, ok /\ m.cmd # "junk", p)
            /\ Count(m.call)
            /\ UNCHANGED shms
         \/ /\ m.cmd = "shm"
            /\ shms' = import_shm(area)
            /\ \E ok \in BOOLEAN :
                 /\ ok => area \in shms'
                 /\ Answers(g, t.cookie, m.call, ok,
                            IF ok THEN [p EXCEPT ![area] = Msg("out", m.call)] ELSE p)
            /\ Count(m.call)
         \/ /\ m.cmd = "open"
            /\ SendLoadTa(g, t.cookie, m.call, p)
            /\ Count(m.call)
            /\ UNCHANGED <<served, shms>>

\* take_load_ta; without an image the kernel refuses the open.
take_load_ta(p) == decode_msg(p, RpcCookie) /\ p[RpcCookie].ret.ok /\ p[RpcCookie + 1] = Elf

\* recv_rpc_reply and handle_rpc_reply.
GuestRpcReply ==
  LET t == Taken
      p == feed_pdu(t)
  IN  /\ Arrived("RW") /\ conn.port # 0
      /\ waiting # NoFrame
      /\ Taken.st = "pdu" /\ t.kind = "RPC_REPLY" /\ InPool(t.cookie, t.len)
      /\ Pushed(t.rest)
      /\ \E ok \in {FALSE, take_load_ta(p)} :
           Answers(restore_enter_window(gate), waiting.cookie, waiting.n, ok, p)
      /\ UNCHANGED <<shms, halted, runs>>

\* add_out_owned; it spins while every descriptor is in flight.
GuestSend ==
  /\ offer # <<>>
  /\ FreeDesc(tx) # {}
  /\ tx' = add_out_owned(tx, Head(offer))
  /\ offer' = Tail(offer)
  /\ rx' = IF Len(offer) = 1 THEN add_in(rx) ELSE rx
  /\ UNCHANGED <<host, conn, gate, waiting, gpool, shms, halted, runs, served, toGuest, toHost, fails, calm>>

----------------------------------------------------------------------------
HostStep == DriverConnected \/ RecvComplete \/ RecvRpc \/ DriverRecvRpc

GuestPoll ==
  GuestRequest \/ GuestOther \/ GuestRwNothing \/ GuestHalts \/ GuestEnter \/ GuestRpcReply

Next ==
  \/ \E op \in Ops : ClientCall(op)
  \/ \E op \in Ops \ {"register"} : DriverCall(op)
  \/ Connect \/ ConnectFails \/ RecvFails \/ Reopen
  \/ HostStep
  \/ DeviceTx
  \/ GuestPoll \/ GuestSend

\* A thread in a call, the device and the guest's polling loop: as long as
\* one of them can go on, one of them does.  Nobody has to start calls, and
\* nothing has to fail.
Progress == HostStep \/ Connect \/ DeviceTx \/ GuestPoll \/ GuestSend

Spec == Init /\ [][Next]_vars /\ WF_vars(Progress)

----------------------------------------------------------------------------
(* Properties *)

\* Sockets, windows and queues have their types; the gate yields exactly
\* while a call is parked.
TypeOK ==
  /\ kind \in Kinds /\ sock.n \in 0..MaxSock /\ sock.st \in {"none", "wait", "up"}
  /\ cli.bump \in 1..PoolTop /\ cli.yielding \in BOOLEAN
  /\ DOMAIN pool = Unit /\ DOMAIN gpool = Unit
  /\ conn.port \in 0..MaxSock
  /\ gate.yielding = (waiting # NoFrame)
  /\ halted \in BOOLEAN
  /\ runs \in [Call -> Nat] /\ fails \in 0..Fail

\* A caller's result tells what became of its call, through failures, time-
\* outs and reconnects: a call that returned Ok was executed once, its reply
\* and output are its own, and the kernel did what it was asked; one that
\* returned the kernel's error, or was refused as BUSY or for lack of memory,
\* was not done.  For the library this takes a message that lies below the
\* guest's RPC window.  Of close_session and of an invoke without memory,
\* which do not look at the reply, Ok tells only that the kernel got the call;
\* of register_shm, which the guest rejects, nothing.  For the driver, which
\* takes any COMPLETE after a failed receive, it takes that nothing failed and
\* that no RPC was left unanswered.
ResultTellsExecution ==
  \A n \in Call :
    /\ runs[n] <= 1
    /\ res[n].st \in {"busy", "nomem"} => runs[n] = 0
    /\ /\ res[n].st \in {"ok", "err"} /\ (kind = "driver" => calm)
       /\ res[n].op # "register"
       /\ res[n].at + Units(res[n].op) <= RpcCookie
       => /\ runs[n] = 1 /\ res[n].of = n
          /\ res[n].op # "close" => (n \in served) = (res[n].st = "ok")
          /\ res[n].op = "shm" /\ res[n].st = "ok" => res[n].out = Msg("out", n)

\* The guest stops only after an RPC was left without an answer, by a failure,
\* by a client that went away or by the driver: no sequence of calls and
\* reconnects of a well-behaved client reaches fail_halt.
GuestSurvives == halted => ~calm

\* "One outstanding yielding call. Writes ENTER, reads until COMPLETE"
\* (rustee_yield), also after a call that ended with the COMMS the driver is
\* documented to return when the guest asks for an RPC: as long as no send,
\* receive or connect failed, a caller that waits for its COMPLETE waits for
\* a guest that still serves.
NextCallIsServed == call.st = "recv" /\ fails = 0 => ~halted

Fifo == INSTANCE PacketFifo WITH Capacity <- QSIZE, chan <- RingView(tx)

\* The transmit queue is a bounded first-in first-out channel, across every
\* wrap of its indices: no packet is lost, sent twice, reordered or changed
\* while the device owns its buffer.
TxImplementsFifo == Fifo!Spec

\* Without failures a call gets its COMPLETE, with or without an RPC in
\* between, on the first connection and on later ones.
CallReturns == call.st = "recv" /\ calm ~> call.st = "idle" \/ ~calm
============================================================================
