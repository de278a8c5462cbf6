------------------------------- MODULE Stream -------------------------------
(***************************************************************************)
(* One direction of a TCP connection, from _do_write in the loop of one    *)
(* end to _read_content_process in the loop of the other: the packages of  *)
(* comm_protocol.cpp, the write queue of libuv (unix/stream.c), a kernel   *)
(* that takes any number of bytes at a time, and the reassembly of         *)
(* packages from chunks that are cut anywhere.                             *)
(*                                                                         *)
(* _do_write releases the package as soon as uv_write returns.  The bytes  *)
(* that libuv could not write in that call are later read from released    *)
(* memory: they are what they were, or anything.                           *)
(*                                                                         *)
(* A byte is the package it belongs to, its place in it, and whether it is *)
(* undamaged.                                                              *)
(***************************************************************************)
EXTENDS Naturals, Sequences, FiniteSets

CONSTANTS
    Header,     \* sizeof(comm_pkg_t), 18 in the code
    Lengths,    \* lengths of the data in a package
    Room,       \* bound: bytes on the way that the kernel keeps
    MaxPkg      \* bound: packages

ASSUME StreamAssumption ==
    /\ Header \in Nat \ {0} /\ Lengths \subseteq Nat /\ Room \in Nat /\ MaxPkg \in Nat

\* comm_pkg_t as proto_build_package fills it in: which one it is, and its field length.
Packages == [num : 1 .. MaxPkg, length : Lengths]

\* buf.len in _do_write.
Size(p) == p.length + Header

Byte == [pkg : Packages, at : Nat \ {0}, good : BOOLEAN]

\* A uv_write_t in write_queue, and one in write_completed_queue: the bytes that are not
\* written, and whether it failed.
Queued    == [pkg : Packages, left : Nat]
Completed == [pkg : Packages, left : Nat, failed : BOOLEAN]

VARIABLES
    handle,     \* the sender's stream: "open", "closing" (uv_close was called), "closed"
    reset,      \* the receiver has closed the connection: writes fail
    sent,       \* packages that uv_write accepted
    queue,      \* stream->write_queue
    size,       \* stream->write_queue_size
    completed,  \* stream->write_completed_queue
    watching,   \* POLLOUT is watched
    fed,        \* uv__io_feed: uv__stream_io runs in the next round of the loop
    called,     \* calls of write_cb
    waited,     \* history: some package was not written within its uv_write
    wire,       \* bytes the kernel has taken and the receiver has not read
    cache,      \* tcp->cache of the receiver, its first tcp->length bytes
    got,        \* packages that left the loop of proto_parse_package
    whole       \* history: no damaged byte was used

sendVars == <<handle, sent, queue, size, completed, watching, fed, called, waited>>
readVars == <<cache, got, whole>>
vars     == <<sendVars, reset, wire, readVars>>

Init ==
    /\ handle = "open" /\ reset = FALSE
    /\ sent = <<>> /\ queue = <<>> /\ size = 0 /\ completed = <<>>
    /\ watching = FALSE /\ fed = FALSE /\ called = <<>> /\ waited = FALSE
    /\ wire = <<>> /\ cache = <<>> /\ got = <<>> /\ whole = TRUE
-----------------------------------------------------------------------------
(* Writing.                                                                *)

\* The bytes of a sequence of requests that are not written, and how many they are.
Unwritten(reqs) == UNION {{i} \X (1 .. reqs[i].left) : i \in DOMAIN reqs}
BytesLeft(reqs) == Cardinality(Unwritten(reqs))

\* The packages of a sequence of requests.
PackagesOf(reqs) == [i \in DOMAIN reqs |-> reqs[i].pkg]

\* Fault: the bytes written before do not count.
Fault_Finished(x, n) == n = Size(x.pkg)

\* The kernel has taken n bytes of request x, and they were the last ones.
Finished(x, n) == n = x.left

\* Fault: the rest is left without a watch for POLLOUT.
Fault_Watch(x, n) == watching

\* POLLOUT is watched after n bytes of x: uv__io_start is called for the rest.
Watch(x, n) == watching \/ ~Finished(x, n)

\* uv__write on the queue q of sz bytes, when the kernel has taken n bytes of its head: the
\* request is finished, or its rest waits for POLLOUT.
Written(q, sz, n, good) ==
    [queue    |-> IF Finished(q[1], n) THEN Tail(q) ELSE [q EXCEPT ![1].left = @ - n],
     done     |-> IF Finished(q[1], n) THEN <<[pkg |-> q[1].pkg, left |-> 0, failed |-> FALSE]>>
                                       ELSE <<>>,
     size     |-> sz - n,
     watching |-> Watch(q[1], n),
     bytes    |-> [i \in 1 .. n |-> [pkg |-> q[1].pkg, good |-> good,
                                     at |-> Size(q[1].pkg) - q[1].left + i]]]

\* Fault: the bytes of the request are taken off write_queue_size at once.
Fault_Failed(q, sz) ==
    [queue |-> Tail(q), done |-> <<[pkg |-> q[1].pkg, left |-> q[1].left, failed |-> TRUE]>>,
     size |-> sz - q[1].left, watching |-> FALSE, bytes |-> <<>>]

\* The same after an error: the request is finished, POLLOUT is not watched, and its bytes
\* stay in write_queue_size until its callback.
Failed(q, sz) ==
    [queue |-> Tail(q), done |-> <<[pkg |-> q[1].pkg, left |-> q[1].left, failed |-> TRUE]>>,
     size |-> sz, watching |-> FALSE, bytes |-> <<>>]

\* uv__write: what it may come to.
uv__write(q, sz, good) ==
    IF q = <<>> THEN {[queue |-> q, done |-> <<>>, size |-> sz, watching |-> watching,
                       bytes |-> <<>>]}
    ELSE IF reset THEN {Failed(q, sz)}
    ELSE {Written(q, sz, n, good) : n \in {k \in 0 .. q[1].left : Len(wire) + k <= Room}}

\* uv_write2 with other bytes in the queue.
Enqueue(q, sz) ==
    /\ queue' = q /\ size' = sz /\ waited' = TRUE /\ watching' = TRUE
    /\ UNCHANGED <<completed, fed, wire>>

\* uv_write2 with nothing in the queue: the package is written at once, as far as possible.
WriteAtOnce(q, sz) ==
    \E r \in uv__write(q, sz, TRUE) :
        /\ queue' = r.queue /\ size' = r.size /\ watching' = r.watching
        /\ completed' = completed \o r.done /\ fed' = (fed \/ r.done # <<>>)
        /\ wire' = wire \o r.bytes
        /\ waited' = (waited \/ r.queue # <<>>)

\* _do_write: the package is built, handed to uv_write and released.  On a handle that is
\* being closed uv_write refuses it.
do_write(p) ==
    /\ handle = "open" /\ p.num = Len(sent) + 1
    /\ sent' = Append(sent, p)
    /\ LET q  == Append(queue, [pkg |-> p, left |-> Size(p)])
           sz == size + Size(p)
       IN IF size = 0 THEN WriteAtOnce(q, sz) ELSE Enqueue(q, sz)
    /\ UNCHANGED <<handle, called, reset, readVars>>

\* Fault: a request that failed still counts after its callback.
Fault_write_callbacks(reqs, sz) == called' = called \o reqs /\ size' = sz

\* uv__write_callbacks: write_cb of every request of the queue of completed ones.
write_callbacks(reqs, sz) == called' = called \o reqs /\ size' = sz - BytesLeft(reqs)

\* uv__stream_io with POLLOUT: write on, run the callbacks, and stop watching when nothing
\* is left (uv__drain).  A request that is finished here is fed once more.
stream_io(good) ==
    /\ handle = "open" /\ (fed \/ watching)
    /\ \E r \in uv__write(queue, size, good) :
        /\ queue' = r.queue /\ completed' = <<>>
        /\ write_callbacks(completed \o r.done, r.size)
        /\ watching' = (r.watching /\ r.queue # <<>>) /\ fed' = (r.done # <<>>)
        /\ wire' = wire \o r.bytes
    /\ UNCHANGED <<handle, sent, waited, reset, readVars>>

\* uv_close: no further event of the stream.
uv_close ==
    /\ handle = "open"
    /\ handle' = "closing" /\ watching' = FALSE /\ fed' = FALSE
    /\ UNCHANGED <<sent, queue, size, completed, called, waited, reset, wire, readVars>>

\* Fault: the requests in the queue are forgotten.
Fault_Cancelled == <<>>

\* uv__stream_flush_write_queue: the requests in the queue fail with ECANCELED.
Cancelled == [i \in DOMAIN queue |-> [pkg |-> queue[i].pkg, left |-> queue[i].left, failed |-> TRUE]]

\* uv__stream_destroy: the callbacks of all requests, before the close callback.
stream_destroy ==
    /\ handle = "closing"
    /\ handle' = "closed"
    /\ queue' = <<>> /\ completed' = <<>>
    /\ write_callbacks(completed \o Cancelled, size)
    /\ UNCHANGED <<sent, watching, fed, waited, reset, wire, readVars>>
-----------------------------------------------------------------------------
(* Reading.                                                                *)

\* What proto_parse_package takes for a header are the undamaged bytes of one.  The code
\* does not look: proto_check_pkg, after the parse, tests the magic number and the version,
\* which released memory may have kept.  No property relies on that test.
HeaderGood(b) ==
    \A i \in 1 .. Header : b[i].good /\ b[i].at = i /\ b[i].pkg = b[1].pkg

\* requireLen in proto_parse_package.
requireLen(b) == b[1].pkg.length + Header

\* The loop over proto_parse_package: the packages at the start of b, the bytes that remain,
\* and whether a damaged package or header was met, after which anything may happen.
parse[b \in Seq(Byte)] ==
    IF Len(b) < Header THEN [pkgs |-> <<>>, rest |-> b, damaged |-> FALSE]
    ELSE IF ~HeaderGood(b) THEN [pkgs |-> <<>>, rest |-> b, damaged |-> TRUE]
    ELSE IF requireLen(b) > Len(b) THEN [pkgs |-> <<>>, rest |-> b, damaged |-> FALSE]
    ELSE IF \E i \in 1 .. requireLen(b) : ~b[i].good
         THEN [pkgs |-> <<>>, rest |-> b, damaged |-> TRUE]
    ELSE LET r == parse[SubSeq(b, requireLen(b) + 1, Len(b))]
         IN [r EXCEPT !.pkgs = <<b[1].pkg>> \o @]

\* Fault: what is left of the last chunk is not put in front.
Fault_Content(n) == SubSeq(wire, 1, n)

\* The cached bytes with the n bytes of the chunk behind them.
Content(n) == cache \o SubSeq(wire, 1, n)

\* read_cb with n bytes: _read_content_process.
read_cb(n) ==
    /\ ~reset /\ n \in 1 .. Len(wire)
    /\ wire' = SubSeq(wire, n + 1, Len(wire))
    /\ IF whole
       THEN LET r == parse[Content(n)]
            IN /\ got' = got \o r.pkgs
               /\ cache' = IF r.damaged THEN <<>> ELSE r.rest
               /\ whole' = ~r.damaged
       ELSE UNCHANGED readVars
    /\ UNCHANGED <<sendVars, reset>>

\* The receiver closes its end.
PeerCloses ==
    /\ ~reset
    /\ reset' = TRUE /\ wire' = <<>>
    /\ UNCHANGED <<sendVars, readVars>>
-----------------------------------------------------------------------------
Next ==
    \/ \E p \in Packages : do_write(p)
    \/ \E good \in BOOLEAN : stream_io(good)
    \/ uv_close \/ stream_destroy
    \/ \E n \in 1 .. Room : read_cb(n)
    \/ PeerCloses

Spec == Init /\ [][Next]_vars

\* The loops of both ends run: events that are pending are handled.
FairSpec ==
    /\ Spec
    /\ WF_vars(\E good \in BOOLEAN : stream_io(good)) /\ WF_vars(stream_destroy)
    /\ WF_vars(\E n \in 1 .. Room : read_cb(n))
-----------------------------------------------------------------------------
(* Properties.                                                             *)

\* Every variable has its type; in particular write_queue_size, which is unsigned, never
\* drops below zero.
TypeOK ==
    /\ handle \in {"open", "closing", "closed"}
    /\ sent \in Seq(Packages) /\ queue \in Seq(Queued) /\ size \in Nat
    /\ completed \in Seq(Completed) /\ called \in Seq(Completed)
    /\ {watching, fed, waited, reset, whole} \subseteq BOOLEAN
    /\ wire \in Seq(Byte) /\ cache \in Seq(Byte) /\ got \in Seq(Packages)

\* Each package that uv_write accepted is in exactly one place, called back, completed or
\* queued, and in the order of the calls: no callback is lost, made twice or out of order,
\* and all have been made before the close callback.
WritesAccounted ==
    /\ sent = PackagesOf(called) \o PackagesOf(completed) \o PackagesOf(queue)
    /\ handle = "closed" => Len(called) = Len(sent)

\* write_queue_size is what is left to write, with what failed and was not called back.
\* uv_write2 decides by it whether to write at once, and uv__stream_destroy asserts that
\* nothing is left.
QueueSize == size = BytesLeft(queue) + BytesLeft(completed)

\* Every package that is handed over gets its write callback, whatever the kernel takes at
\* a time and whenever either end closes.
CallbacksCome == \A k \in 1 .. MaxPkg : Len(sent) >= k ~> Len(called) >= k

\* Every package that is handed over is delivered, unless the connection is closed or a
\* damaged byte arrives.
Delivered ==
    \A k \in 1 .. MaxPkg :
        Len(sent) >= k ~> (Len(got) >= k \/ handle # "open" \/ reset \/ ~whole)

Chan == INSTANCE Channel

\* The stream is a channel: packages arrive whole, once and in order however the bytes are
\* cut, and damage needs a package that had to wait for the kernel.
ImplementsChannel == Chan!Spec
=============================================================================
