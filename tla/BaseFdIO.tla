------------------------------- MODULE BaseFdIO -------------------------------
(***************************************************************************)
(* BaseFdIO of lib/rpc_tunnel.hpp: send() at one end of a connection,      *)
(* recv() at the other, and the byte stream of the kernel between them.    *)
(* A frame is a header that holds the size of the data, then the data.     *)
(* Bytes are named by the frame they belong to and their place in it, so   *)
(* that what recv() assembles can be compared with what send() was given.  *)
(*                                                                         *)
(* write() and read() may transfer any part of what they are asked for, as *)
(* POSIX has it; both block, so a transfer of nothing happens only at end  *)
(* of file.                                                                *)
(***************************************************************************)
EXTENDS Naturals, Sequences

CONSTANTS
    Sizes,        \* sizes of the data given to send()
    Limit,        \* the largest size recv() accepts (16 GB in the code)
    HeaderSize,   \* bytes of the header: sizeof(uint64_t)
    Radix,        \* values of a byte
    BigEndian,    \* whether the two machines are big-endian
    StreamMax,    \* bytes the kernel buffers
    FramesMax     \* bound: calls of send()

ASSUME FdAssumption == /\ Sizes \subseteq Nat /\ Limit \in Nat
                       /\ HeaderSize \in Nat \ {0} /\ Radix \in Nat \ {0, 1}
                       /\ \A n \in Sizes : n < Radix ^ HeaderSize
                       /\ BigEndian \in BOOLEAN
                       /\ StreamMax \in Nat /\ StreamMax >= HeaderSize
                       /\ FramesMax \in Nat

VARIABLES
    sizes,      \* history: the size of each frame given to send()
    sfd, rfd,   \* whether each end's fd is open: fd >= 0
    spc,        \* send(): "idle", "header" or "data"
    left,       \* send(): remaining_bytes
    sentOk,     \* history: how many send() returned OK
    stream,     \* the bytes in the kernel
    broken,     \* the connection was reset
    rpc,        \* recv(): "idle", "header" or "data"
    want,       \* recv(): remaining_bytes
    data,       \* recv(): what it has read of the data
    received    \* history: the data of each recv() that returned OK

sender   == <<sizes, sfd, spc, left, sentOk>>
receiver == <<rfd, rpc, want, data, received>>
vars     == <<sender, receiver, stream, broken>>

-----------------------------------------------------------------------------
\* The value left in x when ensure_little_endian returns it: on a big-endian
\* machine the loop has shifted all of it out by then, and the swapped value
\* in ret is dropped.
EnsureLittleEndian(x) == IF BigEndian THEN x \div (Radix ^ HeaderSize) ELSE x

\* Byte i of frame n; the first HeaderSize ones are its header.
Byte(n, i) == [frame |-> n, place |-> i]
Bytes(n, from, to) == [i \in 1..(to - from + 1) |-> Byte(n, from + i - 1)]
Data(n) == Bytes(n, HeaderSize + 1, HeaderSize + sizes[n])

\* The size recv() makes of the header it has read.  Bytes that are not one
\* header can stand for any size.
Decoded(header) ==
    IF header = Bytes(header[1].frame, 1, HeaderSize)
    THEN {EnsureLittleEndian(EnsureLittleEndian(sizes[header[1].frame]))}
    ELSE {EnsureLittleEndian(size) : size \in Sizes}

Room == StreamMax - Len(stream)

-----------------------------------------------------------------------------
(* send()                                                                  *)

Send(n) ==
    /\ sfd = "open" /\ spc = "idle"
    /\ Len(sizes) < FramesMax
    /\ sizes' = Append(sizes, n)
    /\ spc' = "header"
    /\ UNCHANGED <<sfd, left, sentOk, receiver, stream, broken>>

SendReturnsOk == spc' = "idle" /\ sentOk' = sentOk + 1

\* write(fd, &size, sizeof(size)) takes all of the header.
WriteHeader ==
    /\ spc = "header" /\ ~broken /\ rfd = "open"
    /\ Room >= HeaderSize
    /\ stream' = stream \o Bytes(Len(sizes), 1, HeaderSize)
    /\ left' = sizes[Len(sizes)]
    /\ IF left' = 0 THEN SendReturnsOk ELSE spc' = "data" /\ UNCHANGED sentOk
    /\ UNCHANGED <<sizes, sfd, receiver, broken>>

\* It takes a part of it (a signal, in the middle of a full buffer): send()
\* closes fd and returns ERROR.
WriteHeaderShort(k) ==
    /\ spc = "header" /\ ~broken /\ rfd = "open"
    /\ k < HeaderSize /\ k <= Room
    /\ stream' = stream \o Bytes(Len(sizes), 1, k)
    /\ sfd' = "closed" /\ spc' = "idle"
    /\ UNCHANGED <<sizes, left, sentOk, receiver, broken>>

\* Mutant: a short write is taken for all of the data.
WriteDataOnce(k) ==
    /\ spc = "data" /\ ~broken /\ rfd = "open"
    /\ k <= left /\ k <= Room
    /\ stream' = stream \o Bytes(Len(sizes), HeaderSize + 1, HeaderSize + k)
    /\ left' = 0
    /\ SendReturnsOk
    /\ UNCHANGED <<sizes, sfd, receiver, broken>>

\* Mutant: the offset into data is not advanced.
WriteDataAgain(k) ==
    /\ spc = "data" /\ ~broken /\ rfd = "open"
    /\ k <= left /\ k <= Room
    /\ stream' = stream \o Bytes(Len(sizes), HeaderSize + 1, HeaderSize + k)
    /\ left' = left - k
    /\ IF left' = 0 THEN SendReturnsOk ELSE UNCHANGED <<spc, sentOk>>
    /\ UNCHANGED <<sizes, sfd, receiver, broken>>

\* One turn of the loop over remaining_bytes.
WriteData(k) ==
    /\ spc = "data" /\ ~broken /\ rfd = "open"
    /\ k <= left /\ k <= Room
    /\ LET end == HeaderSize + sizes[Len(sizes)]
       IN  stream' = stream \o Bytes(Len(sizes), end - left + 1, end - left + k)
    /\ left' = left - k
    /\ IF left' = 0 THEN SendReturnsOk ELSE UNCHANGED <<spc, sentOk>>
    /\ UNCHANGED <<sizes, sfd, receiver, broken>>

\* The other end is gone: what is written is lost, or write() fails and fd is
\* closed.
WriteLost ==
    /\ spc # "idle"
    /\ broken \/ rfd = "closed"
    /\ left' = 0
    /\ SendReturnsOk
    /\ UNCHANGED <<sizes, sfd, receiver, stream, broken>>

WriteFails ==
    /\ spc # "idle"
    /\ broken \/ rfd = "closed"
    /\ sfd' = "closed" /\ spc' = "idle"
    /\ UNCHANGED <<sizes, left, sentOk, receiver, stream, broken>>

-----------------------------------------------------------------------------
(* recv()                                                                  *)

Recv ==
    /\ rfd = "open" /\ rpc = "idle"
    /\ rpc' = "header"
    /\ UNCHANGED <<rfd, want, data, received, sender, stream, broken>>

RecvFails == rfd' = "closed" /\ rpc' = "idle" /\ UNCHANGED <<want, data, received>>
RecvReturns(d) == received' = Append(received, d) /\ rpc' = "idle" /\ UNCHANGED rfd

Consume(k) == stream' = SubSeq(stream, k + 1, Len(stream)) /\ UNCHANGED broken

ReadHeader ==
    /\ rpc = "header" /\ Len(stream) >= HeaderSize
    /\ Consume(HeaderSize)
    /\ \E size \in Decoded(SubSeq(stream, 1, HeaderSize)) :
          IF size > Limit THEN RecvFails
          ELSE /\ data' = <<>> /\ want' = size
               /\ IF size = 0 THEN RecvReturns(<<>>)
                  ELSE rpc' = "data" /\ UNCHANGED <<rfd, received>>
    /\ UNCHANGED sender

\* read() returns a part of the header: recv() closes fd and returns ERROR.
ReadHeaderShort(k) ==
    /\ rpc = "header" /\ k < HeaderSize /\ k <= Len(stream)
    /\ Consume(k)
    /\ RecvFails
    /\ UNCHANGED sender

ReadData(k) ==
    /\ rpc = "data" /\ k <= want /\ k <= Len(stream)
    /\ Consume(k)
    /\ data' = data \o SubSeq(stream, 1, k)
    /\ want' = want - k
    /\ IF want' = 0 THEN RecvReturns(data') ELSE UNCHANGED <<rfd, rpc, received>>
    /\ UNCHANGED sender

\* Mutant: end of file is not an error.
ReadFailsOnReset ==
    /\ rpc # "idle"
    /\ broken
    /\ RecvFails
    /\ UNCHANGED <<sender, stream, broken>>

\* End of file, or an error: recv() closes fd.
ReadFails ==
    /\ rpc # "idle"
    /\ broken \/ (sfd = "closed" /\ stream = <<>>)
    /\ RecvFails
    /\ UNCHANGED <<sender, stream, broken>>

-----------------------------------------------------------------------------
\* close() by the owner of an end, between two calls; and the network.
CloseSender == /\ sfd = "open" /\ spc = "idle" /\ sfd' = "closed"
               /\ UNCHANGED <<sizes, spc, left, sentOk, receiver, stream, broken>>
CloseReceiver == /\ rfd = "open" /\ rpc = "idle" /\ rfd' = "closed"
                 /\ UNCHANGED <<rpc, want, data, received, sender, stream, broken>>
Reset == ~broken /\ broken' = TRUE /\ UNCHANGED <<sender, receiver, stream>>

Init ==
    /\ sizes = <<>> /\ sfd = "open" /\ spc = "idle" /\ left = 0 /\ sentOk = 0
    /\ stream = <<>> /\ broken = FALSE
    /\ rfd = "open" /\ rpc = "idle" /\ want = 0 /\ data = <<>> /\ received = <<>>

Sending == \/ WriteHeader \/ WriteLost \/ WriteFails
           \/ \E k \in 1..StreamMax : WriteHeaderShort(k) \/ WriteData(k)

Receiving == \/ Recv \/ ReadHeader \/ ReadFails
             \/ \E k \in 1..StreamMax : ReadHeaderShort(k) \/ ReadData(k)

Next == \/ \E n \in Sizes : Send(n)
        \/ Sending \/ Receiving
        \/ CloseSender \/ CloseReceiver \/ Reset

Spec == Init /\ [][Next]_vars

\* A thread in send() or recv() goes on; the receiver is always in a loop over
\* recv().  Nothing is assumed of who calls send() or close().
FairSpec == Spec /\ WF_vars(Sending) /\ WF_vars(Receiving)

-----------------------------------------------------------------------------
(* Properties.                                                             *)

\* Each variable has its type.
TypeOK ==
    /\ sizes \in Seq(Sizes) /\ Len(sizes) <= FramesMax
    /\ sfd \in {"open", "closed"} /\ rfd \in {"open", "closed"}
    /\ spc \in {"idle", "header", "data"} /\ rpc \in {"idle", "header", "data"}
    /\ left \in Nat /\ want \in Nat /\ sentOk \in 0..Len(sizes)
    /\ Len(stream) <= StreamMax
    /\ \A i \in 1..Len(stream) : stream[i].frame \in 1..Len(sizes)
    /\ broken \in BOOLEAN
    /\ Len(data) + want <= Limit
    /\ Len(received) <= Len(sizes)

\* recv() returns the frames given to send(), whole and in order, whatever the
\* kernel does with the writes and reads (rpc_tunnel.hpp:68-136): FrameChannel
\* is what RpcSession takes a connection for.
Channel == INSTANCE FrameChannel WITH
    Frames <- {Bytes(n, HeaderSize + 1, HeaderSize + size) :
                  n \in 1..FramesMax, size \in Sizes},
    given <- [n \in 1..Len(sizes) |-> Data(n)],
    taken <- received,
    shut <- (rfd = "closed")
FramesInOrder == Channel!Spec

\* A frame whose send() returned OK is received, unless an end of the
\* connection closes or it is reset: recv() does not wait for bytes that were
\* not sent, nor leave some behind (rpc_tunnel.hpp:82-96, 120-135).
FramesDelivered ==
    \A n \in 1..FramesMax :
        sentOk >= n ~> Len(received) >= n \/ rfd = "closed" \/ sfd = "closed" \/ broken

\* recv() ends when the other end is closed: it never blocks on a connection
\* nobody can write to any more (rpc_tunnel.hpp:106-108, 128-132).
RecvEnds == (sfd = "closed" /\ rpc # "idle") ~> rpc = "idle"
=============================================================================
