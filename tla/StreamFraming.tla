---------------------------- MODULE StreamFraming ----------------------------
(***************************************************************************)
(* Messages over a byte stream: what a sink and a source of the TCP and    *)
(* UDS transports do between them (transport/tcp.rs, writev_full and       *)
(* TcpSource; transport/mod.rs, FramedReader).                             *)
(*                                                                         *)
(* The sender pushes a batch of equally long messages with writev calls    *)
(* that the kernel may accept in part; the reader reassembles messages in  *)
(* one fixed buffer between two cursors, compacts it only when its end is  *)
(* exhausted, and rescans byte by byte after a damaged header.             *)
(*                                                                         *)
(* Byte o of message k is the number k * MessageBytes + o, so that the     *)
(* byte stream a correct sender writes is 0, 1, 2, ...                     *)
(***************************************************************************)
EXTENDS Integers, Sequences, FiniteSets, FiniteSetsExt

CONSTANTS
    HEADER_LEN,     \* bytes of a message header
    MessageBytes,   \* bytes of a whole message (message_bytes)
    Cap,            \* bytes of the reader's buffer
    SockBuf,        \* bytes the connection holds in flight
    IovCap,         \* iovecs per writev call
    TxBatch,        \* messages per send_batch call
    RxBatch,        \* message slots per recv_batch call
    MaxMsgs,        \* bound: messages sent
    DamagedTotals,  \* the totals a damaged header may declare; 0 is a bad magic
    MaxDamaged      \* bound: damaged headers

ASSUME SizesAssumption ==
    /\ HEADER_LEN \in Nat \ {0} /\ MessageBytes \in Nat /\ MessageBytes >= HEADER_LEN
    /\ Cap \in Nat /\ Cap >= 2 * (MessageBytes + HEADER_LEN)
ASSUME BatchAssumption ==
    /\ SockBuf \in Nat \ {0} /\ IovCap \in Nat \ {0}
    /\ TxBatch \in Nat \ {0} /\ RxBatch \in Nat \ {0}
    /\ MaxMsgs \in Nat /\ MaxDamaged \in Nat
ASSUME DamageAssumption ==
    DamagedTotals \subseteq Nat /\ \A t \in DamagedTotals : t = 0 \/ t >= HEADER_LEN

VARIABLES
    total,      \* per message: what decoding its header yields, HEADER_LEN + payload_len
    blocking,   \* is the sender's socket blocking?
    tx,         \* sender: "call", "writev" or "closed"
    seq,        \* sender: messages accepted by the send_batch calls that returned
    msgs,       \* writev_full: number of messages of this batch
    idx,        \* writev_full: first message not fully sent
    off,        \* writev_full: bytes of it already on the wire
    wire,       \* bytes in flight
    rst,        \* has the connection been reset?
    rx,         \* reader: "take", "fill", "closed" or "failed"
    buf,        \* FramedReader: the buffer,
    start,      \*   its first unconsumed byte
    end,        \*   and one past its last valid byte
    count,      \* messages carved by the current recv_batch call
    frames      \* the frames carved so far: first byte and length of each

txVars == <<tx, seq, msgs, idx, off>>
rxVars == <<rx, buf, start, end, count, frames>>
vars   == <<total, blocking, txVars, wire, rst, rxVars>>

Numbers == 0 .. MaxMsgs - 1
Slots   == 0 .. Cap - 1

Init ==
    /\ total \in [Numbers -> DamagedTotals \cup {MessageBytes}]
    /\ Cardinality({k \in Numbers : total[k] # MessageBytes}) <= MaxDamaged
    /\ blocking \in BOOLEAN
    /\ tx = "call" /\ seq = 0 /\ msgs = 0 /\ idx = 0 /\ off = 0
    /\ wire = << >> /\ rst = FALSE
    /\ rx = "take" /\ buf = [i \in Slots |-> 0] /\ start = 0 /\ end = 0
    /\ count = 0 /\ frames = << >>

(***************************************************************************)
(* The sender: send_batch, which is writev_full.                           *)
(***************************************************************************)

\* The sender has the next n messages built and calls send_batch.
SendBatch ==
    /\ tx = "call"
    /\ \E n \in 1 .. TxBatch : seq + n <= MaxMsgs /\ msgs' = n
    /\ tx' = "writev" /\ idx' = 0 /\ off' = 0
    /\ UNCHANGED <<total, blocking, seq, wire, rst, rxVars>>

\* Bytes the iovecs of the next writev call cover.
IovBytes == (IF msgs - idx < IovCap THEN msgs - idx ELSE IovCap) * MessageBytes - off

\* Regression: the first iovec does not skip the bytes that are already on the wire.
FirstByte_NoSkip == (seq + idx) * MessageBytes

\* The byte at which the first iovec starts.
FirstByte == (seq + idx) * MessageBytes + off

\* send_batch returns Ok(n): the caller counts n messages as sent.
ReturnOk(n) == tx' = "call" /\ seq' = seq + n /\ msgs' = 0 /\ idx' = 0 /\ off' = 0

\* One writev accepts n bytes; (idx, off) advance over the whole messages among them.
Writev ==
    /\ tx = "writev" /\ ~rst
    /\ \E n \in 1 .. SockBuf :
         /\ n <= IovBytes /\ Len(wire) + n <= SockBuf
         /\ wire' = wire \o [i \in 1 .. n |-> FirstByte + i - 1]
         /\ \/ /\ idx + (off + n) \div MessageBytes = msgs
               /\ ReturnOk(msgs)
            \/ /\ idx + (off + n) \div MessageBytes < msgs
               /\ idx' = idx + (off + n) \div MessageBytes
               /\ off' = (off + n) % MessageBytes
               /\ UNCHANGED <<tx, seq, msgs>>
    /\ UNCHANGED <<total, blocking, rst, rxVars>>

\* Regression: a full socket ends the call wherever it is.
MayReturnEarly_Anywhere == TRUE

\* A full non-blocking socket ends the call only at a message boundary; in the middle of a
\* message the write is retried.
MayReturnEarly == off = 0

WritevWouldBlock ==
    /\ tx = "writev" /\ ~blocking /\ Len(wire) = SockBuf
    /\ MayReturnEarly
    /\ ReturnOk(idx)
    /\ UNCHANGED <<total, blocking, wire, rst, rxVars>>

\* The connection is reset: the write fails wherever it is and the sender gives up.
WritevError ==
    /\ tx = "writev"
    /\ rst' = TRUE
    /\ tx' = "closed"
    /\ UNCHANGED <<total, blocking, seq, msgs, idx, off, wire, rxVars>>

\* The sender leaves its loop between two calls and closes the sink.
Close ==
    /\ tx = "call"
    /\ tx' = "closed"
    /\ UNCHANGED <<total, blocking, seq, msgs, idx, off, wire, rst, rxVars>>

TxStep == SendBatch \/ Writev \/ WritevWouldBlock \/ WritevError \/ Close

(***************************************************************************)
(* The reader: recv_batch, which alternates take_messages and fill_once.   *)
(***************************************************************************)

\* WireHeader::decode at buffer position s, as the total it implies: 0 if the magic does
\* not match.  Only the first byte of a message starts a magic.
Decoded(s) == IF buf[s] % MessageBytes = 0 THEN total[buf[s] \div MessageBytes] ELSE 0

\* Regression: a declared length that can never fit is waited for instead of skipped.
Plausible_AnyLength(t) == t # 0

\* Decoding succeeded and the declared length could fit the buffer.
Plausible(t) == t # 0 /\ t <= Cap

\* Where take_one's rescan stops: too few bytes for a header, or a plausible header.
Stops(s) == end - s >= HEADER_LEN => Plausible(Decoded(s))

\* Regression: a message that ends exactly where the buffered bytes end is not complete.
Incomplete_OffByOne(s) == end - s >= HEADER_LEN => end - s <= Decoded(s)

\* The message at s is not buffered in full.
Incomplete(s) == end - s >= HEADER_LEN => end - s < Decoded(s)

\* Regression: only the bytes copied into the caller's slot are consumed.
NextStart_Copied(s) == s + (IF Decoded(s) < MessageBytes THEN Decoded(s) ELSE MessageBytes)

\* Consuming the message at s.
NextStart(s) == s + Decoded(s)

\* take_one returns the message starting at s: it is handed out and consumed.
TakeOne(s) ==
    /\ ~Incomplete(s)
    /\ frames' = Append(frames, [first |-> buf[s], len |-> Decoded(s)])
    /\ start' = NextStart(s)
    /\ count' = (count + 1) % RxBatch
    /\ UNCHANGED rx

\* take_one returns None: what was carved so far is returned, or more bytes are needed.
TakeNone(s) ==
    /\ Incomplete(s)
    /\ start' = s
    /\ count' = 0
    /\ rx' = IF count = 0 THEN "fill" ELSE "take"
    /\ UNCHANGED frames

Take ==
    /\ rx = "take"
    /\ \E s \in start .. end :
         /\ Stops(s) /\ \A t \in start .. s - 1 : ~Stops(t)
         /\ TakeOne(s) \/ TakeNone(s)
    /\ UNCHANGED <<total, blocking, txVars, wire, rst, buf, end>>

\* The buffer and cursors once fill_once has made room: reset when everything is consumed,
\* one memmove when the write end is exhausted, nothing otherwise.
Compact ==
    IF start = end THEN [buf |-> buf, start |-> 0, end |-> 0]
    ELSE IF end = Cap
         THEN [buf |-> [i \in Slots |-> IF start + i < end THEN buf[start + i] ELSE buf[i]],
               start |-> 0, end |-> end - start]
         ELSE [buf |-> buf, start |-> start, end |-> end]

\* fill_once reads some of the bytes in flight; with no room left it fails instead.
Fill ==
    LET c == Compact IN
    /\ rx = "fill"
    /\ \E n \in 0 .. Len(wire) :
         /\ c.end + n <= Cap /\ (n = 0 <=> c.end = Cap)
         /\ buf' = [i \in Slots |-> IF i \in c.end .. c.end + n - 1
                                    THEN wire[i - c.end + 1] ELSE c.buf[i]]
         /\ end' = c.end + n
         /\ wire' = SubSeq(wire, n + 1, Len(wire))
    /\ start' = c.start
    /\ rx' = IF c.end = Cap THEN "failed" ELSE "take"
    /\ UNCHANGED <<total, blocking, txVars, rst, count, frames>>

\* fill_once finds nothing to read: the poll times out and recv_batch is called again, the
\* stream has ended, or the connection was reset.
FillNothing ==
    LET c == Compact IN
    /\ rx = "fill" /\ wire = << >> /\ c.end < Cap
    /\ buf' = c.buf /\ start' = c.start /\ end' = c.end
    /\ rx' = IF tx # "closed" THEN "take" ELSE IF rst THEN "failed" ELSE "closed"
    /\ UNCHANGED <<total, blocking, txVars, wire, rst, count, frames>>

RxStep == Take \/ Fill \/ FillNothing

\* The reader has seen the end of the stream: the model stops here.
Finished == rx \in {"closed", "failed"} /\ tx = "closed" /\ UNCHANGED vars

Next == TxStep \/ RxStep \/ Finished

Spec == Init /\ [][Next]_vars

\* The receiver thread keeps calling recv_batch and the kernel delivers what it holds.
FairSpec == Spec /\ WF_vars(RxStep)

(***************************************************************************)
(* Properties.                                                             *)
(***************************************************************************)

\* Type invariant of a connection: the cursors stay inside the buffer and in order.
TypeOK ==
    /\ total \in [Numbers -> Nat] /\ blocking \in BOOLEAN
    /\ tx \in {"call", "writev", "closed"}
    /\ seq \in Nat /\ msgs \in Nat /\ idx \in Nat /\ off \in Nat
    /\ wire \in Seq(Nat) /\ rst \in BOOLEAN
    /\ rx \in {"take", "fill", "closed", "failed"}
    /\ buf \in [Slots -> Nat] /\ start \in Nat /\ end \in Nat /\ start <= end /\ end <= Cap
    /\ count \in Nat
    /\ frames \in Seq([first : Nat, len : Nat])

\* The next byte the sender puts on the wire.
Written == (seq + idx) * MessageBytes + off

\* The stream is what was sent.  However writev splits a batch, whenever the call gives up
\* and the batch is rebuilt, and whenever the reader compacts its buffer, the bytes in
\* flight and the unconsumed bytes of the buffer are the last bytes written, consecutive
\* and in order: no byte is sent twice, skipped or overwritten before it is consumed.
BytesInOrder ==
    /\ \A i \in 1 .. Len(wire) : wire[i] = Written - Len(wire) + i - 1
    /\ \A i \in start .. end - 1 : buf[i] = Written - Len(wire) - end + i

\* "Cannot happen with the capacity chosen in `new`" (transport/mod.rs, fill_once): the
\* reader never finds its buffer full without a complete message, not even when a damaged
\* header declares a length of its own.  A reader fails only on a reset connection.
BufferNeverFull == rx = "failed" => rst

Damaged == {k \in Numbers : total[k] # MessageBytes}
Number(f) == f.first \div MessageBytes

\* The stream position of the first unconsumed byte.
Consumed == Written - Len(wire) - (end - start)

\* Is the start of message k inside a frame with a damaged header?
Swallowed(k) ==
    \E i \in DOMAIN frames :
        /\ Number(frames[i]) \in Damaged
        /\ frames[i].first < k * MessageBytes
        /\ k * MessageBytes < frames[i].first + frames[i].len

\* Framing recovers from damage.  Every frame starts at a message; one with an intact
\* header is exactly that message; frames come in order, each message at most once; and
\* every intact message behind the read position was handed out, unless the length a
\* damaged header declared swallowed its start.
DamageIsContained ==
    /\ \A i \in DOMAIN frames :
         /\ frames[i].first % MessageBytes = 0
         /\ Number(frames[i]) \notin Damaged => frames[i].len = MessageBytes
    /\ \A i, j \in DOMAIN frames :
         i < j => frames[i].first + frames[i].len <= frames[j].first
    /\ \A k \in Numbers \ Damaged :
         (k + 1) * MessageBytes <= Consumed =>
            (\E i \in DOMAIN frames : Number(frames[i]) = k) \/ Swallowed(k)

\* No message is stuck: on an undamaged connection that is not reset, every message that
\* is completely written is eventually handed out, even if the sender then stays silent.
NoMessageStuck ==
    \A k \in Numbers :
        (Damaged = {} /\ (k + 1) * MessageBytes <= Written)
            ~> (rst \/ \E i \in DOMAIN frames : Number(frames[i]) = k)

(***************************************************************************)
(* The sink and the source together implement a message channel.           *)
(***************************************************************************)
\* The numbers of the intact messages handed out so far.
HandedOut == {Number(frames[i]) : i \in {j \in DOMAIN frames : Number(frames[j]) \notin Damaged}}

Channel == INSTANCE MessageChannel WITH
    sent    <- Written \div MessageBytes,
    got     <- HandedOut,
    damaged <- Damaged # {}

\* The byte stream implements a FIFO channel of whole messages (the DataSink/DataSource
\* contract): in order, at most once, and without loss unless a header was damaged.
ImplementsChannel == Channel!Spec
===============================================================================
