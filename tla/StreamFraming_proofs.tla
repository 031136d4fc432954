------------------------ MODULE StreamFraming_proofs ------------------------
(***************************************************************************)
(* Proofs about messages over a byte stream, for any message, header,      *)
(* buffer, socket and batch sizes the constructors allow, and any number   *)
(* of damaged headers of any declared length.                              *)
(*                                                                         *)
(* The argument runs along the stream positions: the sender's cursor is a  *)
(* position (Written) that writev only moves forward, the buffer is a      *)
(* window that ends where the bytes in flight begin, and the rescan can    *)
(* pass over a byte only if no intact message starts there.                *)
(***************************************************************************)
EXTENDS StreamFraming, SequenceTheorems, TLAPS

\* writev_full's cursor lies inside the batch, and the batch inside what may be sent.
CursorInBatch ==
    /\ idx <= msgs /\ off < MessageBytes
    /\ seq + msgs <= MaxMsgs
    /\ tx = "call" => msgs = 0
    /\ tx = "writev" => idx < msgs
    /\ off > 0 => idx < msgs

\* More bytes are asked for only when the unconsumed ones leave room.
RoomToFill == rx = "fill" => end - start < Cap

\* Every frame starts at a message, is as long as its header declares, and lies behind the
\* read position; frames do not overlap.
FramesBehind ==
    /\ \A i \in DOMAIN frames :
         /\ frames[i].first % MessageBytes = 0
         /\ Number(frames[i]) \in Numbers
         /\ frames[i].len = total[Number(frames[i])]
         /\ frames[i].first + frames[i].len <= Consumed
    /\ \A i, j \in DOMAIN frames :
         i < j => frames[i].first + frames[i].len <= frames[j].first

\* An intact message whose first byte is behind the read position was handed out or
\* swallowed.
NoneSkipped ==
    \A k \in Numbers \ Damaged :
        k * MessageBytes < Consumed =>
            (\E i \in DOMAIN frames : Number(frames[i]) = k) \/ Swallowed(k)

\* Inductive invariant.
IInv ==
    /\ TypeOK /\ CursorInBatch /\ BytesInOrder /\ RoomToFill /\ BufferNeverFull
    /\ Consumed >= 0 /\ FramesBehind /\ NoneSkipped

(***************************************************************************)
(* Arithmetic of message numbers and byte positions.                       *)
(***************************************************************************)

\* A position is a message number and an offset.
LEMMA DivMod ==
    ASSUME NEW a \in Nat, NEW m \in Nat \ {0}
    PROVE  /\ a \div m \in Nat /\ a % m \in 0 .. m - 1
           /\ a = (a \div m) * m + (a % m)
  OBVIOUS

\* They are unique.
LEMMA DivUnique ==
    ASSUME NEW a \in Nat, NEW m \in Nat \ {0}, NEW k \in Int, k * m <= a, a < k * m + m
    PROVE  a \div m = k /\ a % m = a - k * m
<1>1. a \div m = k
  OBVIOUS
<1>2. a = (a \div m) * m + (a % m) /\ a % m \in Int
  BY DivMod
<1>3. a = k * m + (a % m)
  BY <1>1, <1>2
<1> DEFINE p == k * m
           r == a % m
<1>4. p \in Int /\ r \in Int /\ a = p + r
  BY <1>2, <1>3
<1> HIDE DEF p, r
<1>5. r = a - p
  BY <1>4
<1> QED
  BY <1>1, <1>5 DEF p, r

\* Positions of messages are ordered as their numbers.
LEMMA MulLess ==
    ASSUME NEW a \in Int, NEW b \in Int, NEW m \in Nat \ {0}
    PROVE  /\ a * m \in Int
           /\ a < b <=> a * m < b * m
           /\ a <= b <=> a * m <= b * m
           /\ a < b <=> a * m + m <= b * m
  OBVIOUS

\* Positions are natural numbers.
LEMMA PositionNat ==
    ASSUME NEW a, NEW b, NEW c, NEW m, a \in Nat, b \in Nat, c \in Nat, m \in Nat
    PROVE  (a + b) * m + c \in Nat
  OBVIOUS

\* Distributivity, for the cursor of a batch.
LEMMA MulAdd ==
    ASSUME NEW a \in Int, NEW b \in Int, NEW m \in Int
    PROVE  (a + b) * m = a * m + b * m
  OBVIOUS

(***************************************************************************)
(* The sender.                                                             *)
(***************************************************************************)

\* Everything written lies inside the messages there are.
LEMMA WrittenBounded ==
    ASSUME TypeOK, CursorInBatch
    PROVE  Written \in Nat /\ Written <= MaxMsgs * MessageBytes
<1> USE SizesAssumption, BatchAssumption DEF TypeOK, CursorInBatch
<1> DEFINE P == (seq + idx) * MessageBytes
           Q == MaxMsgs * MessageBytes
<1>1. P \in Nat /\ Q \in Nat
  OBVIOUS
<1>2. P <= Q
  BY MulLess
<1>3. off > 0 => P + MessageBytes <= Q
  BY MulLess
<1>4. Written = P + off
  BY DEF Written
<1> HIDE DEF P, Q
<1>5. P + off \in Nat /\ P + off <= Q
  BY <1>1, <1>2, <1>3
<1> QED
  BY <1>4, <1>5 DEF Q

\* One writev of n bytes moves the position by n and keeps the cursor in the batch.
LEMMA WritevMoves ==
    ASSUME TypeOK, CursorInBatch, tx = "writev", NEW n \in 1 .. SockBuf, n <= IovBytes,
           NEW q \in Nat, q = (off + n) \div MessageBytes
    PROVE  /\ idx + q <= msgs
           /\ (seq + (idx + q)) * MessageBytes + ((off + n) % MessageBytes) = Written + n
           /\ idx + q = msgs => (off + n) % MessageBytes = 0
<1> DEFINE r == (off + n) % MessageBytes
           left == (msgs - idx) * MessageBytes
           iov == IovCap * MessageBytes
           whole == q * MessageBytes
           P == (seq + idx) * MessageBytes
<1> USE SizesAssumption, BatchAssumption
<1>1. /\ off \in Nat /\ msgs \in Nat /\ idx \in Nat /\ seq \in Nat /\ idx < msgs
      /\ MessageBytes \in Nat \ {0} /\ IovCap \in Nat /\ n \in Nat
  BY DEF TypeOK, CursorInBatch
<1>2. off + n = whole + r /\ r \in 0 .. MessageBytes - 1
  BY <1>1, DivMod
<1>3. left \in Int /\ iov \in Int /\ whole \in Int /\ P \in Int
  BY <1>1
<1>4. msgs - idx >= IovCap => iov <= left
  BY <1>1, MulLess
<1>5. IovBytes = left - off \/ (msgs - idx >= IovCap /\ IovBytes = iov - off)
  BY <1>1 DEF IovBytes
<1>6. whole <= left => q <= msgs - idx
  BY <1>1, MulLess
<1>7. idx + q = msgs => whole = left
  <2>1. idx + q = msgs => q = msgs - idx
    BY <1>1
  <2> QED
    BY <2>1
<1>8. (seq + (idx + q)) * MessageBytes = P + whole
  <2>1. ((seq + idx) + q) * MessageBytes = P + whole
    BY <1>1, MulAdd
  <2>2. (seq + idx) + q = seq + (idx + q)
    BY <1>1
  <2> QED
    BY <2>1, <2>2
<1>9. Written = P + off
  BY DEF Written
<1> HIDE DEF r, left, iov, whole, P
<1>10. off + n <= left
  BY <1>1, <1>3, <1>4, <1>5
<1>11. whole <= left
  BY <1>1, <1>2, <1>3, <1>10
<1>12. idx + q <= msgs
  BY <1>1, <1>6, <1>11
<1>13. idx + q = msgs => r = 0
  BY <1>1, <1>2, <1>3, <1>7, <1>10
<1>14. P + whole + r = Written + n
  BY <1>1, <1>2, <1>3, <1>9
<1> QED
  BY <1>8, <1>12, <1>13, <1>14 DEF r

(***************************************************************************)
(* The invariant holds initially and is kept by every step.                *)
(***************************************************************************)

\* A step that moves neither the read position nor the frames keeps what is said of them.
LEMMA FramesKept ==
    ASSUME FramesBehind, NoneSkipped, UNCHANGED <<total, frames>>, Consumed' = Consumed
    PROVE  FramesBehind' /\ NoneSkipped'
  BY DEF FramesBehind, NoneSkipped, Swallowed, Damaged, Number

\* A step that moves nothing on the stream keeps all of it.
LEMMA StreamKept ==
    ASSUME BytesInOrder, Consumed >= 0, FramesBehind, NoneSkipped, Written' = Written,
           UNCHANGED <<total, wire, buf, start, end, frames>>
    PROVE  BytesInOrder' /\ (Consumed >= 0)' /\ FramesBehind' /\ NoneSkipped'
<1>1. Consumed' = Consumed
  BY DEF Consumed
<1>2. BytesInOrder'
  BY DEF BytesInOrder
<1> QED
  BY <1>1, <1>2, FramesKept

\* A new connection.
LEMMA InitIInv == Init => IInv
<1> SUFFICES ASSUME Init PROVE IInv
  OBVIOUS
<1> USE SizesAssumption, BatchAssumption, DamageAssumption
<1>1. TypeOK
  <2>1. total \in [Numbers -> Nat]
    BY DEF Init
  <2>2. buf \in [Slots -> Nat] /\ wire \in Seq(Nat) /\ frames \in Seq([first : Nat, len : Nat])
    BY DEF Init
  <2>3. /\ blocking \in BOOLEAN /\ rst \in BOOLEAN /\ tx \in {"call", "writev", "closed"}
        /\ rx \in {"take", "fill", "closed", "failed"}
        /\ seq \in Nat /\ msgs \in Nat /\ idx \in Nat /\ off \in Nat /\ count \in Nat
    BY DEF Init
  <2>4. start = 0 /\ end = 0 /\ Cap \in Nat
    BY DEF Init
  <2> QED
    BY <2>1, <2>2, <2>3, <2>4 DEF TypeOK
<1>2. CursorInBatch
  BY DEF Init, CursorInBatch
<1>3. Len(wire) = 0 /\ DOMAIN frames = {} /\ start = 0 /\ end = 0 /\ rx = "take"
  BY DEF Init
<1>4. Written = 0
  BY DEF Init, Written
<1>5. Consumed = 0
  BY <1>3, <1>4 DEF Consumed
<1>6. BytesInOrder /\ RoomToFill /\ BufferNeverFull
  BY <1>3 DEF BytesInOrder, RoomToFill, BufferNeverFull
<1>7. FramesBehind
  BY <1>3 DEF FramesBehind
<1>8. NoneSkipped
  <2>1. \A k \in Numbers : ~(k * MessageBytes < Consumed)
    BY <1>5 DEF Numbers
  <2> QED
    BY <2>1 DEF NoneSkipped
<1> QED
  BY <1>1, <1>2, <1>5, <1>6, <1>7, <1>8 DEF IInv

\* The sender's steps that write nothing: the position stays where it is, also when the
\* batch is given up and the rest of it is sent again by the next call.
LEMMA QuietSendKeeps ==
    ASSUME IInv, SendBatch \/ WritevWouldBlock \/ WritevError \/ Close
    PROVE  IInv' /\ Written' = Written
<1> USE SizesAssumption, BatchAssumption
<1>1. TypeOK /\ CursorInBatch
  BY DEF IInv
<1>2. UNCHANGED <<total, wire, buf, start, end, frames, rx, blocking, count>>
  BY DEF SendBatch, WritevWouldBlock, WritevError, Close, rxVars
<1>3. /\ tx' \in {"call", "writev", "closed"} /\ seq' \in Nat /\ msgs' \in Nat
      /\ idx' \in Nat /\ off' \in Nat /\ rst' \in BOOLEAN
      /\ CursorInBatch'
      /\ seq' + idx' = seq + idx /\ off' = off
      /\ rst => rst'
  <2> USE <1>1 DEF TypeOK, CursorInBatch, ReturnOk
  <2>1. CASE SendBatch
    BY <2>1 DEF SendBatch
  <2>2. CASE WritevWouldBlock
    BY <2>2 DEF WritevWouldBlock, MayReturnEarly
  <2>3. CASE WritevError
    BY <2>3 DEF WritevError
  <2>4. CASE Close
    BY <2>4 DEF Close
  <2> QED
    BY <2>1, <2>2, <2>3, <2>4
<1>4. TypeOK'
  BY <1>1, <1>2, <1>3 DEF TypeOK
<1>5. Written' = Written
  BY <1>3 DEF Written
<1>6. RoomToFill' /\ BufferNeverFull'
  BY <1>2, <1>3 DEF IInv, RoomToFill, BufferNeverFull
<1> QED
  BY <1>2, <1>3, <1>4, <1>5, <1>6, StreamKept DEF IInv

\* One writev puts the next n bytes of the stream on the wire.
LEMMA WritevKeeps ==
    ASSUME IInv, Writev
    PROVE  IInv' /\ Written' >= Written
<1> USE SizesAssumption, BatchAssumption
<1>1. TypeOK /\ CursorInBatch /\ BytesInOrder
  BY DEF IInv
<1>2. PICK n \in 1 .. SockBuf :
        /\ n <= IovBytes
        /\ wire' = wire \o [i \in 1 .. n |-> FirstByte + i - 1]
        /\ \/ /\ idx + (off + n) \div MessageBytes = msgs
              /\ ReturnOk(msgs)
           \/ /\ idx + (off + n) \div MessageBytes < msgs
              /\ idx' = idx + (off + n) \div MessageBytes
              /\ off' = (off + n) % MessageBytes
              /\ UNCHANGED <<tx, seq, msgs>>
  BY DEF Writev
<1>3. UNCHANGED <<total, blocking, rst, rx, buf, start, end, count, frames>> /\ tx = "writev"
  BY DEF Writev, rxVars
<1> DEFINE q == (off + n) \div MessageBytes
           r == (off + n) % MessageBytes
<1>4. q \in Nat /\ r \in 0 .. MessageBytes - 1
  <2>1. off + n \in Nat /\ MessageBytes \in Nat \ {0}
    BY <1>1 DEF TypeOK
  <2> QED
    BY <2>1, DivMod
<1>5. /\ idx + q <= msgs
      /\ (seq + (idx + q)) * MessageBytes + r = Written + n
      /\ idx + q = msgs => r = 0
  BY <1>1, <1>2, <1>3, <1>4, WritevMoves
<1> HIDE DEF q, r
<1>6. \/ idx + q = msgs /\ ReturnOk(msgs)
      \/ idx + q < msgs /\ idx' = idx + q /\ off' = r /\ UNCHANGED <<tx, seq, msgs>>
  BY <1>2 DEF q, r
<1>7. /\ tx' \in {"call", "writev", "closed"} /\ seq' \in Nat /\ msgs' \in Nat
      /\ idx' \in Nat /\ off' \in Nat
      /\ CursorInBatch'
      /\ seq' + idx' = seq + (idx + q) /\ off' = r
  <2> USE <1>1, <1>3, <1>4, <1>5 DEF TypeOK, CursorInBatch, ReturnOk
  <2>1. CASE idx + q = msgs /\ ReturnOk(msgs)
    BY <2>1
  <2>2. CASE idx + q < msgs /\ idx' = idx + q /\ off' = r /\ UNCHANGED <<tx, seq, msgs>>
    BY <2>2
  <2> QED
    BY <1>6, <2>1, <2>2
<1>8. Written' = Written + n
  BY <1>5, <1>7 DEF Written
<1>9. Written \in Nat /\ FirstByte = Written
  BY <1>1, WrittenBounded DEF FirstByte, Written
<1> DEFINE new == [i \in 1 .. n |-> FirstByte + i - 1]
<1>10. new \in Seq(Nat) /\ Len(new) = n
  BY <1>9
<1>11. /\ wire' \in Seq(Nat) /\ Len(wire') = Len(wire) + n
       /\ \A i \in 1 .. Len(wire) + n :
            wire'[i] = IF i <= Len(wire) THEN wire[i] ELSE Written + (i - Len(wire)) - 1
  <2>1. wire \in Seq(Nat) /\ wire' = wire \o new
    BY <1>1, <1>2 DEF TypeOK
  <2> HIDE DEF new
  <2>2. /\ wire' \in Seq(Nat) /\ Len(wire') = Len(wire) + n
        /\ \A i \in 1 .. Len(wire) + n :
             wire'[i] = IF i <= Len(wire) THEN wire[i] ELSE new[i - Len(wire)]
    BY <1>10, <2>1, ConcatProperties
  <2>3. \A i \in 1 .. n : new[i] = Written + i - 1
    BY <1>9 DEF new
  <2> QED
    BY <2>1, <2>2, <2>3
<1>12. TypeOK'
  BY <1>1, <1>3, <1>7, <1>11 DEF TypeOK
<1>13. BytesInOrder'
  <2>1. Len(wire) \in Nat /\ start \in Nat /\ end \in Nat
    BY <1>1 DEF TypeOK
  <2>2. ASSUME NEW i \in 1 .. Len(wire')
        PROVE  wire'[i] = Written' - Len(wire') + i - 1
    <3>1. i \in 1 .. Len(wire) + n /\ Written' - Len(wire') = Written - Len(wire)
      BY <1>8, <1>9, <1>11, <2>1
    <3>2. i <= Len(wire) => wire[i] = Written - Len(wire) + i - 1
      BY <1>1, <2>1 DEF BytesInOrder
    <3> QED
      BY <1>9, <1>11, <2>1, <3>1, <3>2
  <2>3. ASSUME NEW i \in start .. end - 1
        PROVE  buf[i] = Written' - Len(wire') - end + i
    BY <1>1, <1>8, <1>9, <1>11, <2>1 DEF BytesInOrder
  <2> QED
    BY <1>3, <2>2, <2>3 DEF BytesInOrder
<1>14. Consumed' = Consumed
  BY <1>1, <1>3, <1>8, <1>9, <1>11 DEF Consumed, TypeOK
<1>15. RoomToFill' /\ BufferNeverFull'
  BY <1>3 DEF IInv, RoomToFill, BufferNeverFull
<1> QED
  BY <1>3, <1>7, <1>8, <1>9, <1>12, <1>13, <1>14, <1>15, FramesKept DEF IInv

\* Making room moves the unconsumed bytes and loses none, and there is room afterwards.
LEMMA CompactKeeps ==
    ASSUME TypeOK, CursorInBatch, BytesInOrder, RoomToFill, rx = "fill", NEW c, c = Compact
    PROVE  /\ c.buf \in [Slots -> Nat] /\ c.start \in Nat /\ c.end \in Nat
           /\ c.start <= c.end /\ c.end < Cap /\ c.end - c.start = end - start
           /\ \A i \in c.start .. c.end - 1 : c.buf[i] = Written - Len(wire) - c.end + i
<1> USE SizesAssumption
<1>1. /\ buf \in [Slots -> Nat] /\ start \in Nat /\ end \in Nat /\ start <= end /\ end <= Cap
      /\ Len(wire) \in Nat /\ Written \in Nat /\ Cap \in Nat \ {0} /\ end - start < Cap
  BY WrittenBounded DEF TypeOK, RoomToFill
<1>2. \A i \in start .. end - 1 : buf[i] = Written - Len(wire) - end + i
  BY DEF BytesInOrder
<1>3. CASE start = end
  <2>1. c.buf = buf /\ c.start = 0 /\ c.end = 0
    BY <1>3 DEF Compact
  <2> QED
    BY <1>1, <1>3, <2>1
<1>4. CASE start # end /\ end = Cap
  <2> DEFINE moved == [i \in Slots |-> IF start + i < end THEN buf[start + i] ELSE buf[i]]
  <2>1. c.buf = moved /\ c.start = 0 /\ c.end = end - start
    BY <1>4 DEF Compact
  <2>2. moved \in [Slots -> Nat]
    BY <1>1, <1>4 DEF Slots
  <2>3. ASSUME NEW i \in 0 .. (end - start) - 1
        PROVE  moved[i] = Written - Len(wire) - (end - start) + i
    <3>1. i \in Slots /\ start + i < end /\ start + i \in start .. end - 1
      BY <1>1 DEF Slots
    <3>2. moved[i] = buf[start + i]
      BY <3>1
    <3>3. buf[start + i] = Written - Len(wire) - end + (start + i)
      BY <1>2, <3>1
    <3> QED
      BY <1>1, <3>2, <3>3
  <2> HIDE DEF moved
  <2> QED
    BY <1>1, <2>1, <2>2, <2>3
<1>5. CASE start # end /\ end # Cap
  <2>1. c.buf = buf /\ c.start = start /\ c.end = end
    BY <1>5 DEF Compact
  <2> QED
    BY <1>1, <1>2, <1>5, <2>1
<1> QED
  BY <1>3, <1>4, <1>5

\* fill_once moves bytes from the wire to the buffer, in order.
LEMMA FillKeeps ==
    ASSUME IInv, Fill
    PROVE  IInv' /\ Written' = Written
<1> USE SizesAssumption
<1>1. TypeOK /\ CursorInBatch /\ BytesInOrder /\ RoomToFill /\ rx = "fill"
  BY DEF IInv, Fill
<1>2. PICK b, s, e : b = Compact.buf /\ s = Compact.start /\ e = Compact.end
  OBVIOUS
<1>3. PICK n \in 0 .. Len(wire) :
        /\ e + n <= Cap
        /\ buf' = [i \in Slots |-> IF i \in e .. e + n - 1
                                   THEN wire[i - e + 1] ELSE b[i]]
        /\ end' = e + n
        /\ wire' = SubSeq(wire, n + 1, Len(wire))
  BY <1>2 DEF Fill
<1>4. /\ UNCHANGED <<total, blocking, tx, seq, msgs, idx, off, rst, count, frames>>
      /\ start' = s
      /\ rx' = IF e = Cap THEN "failed" ELSE "take"
  BY <1>2 DEF Fill, txVars
<1>5. /\ b \in [Slots -> Nat] /\ s \in Nat /\ e \in Nat
      /\ s <= e /\ e < Cap /\ e - s = end - start
      /\ \A i \in s .. e - 1 : b[i] = Written - Len(wire) - e + i
  BY <1>1, <1>2, CompactKeeps
<1>6. Written' = Written /\ Written \in Nat
  BY <1>1, <1>4, WrittenBounded DEF Written
<1>7. wire \in Seq(Nat) /\ Len(wire) \in Nat /\ start \in Nat /\ end \in Nat
  BY <1>1 DEF TypeOK
<1>8. /\ n \in Nat /\ n <= Len(wire) /\ e + n <= Cap /\ end' = e + n /\ start' = s
      /\ s \in Nat /\ e \in Nat /\ s <= e /\ e < Cap /\ e - s = end - start
      /\ Cap \in Nat /\ Len(wire) \in Nat /\ start \in Nat /\ end \in Nat /\ Written \in Nat
  BY <1>3, <1>4, <1>5, <1>6, <1>7
<1>9. \A i \in 1 .. Len(wire) : wire[i] \in Nat /\ wire[i] = Written - Len(wire) + i - 1
  BY <1>1, <1>7, ElementOfSeq DEF BytesInOrder
<1>10. /\ wire' \in Seq(Nat) /\ Len(wire') = Len(wire) - n
      /\ \A i \in 1 .. Len(wire) - n : wire'[i] = wire[n + i]
  BY <1>3, <1>7
<1>11. buf' \in [Slots -> Nat]
  <2>1. ASSUME NEW i \in Slots, i \in e .. e + n - 1
        PROVE  wire[i - e + 1] \in Nat
    <3>1. i - e + 1 \in 1 .. Len(wire)
      BY <1>8, <2>1
    <3> QED
      BY <1>9, <3>1
  <2>2. \A i \in Slots : b[i] \in Nat
    BY <1>5
  <2> QED
    BY <1>3, <2>1, <2>2
<1>12. TypeOK'
  <2>1. start' \in Nat /\ end' \in Nat /\ start' <= end' /\ end' <= Cap
    BY <1>8
  <2>2. rx' = "take"
    BY <1>4, <1>5
  <2> QED
    BY <1>1, <1>4, <1>10, <1>11, <2>1, <2>2 DEF TypeOK
<1>13. BytesInOrder'
  <2>1. ASSUME NEW i \in 1 .. Len(wire')
        PROVE  wire'[i] = Written - Len(wire') + i - 1
    <3>1. wire'[i] = wire[n + i] /\ n + i \in 1 .. Len(wire)
      BY <1>8, <1>10
    <3>2. wire[n + i] = Written - Len(wire) + (n + i) - 1
      BY <1>9, <3>1
    <3> QED
      BY <1>8, <1>10, <3>1, <3>2
  <2>2. ASSUME NEW i \in start' .. end' - 1
        PROVE  buf'[i] = Written - Len(wire') - end' + i
    <3>1. i \in s .. e + n - 1 /\ i \in Slots
      BY <1>8 DEF Slots
    <3>2. CASE i \in e .. e + n - 1
      <4>1. buf'[i] = wire[i - e + 1]
        BY <1>3, <3>1, <3>2
      <4>2. i - e + 1 \in 1 .. Len(wire)
        BY <1>8, <3>2
      <4>3. wire[i - e + 1] = Written - Len(wire) + (i - e + 1) - 1
        BY <1>9, <4>2
      <4>4. Written - Len(wire) + (i - e + 1) - 1 = Written - (Len(wire) - n) - (e + n) + i
        BY <1>8, <3>2
      <4> QED
        BY <1>8, <1>10, <4>1, <4>3, <4>4
    <3>3. CASE i \in s .. e - 1
      <4>1. i \notin e .. e + n - 1
        BY <1>8, <3>3
      <4>2. buf'[i] = b[i]
        BY <1>3, <3>1, <4>1
      <4>3. b[i] = Written - Len(wire) - e + i
        BY <1>5, <3>3
      <4>4. Written - Len(wire) - e + i = Written - (Len(wire) - n) - (e + n) + i
        BY <1>8, <3>3
      <4> QED
        BY <1>8, <1>10, <4>2, <4>3, <4>4
    <3> QED
      BY <1>8, <3>1, <3>2, <3>3
  <2> QED
    BY <1>6, <2>1, <2>2 DEF BytesInOrder
<1>14. Consumed' = Consumed
  BY <1>8, <1>6, <1>10 DEF Consumed
<1>15. CursorInBatch' /\ RoomToFill' /\ BufferNeverFull'
  BY <1>1, <1>4, <1>5 DEF CursorInBatch, RoomToFill, BufferNeverFull
<1> QED
  BY <1>4, <1>6, <1>12, <1>13, <1>14, <1>15, FramesKept DEF IInv

\* fill_once finds nothing: the buffer is compacted, and that is all.
LEMMA FillNothingKeeps ==
    ASSUME IInv, FillNothing
    PROVE  IInv' /\ Written' = Written
<1> USE SizesAssumption
<1>1. TypeOK /\ CursorInBatch /\ BytesInOrder /\ RoomToFill /\ rx = "fill"
  BY DEF IInv, FillNothing
<1>2. PICK c : c = Compact
  OBVIOUS
<1>3. /\ buf' = c.buf /\ start' = c.start /\ end' = c.end
      /\ rx' = IF tx # "closed" THEN "take" ELSE IF rst THEN "failed" ELSE "closed"
      /\ UNCHANGED <<total, blocking, tx, seq, msgs, idx, off, wire, rst, count, frames>>
  BY <1>2 DEF FillNothing, txVars
<1>4. /\ c.buf \in [Slots -> Nat] /\ c.start \in Nat /\ c.end \in Nat
      /\ c.start <= c.end /\ c.end < Cap /\ c.end - c.start = end - start
      /\ \A i \in c.start .. c.end - 1 : c.buf[i] = Written - Len(wire) - c.end + i
  BY <1>1, <1>2, CompactKeeps
<1>5. Written' = Written
  BY <1>3 DEF Written
<1>6. TypeOK'
  BY <1>1, <1>3, <1>4 DEF TypeOK
<1>7. BytesInOrder'
  BY <1>1, <1>3, <1>4, <1>5 DEF BytesInOrder
<1>8. Consumed' = Consumed
  BY <1>3, <1>4, <1>5 DEF Consumed
<1>9. CursorInBatch' /\ RoomToFill' /\ BufferNeverFull'
  BY <1>1, <1>3 DEF CursorInBatch, RoomToFill, BufferNeverFull
<1> QED
  BY <1>3, <1>5, <1>6, <1>7, <1>8, <1>9, FramesKept DEF IInv

\* What take_one finds at an unconsumed byte, as a position of the stream.
LEMMA DecodedAt ==
    ASSUME IInv, NEW s \in start .. end - 1
    PROVE  /\ buf[s] \in Nat /\ buf[s] = Consumed + (s - start)
           /\ buf[s] \div MessageBytes \in Numbers
           /\ Decoded(s) \in Nat
           /\ Decoded(s) # 0 => /\ buf[s] = (buf[s] \div MessageBytes) * MessageBytes
                                /\ buf[s] % MessageBytes = 0
                                /\ Decoded(s) = total[buf[s] \div MessageBytes]
<1> USE SizesAssumption, BatchAssumption
<1>1. TypeOK /\ CursorInBatch /\ BytesInOrder
  BY DEF IInv
<1>2. /\ start \in Nat /\ end \in Nat /\ end <= Cap /\ Len(wire) \in Nat /\ Written \in Nat
      /\ MessageBytes \in Nat \ {0}
  BY <1>1, WrittenBounded DEF TypeOK
<1>3. buf[s] \in Nat
  <2>1. s \in Slots
    BY <1>2 DEF Slots
  <2> QED
    BY <1>1, <2>1 DEF TypeOK
<1>4. buf[s] = Written - Len(wire) - end + s
  BY <1>1 DEF BytesInOrder
<1>5. buf[s] = Consumed + (s - start) /\ buf[s] < Written
  BY <1>2, <1>4 DEF Consumed
<1> DEFINE k == buf[s] \div MessageBytes
           p == k * MessageBytes
           Q == MaxMsgs * MessageBytes
<1>6. k \in Nat /\ buf[s] % MessageBytes \in Nat /\ buf[s] = p + (buf[s] % MessageBytes)
  <2>1. PICK a \in Nat : a = buf[s]
    BY <1>3
  <2>2. /\ a \div MessageBytes \in Nat /\ a % MessageBytes \in 0 .. MessageBytes - 1
        /\ a = (a \div MessageBytes) * MessageBytes + (a % MessageBytes)
    BY <1>2, DivMod
  <2>3. a % MessageBytes \in Nat
    BY <1>2, <2>2
  <2> QED
    BY <2>1, <2>2, <2>3
<1>7. p < Q => k < MaxMsgs
  BY <1>2, <1>6, MulLess
<1>8. p \in Int /\ Q \in Int /\ Written <= Q
  BY <1>1, <1>2, <1>6, WrittenBounded
<1>9. k \in Numbers
  <2> HIDE DEF k, p, Q
  <2>1. p < Q
    BY <1>2, <1>3, <1>5, <1>6, <1>8
  <2> QED
    BY <1>6, <1>7, <2>1 DEF Numbers
<1>10. Decoded(s) = IF buf[s] % MessageBytes = 0 THEN total[k] ELSE 0
  BY DEF Decoded
<1>11. total[k] \in Nat
  BY <1>1, <1>9 DEF TypeOK
<1> HIDE DEF k, p
<1>12. Decoded(s) \in Nat
  BY <1>10, <1>11
<1>13. Decoded(s) # 0 => buf[s] = p /\ buf[s] % MessageBytes = 0 /\ Decoded(s) = total[k]
  BY <1>3, <1>6, <1>8, <1>10
<1> QED
  BY <1>3, <1>5, <1>9, <1>12, <1>13 DEF k, p

\* The first byte of an intact message stops the rescan.
LEMMA IntactStops ==
    ASSUME IInv, NEW k \in Numbers \ Damaged, NEW t \in start .. end - 1,
           buf[t] = k * MessageBytes
    PROVE  Stops(t)
<1> USE SizesAssumption, BatchAssumption
<1>1. k \in Int /\ MessageBytes \in Nat \ {0} /\ k * MessageBytes \in Int /\ buf[t] \in Nat
  BY DecodedAt DEF Numbers
<1>2. buf[t] \div MessageBytes = k /\ buf[t] % MessageBytes = 0
  <2> DEFINE p == k * MessageBytes
  <2>1. p \in Int /\ buf[t] = p
    BY <1>1
  <2>2. p <= buf[t] /\ buf[t] < p + MessageBytes => buf[t] \div MessageBytes = k /\ buf[t] % MessageBytes = buf[t] - p
    BY <1>1, DivUnique
  <2> HIDE DEF p
  <2> QED
    BY <1>1, <2>1, <2>2
<1>3. Decoded(t) = MessageBytes
  BY <1>2 DEF Decoded, Damaged
<1> QED
  BY <1>3 DEF Stops, Plausible

\* The rescan from start to s passes over no intact message.
LEMMA RescanMissesNothing ==
    ASSUME IInv, NEW s \in start .. end, \A t \in start .. s - 1 : ~Stops(t)
    PROVE  /\ Consumed \in Nat /\ start \in Nat /\ end \in Nat
           /\ \A k \in Numbers \ Damaged :
                k * MessageBytes < Consumed + (s - start) => k * MessageBytes < Consumed
<1> USE SizesAssumption, BatchAssumption
<1>1. start \in Nat /\ end \in Nat /\ Consumed \in Nat
  <2>1. TypeOK /\ CursorInBatch /\ Consumed >= 0
    BY DEF IInv
  <2>2. start \in Nat /\ end \in Nat /\ Len(wire) \in Nat /\ Written \in Nat
    BY <2>1, WrittenBounded DEF TypeOK
  <2>3. Consumed \in Int
    BY <2>2 DEF Consumed
  <2> QED
    BY <2>1, <2>2, <2>3
<1>2. SUFFICES ASSUME NEW k \in Numbers \ Damaged, NEW p \in Int, p = k * MessageBytes,
                      p < Consumed + (s - start), ~(p < Consumed)
               PROVE  FALSE
  BY <1>1 DEF Numbers
<1> DEFINE t == start + (p - Consumed)
<1>3. t \in start .. s - 1 /\ t \in start .. end - 1 /\ p = Consumed + (t - start)
  BY <1>1, <1>2
<1> HIDE DEF t
<1>4. buf[t] = k * MessageBytes
  BY <1>2, <1>3, DecodedAt
<1>5. Stops(t)
  BY <1>3, <1>4, IntactStops
<1> QED
  BY <1>3, <1>5

\* What a step of take_one leaves alone.
LEMMA TakeLeaves ==
    ASSUME IInv, UNCHANGED <<total, blocking, txVars, wire, rst, buf, end>>
    PROVE  /\ Written' = Written /\ CursorInBatch'
           /\ start' \in Nat => Consumed' = Consumed + (start' - start)
<1>1. TypeOK /\ CursorInBatch
  BY DEF IInv
<1>2. start \in Nat /\ end \in Nat /\ Len(wire) \in Nat /\ Written \in Nat
  BY <1>1, WrittenBounded DEF TypeOK
<1>3. Written' = Written /\ CursorInBatch'
  BY <1>1 DEF Written, CursorInBatch, txVars
<1> QED
  BY <1>2, <1>3 DEF Consumed

\* Frames are pairs of numbers.
LEMMA FrameTyped ==
    ASSUME TypeOK
    PROVE  /\ frames \in Seq([first : Nat, len : Nat]) /\ DOMAIN frames = 1 .. Len(frames)
           /\ Len(frames) \in Nat
           /\ \A i \in DOMAIN frames : frames[i].first \in Nat /\ frames[i].len \in Nat
<1>1. frames \in Seq([first : Nat, len : Nat])
  BY DEF TypeOK
<1>2. DOMAIN frames = 1 .. Len(frames) /\ Len(frames) \in Nat
  BY <1>1
<1>3. \A i \in DOMAIN frames : frames[i] \in [first : Nat, len : Nat]
  BY <1>1, <1>2, ElementOfSeq
<1> QED
  BY <1>1, <1>2, <1>3

\* take_one finds no complete message: only bytes where no intact message starts go.
LEMMA TakeNoneKeeps ==
    ASSUME IInv, rx = "take", NEW s \in start .. end, Stops(s),
           \A t \in start .. s - 1 : ~Stops(t), TakeNone(s),
           UNCHANGED <<total, blocking, txVars, wire, rst, buf, end>>
    PROVE  IInv' /\ Written' = Written /\ UNCHANGED frames
<1> USE SizesAssumption, BatchAssumption
<1>1. /\ TypeOK /\ start' = s /\ count' = 0 /\ UNCHANGED frames
      /\ rx' = (IF count = 0 THEN "fill" ELSE "take") /\ Incomplete(s)
  BY DEF IInv, TakeNone
<1>2. /\ Consumed \in Nat /\ start \in Nat /\ end \in Nat
      /\ \A k \in Numbers \ Damaged :
           k * MessageBytes < Consumed + (s - start) => k * MessageBytes < Consumed
  BY RescanMissesNothing
<1>3. s \in Nat /\ start <= s /\ s <= end /\ end <= Cap
  BY <1>1, <1>2 DEF TypeOK
<1>4. Written' = Written /\ CursorInBatch' /\ Consumed' = Consumed + (s - start)
  BY <1>1, <1>3, TakeLeaves
<1>5. Consumed' \in Nat /\ Consumed <= Consumed'
  BY <1>2, <1>3, <1>4
<1>6. TypeOK'
  BY <1>1, <1>3 DEF TypeOK, txVars
<1>7. BytesInOrder'
  <2>1. \A i \in s .. end - 1 : i \in start .. end - 1
    BY <1>2, <1>3
  <2> QED
    BY <1>1, <1>4, <2>1 DEF IInv, BytesInOrder
<1>8. RoomToFill'
  <2>1. CASE end - s >= HEADER_LEN
    <3>1. s \in start .. end - 1
      BY <1>2, <1>3, <2>1
    <3>2. end - s < Decoded(s) /\ Decoded(s) <= Cap /\ Decoded(s) \in Nat
      BY <1>1, <2>1, <3>1, DecodedAt DEF Stops, Incomplete, Plausible
    <3>3. end - s < Cap
      BY <1>2, <1>3, <3>2
    <3> QED
      BY <1>1, <3>3 DEF RoomToFill
  <2>2. CASE ~(end - s >= HEADER_LEN)
    <3>1. end - s < Cap
      BY <1>2, <1>3, <2>2
    <3> QED
      BY <1>1, <3>1 DEF RoomToFill
  <2> QED
    BY <2>1, <2>2
<1>9. BufferNeverFull'
  BY <1>1 DEF BufferNeverFull
<1>10. FramesBehind'
  <2>1. \A i \in DOMAIN frames : frames[i].first \in Nat /\ frames[i].len \in Nat
    BY <1>1, FrameTyped
  <2>2. \A i \in DOMAIN frames : frames[i].first + frames[i].len <= Consumed'
    BY <1>2, <1>5, <2>1 DEF IInv, FramesBehind
  <2> QED
    BY <1>1, <2>2 DEF IInv, FramesBehind, Number
<1>11. NoneSkipped'
  <2>1. ASSUME NEW k \in Numbers \ Damaged, k * MessageBytes < Consumed'
        PROVE  (\E i \in DOMAIN frames : Number(frames[i]) = k) \/ Swallowed(k)
    <3>1. k * MessageBytes < Consumed
      BY <1>2, <1>4, <2>1
    <3> QED
      BY <3>1 DEF IInv, NoneSkipped
  <2> QED
    BY <1>1, <2>1 DEF NoneSkipped, Swallowed, Damaged, Number
<1> QED
  BY <1>1, <1>4, <1>5, <1>6, <1>7, <1>8, <1>9, <1>10, <1>11 DEF IInv

\* take_one hands out the message at s: it starts where its number says, it is as long as
\* its header declares, and every frame before it lies before it.
LEMMA TakeOneKeeps ==
    ASSUME IInv, rx = "take", NEW s \in start .. end, Stops(s),
           \A t \in start .. s - 1 : ~Stops(t), TakeOne(s),
           UNCHANGED <<total, blocking, txVars, wire, rst, buf, end>>,
           NEW f, f = [first |-> buf[s], len |-> Decoded(s)]
    PROVE  /\ IInv' /\ Written' = Written
           /\ frames' = Append(frames, f) /\ f.first \in Nat /\ f.len \in Nat
           /\ Number(f) \in Numbers /\ f.first = Number(f) * MessageBytes
           /\ f.len = total[Number(f)] /\ f.first + f.len <= Written /\ Consumed <= f.first
<1> USE SizesAssumption, BatchAssumption
<1>1. /\ TypeOK /\ CursorInBatch /\ start' = s + Decoded(s) /\ count' = (count + 1) % RxBatch
      /\ UNCHANGED rx /\ frames' = Append(frames, f) /\ ~Incomplete(s)
  BY DEF IInv, TakeOne, NextStart
<1>2. /\ Consumed \in Nat /\ start \in Nat /\ end \in Nat
      /\ \A k \in Numbers \ Damaged :
           k * MessageBytes < Consumed + (s - start) => k * MessageBytes < Consumed
  BY RescanMissesNothing
<1>3. /\ s \in Nat /\ start <= s /\ s <= end /\ end <= Cap
      /\ Len(wire) \in Nat /\ Written \in Nat
  BY <1>1, <1>2, WrittenBounded DEF TypeOK
<1>4. s \in start .. end - 1 /\ end - s >= HEADER_LEN
  BY <1>1, <1>2, <1>3 DEF Incomplete
<1>5. Decoded(s) # 0 /\ Decoded(s) <= Cap /\ ~(end - s < Decoded(s))
  BY <1>1, <1>4 DEF Incomplete, Stops, Plausible
<1>6. /\ f.first = buf[s] /\ f.len = Decoded(s)
      /\ f.first \in Nat /\ f.len \in Nat /\ f.first = Consumed + (s - start)
      /\ Number(f) \in Numbers /\ f.first = Number(f) * MessageBytes
      /\ f.first % MessageBytes = 0 /\ f.len = total[Number(f)]
  BY <1>4, <1>5, DecodedAt DEF Number
<1>7. PICK a \in Nat, l \in Nat : a = f.first /\ l = f.len
  BY <1>6
<1>8. a = Consumed + (s - start) /\ l = Decoded(s)
  BY <1>6, <1>7
<1>9. start' = s + l /\ start' \in Nat /\ start' <= end /\ start <= start'
  BY <1>1, <1>2, <1>3, <1>5, <1>8
<1>10. Written' = Written /\ CursorInBatch' /\ Consumed' = Consumed + (start' - start)
  BY <1>1, <1>9, TakeLeaves
<1>11. /\ Consumed' = a + l /\ Consumed <= a
      /\ Consumed <= Consumed' /\ Consumed' \in Nat
  <2>1. Consumed \in Nat /\ start \in Nat /\ s \in Nat /\ start <= s
    BY <1>2, <1>3
  <2>2. Consumed' = Consumed + ((s + l) - start)
    BY <1>9, <1>10
  <2>3. Consumed + ((s + l) - start) = a + l /\ Consumed <= a
    BY <1>8, <2>1
  <2> QED
    BY <1>7, <2>1, <2>2, <2>3
<1>12. Consumed' <= Written
  <2>1. Consumed = Written - Len(wire) - (end - start)
    BY DEF Consumed
  <2> QED
    BY <1>2, <1>3, <1>9, <1>10, <2>1
<1>13. /\ frames' \in Seq([first : Nat, len : Nat]) /\ Len(frames) \in Nat
       /\ DOMAIN frames = 1 .. Len(frames) /\ DOMAIN frames' = 1 .. Len(frames) + 1
       /\ \A i \in 1 .. Len(frames) : frames'[i] = frames[i]
       /\ frames'[Len(frames) + 1] = f
  <2>1. f \in [first : Nat, len : Nat]
    BY <1>6
  <2>2. frames \in Seq([first : Nat, len : Nat]) /\ Len(frames) \in Nat /\ DOMAIN frames = 1 .. Len(frames)
    BY <1>1, FrameTyped
  <2>3. /\ Append(frames, f) \in Seq([first : Nat, len : Nat])
        /\ Len(Append(frames, f)) = Len(frames) + 1
        /\ \A i \in 1 .. Len(frames) : Append(frames, f)[i] = frames[i]
        /\ Append(frames, f)[Len(frames) + 1] = f
    BY <2>1, <2>2, AppendProperties
  <2> QED
    BY <1>1, <2>2, <2>3
<1>14. TypeOK'
  <2>1. count' \in Nat
    BY <1>1 DEF TypeOK
  <2> QED
    BY <1>1, <1>3, <1>9, <1>13, <2>1 DEF TypeOK, txVars
<1>15. BytesInOrder'
  <2>1. \A i \in start' .. end - 1 : i \in start .. end - 1
    BY <1>2, <1>9
  <2> QED
    BY <1>10, <2>1 DEF IInv, BytesInOrder
<1>16. RoomToFill' /\ BufferNeverFull'
  BY <1>1 DEF RoomToFill, BufferNeverFull
<1>17. FramesBehind'
  <2>1. \A i \in DOMAIN frames : frames[i].first \in Nat /\ frames[i].len \in Nat
    BY <1>1, FrameTyped
  <2>2. \A i \in DOMAIN frames : frames[i].first + frames[i].len <= Consumed
    BY DEF IInv, FramesBehind
  <2>3. ASSUME NEW i \in DOMAIN frames'
        PROVE  /\ frames'[i].first % MessageBytes = 0
               /\ Number(frames'[i]) \in Numbers
               /\ frames'[i].len = total[Number(frames'[i])]
               /\ frames'[i].first + frames'[i].len <= Consumed'
    <3>1. CASE i \in DOMAIN frames
      <4>1. frames'[i] = frames[i]
        BY <1>13, <3>1
      <4>2. frames[i].first + frames[i].len <= Consumed'
        BY <1>2, <1>11, <2>1, <2>2, <3>1
      <4> QED
        BY <3>1, <4>1, <4>2 DEF IInv, FramesBehind
    <3>2. CASE i = Len(frames) + 1
      <4>1. frames'[i] = f
        BY <1>13, <3>2
      <4>2. f.first + f.len <= Consumed'
        BY <1>11, <1>7
      <4> QED
        BY <1>6, <4>1, <4>2
    <3> QED
      BY <1>13, <3>1, <3>2
  <2>4. ASSUME NEW i \in DOMAIN frames', NEW j \in DOMAIN frames', i < j
        PROVE  frames'[i].first + frames'[i].len <= frames'[j].first
    <3>1. i \in DOMAIN frames /\ frames'[i] = frames[i]
      BY <1>13, <2>4
    <3>2. CASE j \in DOMAIN frames
      BY <1>13, <2>4, <3>1, <3>2 DEF IInv, FramesBehind
    <3>3. CASE j = Len(frames) + 1
      <4>1. frames'[j].first = a
        BY <1>13, <1>7, <3>3
      <4> QED
        BY <1>2, <1>11, <2>1, <2>2, <3>1, <4>1
    <3> QED
      BY <1>13, <3>2, <3>3
  <2> QED
    BY <2>3, <2>4 DEF FramesBehind, Number
<1>18. NoneSkipped'
  <2>1. SUFFICES ASSUME NEW k \in Numbers \ Damaged, NEW p \in Int, p = k * MessageBytes,
                        p < Consumed'
                 PROVE  (\E i \in DOMAIN frames' : Number(frames'[i]) = k) \/ Swallowed(k)'
    BY DEF NoneSkipped, Number, Damaged, Numbers
  <2>2. CASE p < a
    <3>1. p < Consumed
      BY <1>2, <1>8, <2>1, <2>2
    <3>2. (\E i \in DOMAIN frames : Number(frames[i]) = k) \/ Swallowed(k)
      BY <2>1, <3>1 DEF IInv, NoneSkipped
    <3>3. \A i \in DOMAIN frames : i \in DOMAIN frames' /\ frames'[i] = frames[i]
      BY <1>13
    <3> QED
      BY <3>2, <3>3 DEF Swallowed, Number, Damaged
  <2> DEFINE j == Number(f)
  <2>3. k \in Int /\ j \in Int /\ MessageBytes \in Nat \ {0} /\ a = j * MessageBytes
    <3>1. k \in Int /\ j \in Int /\ MessageBytes \in Nat \ {0}
      BY <1>6 DEF Numbers
    <3> QED
      BY <1>6, <1>7, <3>1
  <2> HIDE DEF j
  <2>4. CASE p = a
    <3>1. j = k
      BY <2>1, <2>3, <2>4, MulLess
    <3> QED
      BY <1>13, <3>1 DEF j
  <2>5. CASE a < p /\ j \in Damaged
    <3>1. /\ Len(frames) + 1 \in DOMAIN frames' /\ frames'[Len(frames) + 1] = f
          /\ Number(f) \in Damaged
      BY <1>13, <2>5 DEF j
    <3>2. f.first < k * MessageBytes /\ k * MessageBytes < f.first + f.len
      BY <1>11, <1>7, <2>1, <2>5
    <3> QED
      BY <3>1, <3>2 DEF Swallowed, Number, Damaged
  <2>6. CASE a < p /\ j \notin Damaged
    <3>1. l = MessageBytes
      BY <1>6, <1>7, <2>6 DEF Damaged, j
    <3>2. a + MessageBytes <= p
      <4>1. k * MessageBytes \in Int /\ (j < k <=> j * MessageBytes < k * MessageBytes)
            /\ (j < k <=> j * MessageBytes + MessageBytes <= k * MessageBytes)
        BY <2>3, MulLess
      <4> QED
        BY <2>1, <2>3, <2>6, <4>1
    <3> QED
      BY <1>11, <2>1, <3>1, <3>2
  <2> QED
    BY <2>1, <2>2, <2>4, <2>5, <2>6
<1> QED
  <2>1. IInv'
    BY <1>10, <1>11, <1>14, <1>15, <1>16, <1>17, <1>18 DEF IInv
  <2>2. f.first + f.len <= Written /\ Consumed <= f.first
    BY <1>11, <1>12, <1>7
  <2> QED
    BY <1>1, <1>6, <1>10, <2>1, <2>2

\* The step of a reader that looks for a message, by what take_one returns.
LEMMA TakeCases ==
    ASSUME Take
    PROVE  /\ rx = "take" /\ UNCHANGED <<total, blocking, txVars, wire, rst, buf, end>>
           /\ \E s \in start .. end :
                /\ Stops(s) /\ \A t \in start .. s - 1 : ~Stops(t)
                /\ TakeOne(s) \/ TakeNone(s)
  BY DEF Take

\* Every step keeps the invariant, and the position never moves back.
LEMMA NextIInv == IInv /\ [Next]_vars => IInv'
<1> SUFFICES ASSUME IInv, [Next]_vars PROVE IInv'
  OBVIOUS
<1>1. CASE SendBatch \/ WritevWouldBlock \/ WritevError \/ Close
  BY <1>1, QuietSendKeeps
<1>2. CASE Writev
  BY <1>2, WritevKeeps
<1>3. CASE Take
  <2>1. PICK s \in start .. end :
          /\ Stops(s) /\ \A t \in start .. s - 1 : ~Stops(t)
          /\ TakeOne(s) \/ TakeNone(s)
    BY <1>3, TakeCases
  <2>2. rx = "take" /\ UNCHANGED <<total, blocking, txVars, wire, rst, buf, end>>
    BY <1>3, TakeCases
  <2>3. CASE TakeOne(s)
    BY <2>1, <2>2, <2>3, TakeOneKeeps
  <2>4. CASE TakeNone(s)
    BY <2>1, <2>2, <2>4, TakeNoneKeeps
  <2> QED
    BY <2>1, <2>3, <2>4
<1>4. CASE Fill
  BY <1>4, FillKeeps
<1>5. CASE FillNothing
  BY <1>5, FillNothingKeeps
<1>6. CASE UNCHANGED vars
  <2>1. /\ UNCHANGED <<total, blocking, tx, seq, msgs, idx, off, wire, rst>>
        /\ UNCHANGED <<rx, buf, start, end, count, frames>>
    BY <1>6 DEF vars, txVars, rxVars
  <2>2. Written' = Written
    BY <2>1 DEF Written
  <2>3. TypeOK' /\ CursorInBatch' /\ RoomToFill' /\ BufferNeverFull'
    BY <2>1 DEF IInv, TypeOK, CursorInBatch, RoomToFill, BufferNeverFull
  <2> QED
    BY <2>1, <2>2, <2>3, StreamKept DEF IInv
<1> QED
  BY <1>1, <1>2, <1>3, <1>4, <1>5, <1>6 DEF Next, TxStep, RxStep, Finished

\* The invariant says what the runs check.
LEMMA IInvImplies == IInv => DamageIsContained
<1> SUFFICES ASSUME IInv PROVE DamageIsContained
  OBVIOUS
<1>1. \A i \in DOMAIN frames :
        /\ frames[i].first % MessageBytes = 0
        /\ Number(frames[i]) \notin Damaged => frames[i].len = MessageBytes
  BY DEF IInv, FramesBehind, Damaged
<1>2. \A i, j \in DOMAIN frames :
        i < j => frames[i].first + frames[i].len <= frames[j].first
  BY DEF IInv, FramesBehind
<1>3. ASSUME NEW k \in Numbers \ Damaged, (k + 1) * MessageBytes <= Consumed
      PROVE  (\E i \in DOMAIN frames : Number(frames[i]) = k) \/ Swallowed(k)
  <2>1. k \in Int /\ k + 1 \in Int /\ MessageBytes \in Nat \ {0} /\ k < k + 1
    BY SizesAssumption, BatchAssumption DEF Numbers
  <2>2. k * MessageBytes \in Int /\ (k + 1) * MessageBytes \in Int
        /\ k * MessageBytes < (k + 1) * MessageBytes
    BY <2>1, MulLess
  <2>3. Consumed \in Int
    <3>1. start \in Nat /\ end \in Nat /\ Len(wire) \in Nat /\ Written \in Nat
      BY WrittenBounded DEF IInv, TypeOK
    <3> QED
      BY <3>1 DEF Consumed
  <2>4. k * MessageBytes < Consumed
    BY <1>3, <2>2, <2>3
  <2> QED
    BY <2>4 DEF IInv, NoneSkipped
<1> QED
  BY <1>1, <1>2, <1>3 DEF DamageIsContained

\* The invariant holds in every reachable state.
LEMMA Invariance == Spec => []IInv
  BY InitIInv, NextIInv, PTL DEF Spec

\* The cursors of the reader stay in order and inside the buffer (FramedReader).
THEOREM TypeCorrect == Spec => []TypeOK
<1>1. IInv => TypeOK
  BY DEF IInv
<1> QED
  BY <1>1, Invariance, PTL

\* The stream is what was sent (writev_full, fill_once): for any sizes of messages, socket
\* buffer, iovec array and batch, no byte is sent twice, skipped or overwritten.
THEOREM StreamIsWhatWasSent == Spec => []BytesInOrder
<1>1. IInv => BytesInOrder
  BY DEF IInv
<1> QED
  BY <1>1, Invariance, PTL

\* "Cannot happen with the capacity chosen in `new`" (fill_once): whatever lengths damaged
\* headers declare, the reader never finds its buffer full without a complete message.
THEOREM NeverFull == Spec => []BufferNeverFull
<1>1. IInv => BufferNeverFull
  BY DEF IInv
<1> QED
  BY <1>1, Invariance, PTL

\* Framing recovers from damage (take_one): an intact message behind the read position was
\* handed out, exactly and in order, unless a damaged header's length swallowed its start.
THEOREM DamageContained == Spec => []DamageIsContained
  BY Invariance, IInvImplies, PTL

(***************************************************************************)
(* The byte stream implements the message channel.                         *)
(***************************************************************************)

\* Positions in order belong to messages in order.
LEMMA DivMono ==
    ASSUME NEW a \in Nat, NEW b \in Nat, NEW m \in Nat \ {0}, a <= b
    PROVE  a \div m <= b \div m
<1> DEFINE x == a \div m
           y == b \div m
<1>1. x \in Nat /\ y \in Nat /\ x * m <= a /\ b < y * m + m
  <2>1. x \in Nat /\ a % m \in 0 .. m - 1 /\ a = x * m + (a % m)
    BY DivMod
  <2>2. y \in Nat /\ b % m \in 0 .. m - 1 /\ b = y * m + (b % m)
    BY DivMod
  <2> HIDE DEF x, y
  <2>3. x * m \in Int /\ y * m \in Int
    BY <2>1, <2>2
  <2> QED
    BY <2>1, <2>2, <2>3
<1> HIDE DEF x, y
<1>2. x * m \in Int /\ y * m \in Int /\ (y < x <=> y * m + m <= x * m)
  BY <1>1, MulLess
<1>3. ~(y < x)
  BY <1>1, <1>2
<1> QED
  BY <1>1, <1>3 DEF x, y

\* A new connection is an empty channel.
LEMMA InitRefines == Init => Channel!Init
<1> SUFFICES ASSUME Init PROVE Channel!Init
  OBVIOUS
<1>1. Written = 0 /\ DOMAIN frames = {}
  BY SizesAssumption DEF Init, Written
<1>2. Written \div MessageBytes = 0
  BY <1>1, SizesAssumption
<1>3. HandedOut = {}
  BY <1>1 DEF HandedOut
<1> QED
  BY <1>2, <1>3 DEF Channel!Init

\* The channel sees nothing of a step that completes no message and hands none out, and a
\* Send when a writev completes some.
LEMMA SendRefines ==
    ASSUME IInv, IInv', UNCHANGED <<total, frames>>
    PROVE  Written' >= Written =>
             [Channel!Next]_<<Written \div MessageBytes, HandedOut, Damaged # {}>>
<1>1. HandedOut' = HandedOut /\ Damaged' = Damaged
  BY DEF HandedOut, Damaged, Number
<1>2. Written \in Nat /\ Written' \in Nat /\ MessageBytes \in Nat \ {0}
  <2>1. TypeOK /\ CursorInBatch /\ TypeOK' /\ CursorInBatch'
    BY DEF IInv
  <2>2. Written \in Nat
    BY <2>1, WrittenBounded
  <2>3. Written' \in Nat
    <3>1. seq' \in Nat /\ idx' \in Nat /\ off' \in Nat /\ MessageBytes \in Nat
      BY <2>1, SizesAssumption DEF TypeOK
    <3> QED
      BY <3>1, PositionNat DEF Written
  <2> QED
    BY <2>2, <2>3, SizesAssumption
<1> HAVE Written' >= Written
<1> DEFINE x == Written \div MessageBytes
           y == Written' \div MessageBytes
<1>3. x \in Nat /\ y \in Nat /\ x <= y
  BY <1>2, DivMono, DivMod
<1> HIDE DEF x, y
<1>4. x = y \/ y > x
  BY <1>3
<1>5. CASE x = y
  BY <1>1, <1>5 DEF x, y
<1>6. CASE y > x
  <2>1. Channel!Send
    BY <1>1, <1>6 DEF x, y, Channel!Send
  <2> QED
    BY <2>1 DEF Channel!Next
<1> QED
  BY <1>4, <1>5, <1>6

\* What one more frame adds to the messages handed out.
LEMMA HandedOutNext ==
    ASSUME IInv, NEW f, frames' = Append(frames, f), f \in [first : Nat, len : Nat],
           UNCHANGED total
    PROVE  HandedOut' = IF Number(f) \in Damaged THEN HandedOut ELSE HandedOut \cup {Number(f)}
<1>1. /\ frames \in Seq([first : Nat, len : Nat]) /\ DOMAIN frames = 1 .. Len(frames)
      /\ Len(frames) \in Nat
  BY FrameTyped DEF IInv
<1>2. /\ DOMAIN frames' = 1 .. Len(frames) + 1
      /\ \A i \in 1 .. Len(frames) : frames'[i] = frames[i]
      /\ frames'[Len(frames) + 1] = f
  <2>1. /\ Append(frames, f) \in Seq([first : Nat, len : Nat])
        /\ Len(Append(frames, f)) = Len(frames) + 1
        /\ \A i \in 1 .. Len(frames) : Append(frames, f)[i] = frames[i]
        /\ Append(frames, f)[Len(frames) + 1] = f
    BY <1>1, AppendProperties
  <2> QED
    BY <2>1
<1>3. Damaged' = Damaged
  BY DEF Damaged
<1>4. HandedOut' = {Number(frames'[i]) : i \in {j \in DOMAIN frames' : Number(frames'[j]) \notin Damaged}}
  BY <1>3 DEF HandedOut, Number
<1>5. DOMAIN frames' = DOMAIN frames \cup {Len(frames) + 1}
  BY <1>1, <1>2
<1>6. \A i \in DOMAIN frames : frames'[i] = frames[i]
  BY <1>1, <1>2
<1>7. ASSUME NEW n
      PROVE  n \in HandedOut' <=> (n \in HandedOut \/ (n = Number(f) /\ n \notin Damaged))
  <2>1. n \in HandedOut' <=> \E i \in DOMAIN frames' : n = Number(frames'[i]) /\ n \notin Damaged
    BY <1>4
  <2>2. n \in HandedOut <=> \E i \in DOMAIN frames : n = Number(frames[i]) /\ n \notin Damaged
    BY DEF HandedOut
  <2>3. (\E i \in DOMAIN frames' : n = Number(frames'[i]) /\ n \notin Damaged)
          <=> \/ \E i \in DOMAIN frames : n = Number(frames'[i]) /\ n \notin Damaged
              \/ n = Number(f) /\ n \notin Damaged
    BY <1>2, <1>5
  <2>4. (\E i \in DOMAIN frames : n = Number(frames'[i]) /\ n \notin Damaged)
          <=> \E i \in DOMAIN frames : n = Number(frames[i]) /\ n \notin Damaged
    BY <1>6
  <2> QED
    BY <2>1, <2>2, <2>3, <2>4
<1> QED
  BY <1>7

\* take_one hands out the next message of the channel, or one with a damaged header, which
\* is no message of the channel.
LEMMA ReceiveRefines ==
    ASSUME IInv, Take
    PROVE  [Channel!Next]_<<Written \div MessageBytes, HandedOut, Damaged # {}>>
<1> USE SizesAssumption, BatchAssumption
<1>1. PICK s \in start .. end :
        /\ Stops(s) /\ \A t \in start .. s - 1 : ~Stops(t)
        /\ TakeOne(s) \/ TakeNone(s)
  BY TakeCases
<1>2. rx = "take" /\ UNCHANGED <<total, blocking, txVars, wire, rst, buf, end>>
  BY TakeCases
<1>3. Damaged' = Damaged
  BY <1>2 DEF Damaged
<1>4. CASE TakeNone(s)
  <2>1. Written' = Written /\ UNCHANGED frames
    BY <1>1, <1>2, <1>4, TakeNoneKeeps
  <2> QED
    BY <1>2, <1>3, <2>1 DEF HandedOut, Number
<1>5. CASE TakeOne(s)
  <2>1. PICK f : f = [first |-> buf[s], len |-> Decoded(s)]
    OBVIOUS
  <2>2. /\ IInv' /\ Written' = Written
        /\ frames' = Append(frames, f) /\ f.first \in Nat /\ f.len \in Nat
        /\ Number(f) \in Numbers /\ f.first = Number(f) * MessageBytes
        /\ f.len = total[Number(f)] /\ f.first + f.len <= Written /\ Consumed <= f.first
    BY <1>1, <1>2, <1>5, <2>1, TakeOneKeeps
  <2>3. f \in [first : Nat, len : Nat]
    BY <2>1, <2>2
  <2>4. HandedOut' = IF Number(f) \in Damaged THEN HandedOut ELSE HandedOut \cup {Number(f)}
    BY <1>2, <2>2, <2>3, HandedOutNext
  <2>5. CASE Number(f) \in Damaged
    BY <1>3, <2>2, <2>4, <2>5
  <2>6. CASE Number(f) \notin Damaged
    <3> DEFINE n == Number(f)
               sent == Written \div MessageBytes
    <3>1. n \in Nat /\ MessageBytes \in Nat \ {0}
      BY <2>2 DEF Numbers
    <3>2. PICK p \in Int : p = n * MessageBytes
      BY <3>1
    <3>3. f.first = p /\ f.len = MessageBytes
      BY <2>2, <2>6, <3>2 DEF Damaged
    <3>4. p + MessageBytes <= Written /\ Written \in Nat /\ Consumed <= p /\ Consumed \in Int
      <4>1. TypeOK /\ CursorInBatch
        BY DEF IInv
      <4>2. start \in Nat /\ end \in Nat /\ Len(wire) \in Nat /\ Written \in Nat
        BY <4>1, WrittenBounded DEF TypeOK
      <4>3. Consumed \in Int
        BY <4>2 DEF Consumed
      <4> QED
        BY <2>2, <3>3, <4>2, <4>3
    <3>5. n \in 0 .. sent - 1
      <4>1. PICK r \in Nat : r < MessageBytes /\ Written = sent * MessageBytes + r /\ sent \in Nat
        <5>1. /\ sent \in Nat /\ Written % MessageBytes \in 0 .. MessageBytes - 1
              /\ Written = sent * MessageBytes + (Written % MessageBytes)
          BY <3>1, <3>4, DivMod
        <5> HIDE DEF sent
        <5>2. PICK r : r = Written % MessageBytes
          OBVIOUS
        <5>3. r \in Nat /\ r < MessageBytes
          BY <3>1, <5>1, <5>2
        <5> QED
          BY <5>1, <5>2, <5>3
      <4> HIDE DEF n, sent
      <4>2. PICK w \in Int : w = sent * MessageBytes
        BY <3>1, <4>1
      <4>3. p < w
        BY <3>1, <3>4, <4>1, <4>2
      <4>4. n < sent
        BY <3>1, <3>2, <4>1, <4>2, <4>3, MulLess
      <4> QED
        BY <3>1, <4>1, <4>4
    <3>6. \A m \in HandedOut : m < n
      <4> SUFFICES ASSUME NEW m \in HandedOut PROVE m < n
        OBVIOUS
      <4>1. PICK i \in DOMAIN frames : Number(frames[i]) = m /\ m \notin Damaged
        BY DEF HandedOut
      <4>2. /\ frames[i].first % MessageBytes = 0 /\ m \in Numbers
            /\ frames[i].len = total[m] /\ frames[i].first + frames[i].len <= Consumed
        BY <4>1 DEF IInv, FramesBehind
      <4>3. frames[i].len = MessageBytes /\ frames[i].first \in Nat
        BY <4>1, <4>2, FrameTyped DEF Damaged, IInv
      <4>4. PICK a \in Nat : a = frames[i].first
        BY <4>3
      <4>5. m = a \div MessageBytes /\ a % MessageBytes = 0
        BY <4>1, <4>2, <4>4 DEF Number
      <4>6. m \in Nat /\ a = m * MessageBytes
        <5>1. /\ a \div MessageBytes \in Nat /\ a % MessageBytes \in Nat
              /\ a = (a \div MessageBytes) * MessageBytes + (a % MessageBytes)
          BY <3>1, DivMod
        <5>2. (a \div MessageBytes) * MessageBytes \in Int
          BY <3>1, <5>1
        <5> QED
          BY <4>5, <5>1, <5>2
      <4>7. a + MessageBytes <= p
        BY <3>1, <3>4, <4>2, <4>3, <4>4
      <4> HIDE DEF n
      <4> QED
        BY <3>1, <3>2, <4>6, <4>7, MulLess
    <3>7. Damaged # {} \/ 0 .. n - 1 \subseteq HandedOut
      <4> SUFFICES ASSUME Damaged = {}, NEW k \in 0 .. n - 1 PROVE k \in HandedOut
        OBVIOUS
      <4>1. k \in Numbers \ Damaged /\ k \in Int /\ k < n
        BY <2>2, <3>1 DEF Numbers
      <4>2. k * MessageBytes \in Int /\ k * MessageBytes < p
        <5> HIDE DEF n
        <5> QED
          BY <3>1, <3>2, <4>1, MulLess
      <4>3. k * MessageBytes < Consumed
        <5>1. Consumed + (s - start) = p
          <6>1. s \in start .. end - 1
            BY <1>1, <1>5 DEF TakeOne, Incomplete, IInv, TypeOK
          <6> QED
            BY <2>1, <3>3, <6>1, DecodedAt
        <5>2. \A j \in Numbers \ Damaged :
                j * MessageBytes < Consumed + (s - start) => j * MessageBytes < Consumed
          BY <1>1, RescanMissesNothing
        <5> QED
          BY <4>1, <4>2, <5>1, <5>2
      <4>4. (\E i \in DOMAIN frames : Number(frames[i]) = k) \/ Swallowed(k)
        BY <4>1, <4>3 DEF IInv, NoneSkipped
      <4> QED
        BY <4>4 DEF Swallowed, HandedOut
    <3>8. Channel!Receive
      BY <1>3, <2>2, <2>4, <2>6, <3>5, <3>6, <3>7 DEF Channel!Receive
    <3> QED
      BY <3>8 DEF Channel!Next
  <2> QED
    BY <2>5, <2>6
<1> QED
  BY <1>1, <1>4, <1>5

\* The sink and the source together implement the channel of whole messages the engine
\* relies on (DataSink, DataSource): in order, at most once, none lost on an undamaged path.
THEOREM StreamImplementsChannel == Spec => ImplementsChannel
<1>1. IInv /\ IInv' /\ [Next]_vars =>
        [Channel!Next]_<<Written \div MessageBytes, HandedOut, Damaged # {}>>
  <2> SUFFICES ASSUME IInv, IInv', [Next]_vars
               PROVE  [Channel!Next]_<<Written \div MessageBytes, HandedOut, Damaged # {}>>
    OBVIOUS
  <2>1. Written \in Nat
    BY WrittenBounded DEF IInv
  <2>2. CASE SendBatch \/ WritevWouldBlock \/ WritevError \/ Close
    <3>1. Written' = Written
      BY <2>2, QuietSendKeeps
    <3>2. UNCHANGED <<total, frames>>
      BY <2>2 DEF SendBatch, WritevWouldBlock, WritevError, Close, rxVars
    <3> QED
      BY <2>1, <3>1, <3>2, SendRefines
  <2>3. CASE Writev
    <3>1. Written' >= Written
      BY <2>3, WritevKeeps
    <3>2. UNCHANGED <<total, frames>>
      BY <2>3 DEF Writev, rxVars
    <3> QED
      BY <3>1, <3>2, SendRefines
  <2>4. CASE Take
    BY <2>4, ReceiveRefines
  <2>5. CASE Fill \/ FillNothing
    <3>1. Written' = Written
      BY <2>5, FillKeeps, FillNothingKeeps
    <3>2. UNCHANGED <<total, frames>>
      BY <2>5 DEF Fill, FillNothing
    <3> QED
      BY <2>1, <3>1, <3>2, SendRefines
  <2>6. CASE UNCHANGED vars
    <3>1. UNCHANGED <<total, frames, seq, idx, off>>
      BY <2>6 DEF vars, txVars, rxVars
    <3>2. Written' = Written
      BY <3>1 DEF Written
    <3> QED
      BY <2>1, <3>1, <3>2, SendRefines
  <2> QED
    BY <2>2, <2>3, <2>4, <2>5, <2>6 DEF Next, TxStep, RxStep, Finished
<1> QED
  BY <1>1, InitRefines, Invariance, PTL DEF Spec, ImplementsChannel, Channel!Spec
=============================================================================
