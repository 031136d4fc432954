--------------------------- MODULE RunEngine_proofs ---------------------------
(***************************************************************************)
(* Proofs about RunEngine for every set of connections, every capacity and *)
(* batch size and every bound.                                             *)
(***************************************************************************)
EXTENDS RunEngine, FiniteSetTheorems, TLAPS

(***************************************************************************)
(* Sequences of messages.                                                  *)
(***************************************************************************)

\* Every message of a sequence has a number, and a sequence a length.
LEMMA SeqFacts ==
    ASSUME NEW s \in Seq(Message)
    PROVE  Len(s) \in Nat /\ \A i \in 1 .. Len(s) : s[i] \in Message /\ s[i].seq \in Nat
  <1>1. Len(s) \in Nat /\ \A i \in 1 .. Len(s) : s[i] \in Message
    OBVIOUS
  <1>2. QED
    BY <1>1 DEF Message

\* What Append does to a FIFO of messages.
LEMMA AppendFacts ==
    ASSUME NEW s \in Seq(Message), NEW m \in Message
    PROVE  /\ Append(s, m) \in Seq(Message)
           /\ Len(Append(s, m)) = Len(s) + 1
           /\ \A i \in 1 .. Len(s) : Append(s, m)[i] = s[i]
           /\ Append(s, m)[Len(s) + 1] = m
  OBVIOUS

\* What Head and Tail do to a non-empty FIFO of messages.
LEMMA TailFacts ==
    ASSUME NEW s \in Seq(Message), s # << >>
    PROVE  /\ Tail(s) \in Seq(Message)
           /\ Len(s) \in Nat \ {0}
           /\ Len(Tail(s)) = Len(s) - 1
           /\ \A i \in 1 .. Len(s) - 1 : Tail(s)[i] = s[i + 1]
           /\ Head(s) = s[1] /\ Head(s) \in Message
  OBVIOUS

\* What putting one FIFO behind another does.
LEMMA ConcatFacts ==
    ASSUME NEW q \in Seq(Message), NEW r \in Seq(Message)
    PROVE  /\ q \o r \in Seq(Message)
           /\ Len(q) \in Nat /\ Len(r) \in Nat /\ Len(q \o r) = Len(q) + Len(r)
           /\ \A k \in 1 .. Len(q) + Len(r) :
                (q \o r)[k] = IF k <= Len(q) THEN q[k] ELSE r[k - Len(q)]
  OBVIOUS

\* What is left of a FIFO when one message is taken out of it.
LEMMA RemoveFacts ==
    ASSUME NEW s \in Seq(Message), NEW i \in 1 .. Len(s)
    PROVE  /\ RemoveAt(s, i) \in Seq(Message)
           /\ \A k \in 1 .. Len(RemoveAt(s, i)) :
                \E j \in 1 .. Len(s) : RemoveAt(s, i)[k] = s[j]
  <1> DEFINE a == SubSeq(s, 1, i - 1)
             b == SubSeq(s, i + 1, Len(s))
  <1>1. Len(s) \in Nat /\ i \in Nat
    OBVIOUS
  <1>2. /\ a \in Seq(Message) /\ Len(a) = i - 1 /\ \A k \in 1 .. i - 1 : a[k] = s[k]
    BY <1>1
  <1>3. /\ b \in Seq(Message) /\ Len(b) = Len(s) - i
        /\ \A k \in 1 .. Len(s) - i : b[k] = s[k + i]
    BY <1>1
  <1>4. RemoveAt(s, i) = a \o b
    BY DEF RemoveAt
  <1> HIDE DEF a, b
  <1>5. a \o b \in Seq(Message) /\ Len(a \o b) = Len(s) - 1
    <2>1. a \o b \in Seq(Message) /\ Len(a \o b) = Len(a) + Len(b)
      <3>1. a \in Seq(Message) /\ b \in Seq(Message)
        BY <1>2, <1>3
      <3> QED
        BY <3>1, ConcatFacts
    <2>2. Len(a) + Len(b) = Len(s) - 1
      BY <1>1, <1>2, <1>3
    <2> QED
      BY <2>1, <2>2
  <1>7. \A k \in 1 .. Len(s) - 1 : (a \o b)[k] = IF k <= i - 1 THEN a[k] ELSE b[k - (i - 1)]
    <2>1. Len(a) + Len(b) = Len(s) - 1
      BY <1>1, <1>2, <1>3
    <2>2. \A k \in 1 .. Len(a) + Len(b) :
            (a \o b)[k] = IF k <= Len(a) THEN a[k] ELSE b[k - Len(a)]
      BY <1>2, <1>3, ConcatFacts
    <2> QED
      BY <1>2, <2>1, <2>2
  <1>6. ASSUME NEW k \in 1 .. Len(a \o b) PROVE \E j \in 1 .. Len(s) : (a \o b)[k] = s[j]
    <2>1. CASE k <= i - 1
      <3>1. (a \o b)[k] = a[k] /\ k \in 1 .. i - 1 /\ k \in 1 .. Len(s)
        BY <1>1, <1>5, <1>7, <2>1
      <3> QED
        BY <1>2, <3>1
    <2>2. CASE ~(k <= i - 1)
      <3>1. (a \o b)[k] = b[k - (i - 1)]
        BY <1>1, <1>5, <1>7, <2>2
      <3>2. k - (i - 1) \in 1 .. Len(s) - i /\ k - (i - 1) + i \in 1 .. Len(s)
        BY <1>1, <1>5, <2>2
      <3> QED
        BY <1>3, <3>1, <3>2
    <2> QED
      BY <2>1, <2>2
  <1> QED
    BY <1>4, <1>5, <1>6

\* A message in flight to x was in flight before, to x or, if x is reading, to another
\* connection, as far as its history is concerned.
Kept(x, m) ==
    \E e \in Conns : \E j \in 1 .. Len(chan[e]) :
        /\ e = x \/ rx[x] = "recv"
        /\ m.sentIn = chan[e][j].sentIn /\ m.unpolled = chan[e][j].unpolled

\* A shuffled path makes no messages up.
LEMMA ShuffleFacts ==
    ASSUME TypeOK, NEW c \in Conns, Shuffle(c)
    PROVE  /\ mode.shuffled
           /\ chan' \in [Conns -> Seq(Message)]
           /\ \A x \in Conns : \A k \in 1 .. Len(chan'[x]) : Kept(x, chan'[x][k])
  <1>1. chan \in [Conns -> Seq(Message)]
    BY DEF TypeOK
  <1>2. PICK i \in DOMAIN chan[c], twice \in BOOLEAN, d \in Conns :
          /\ d = c \/ rx[d] = "recv"
          /\ chan' = [[chan EXCEPT ![c] = IF twice THEN [chan[c] EXCEPT ![i] = [chan[c][i] EXCEPT !.moved = TRUE]]
                                          ELSE RemoveAt(chan[c], i)]
                        EXCEPT ![d] = <<[chan[c][i] EXCEPT !.moved = TRUE]>> \o @]
    BY DEF Shuffle
  <1> DEFINE m    == [chan[c][i] EXCEPT !.moved = TRUE]
             rest == IF twice THEN [chan[c] EXCEPT ![i] = m] ELSE RemoveAt(chan[c], i)
             mid  == [chan EXCEPT ![c] = rest]
  <1>3. chan[c] \in Seq(Message) /\ i \in 1 .. Len(chan[c]) /\ chan[c][i] \in Message
    BY <1>1
  <1>4. m \in Message /\ m.sentIn = chan[c][i].sentIn /\ m.unpolled = chan[c][i].unpolled
    BY <1>3 DEF Message
  <1>c. \A x \in Conns : x = c \/ rx[x] = "recv" => Kept(x, m)
    BY <1>3, <1>4 DEF Kept
  <1>s. \A x \in Conns : \A j \in 1 .. Len(chan[x]) : Kept(x, chan[x][j])
    BY DEF Kept
  <1>5. rest \in Seq(Message) /\ \A k \in 1 .. Len(rest) : Kept(c, rest[k])
    <2>1. CASE twice
      <3>1. rest = [chan[c] EXCEPT ![i] = m]
        BY <2>1
      <3> HIDE DEF m, rest
      <3>2. /\ rest \in Seq(Message) /\ Len(rest) = Len(chan[c])
            /\ \A k \in 1 .. Len(chan[c]) : rest[k] = m \/ rest[k] = chan[c][k]
        BY <1>3, <1>4, <3>1
      <3> QED
        BY <1>c, <1>s, <3>2
    <2>2. CASE ~twice
      <3>1. rest = RemoveAt(chan[c], i)
        BY <2>2
      <3> HIDE DEF rest
      <3>2. /\ rest \in Seq(Message)
            /\ \A k \in 1 .. Len(rest) : \E j \in 1 .. Len(chan[c]) : rest[k] = chan[c][j]
        BY <1>3, <3>1, RemoveFacts
      <3> QED
        BY <1>s, <3>2
    <2> QED
      BY <2>1, <2>2
  <1>6. chan' = [mid EXCEPT ![d] = <<m>> \o @] /\ (d = c \/ rx[d] = "recv")
    BY <1>2
  <1> HIDE DEF m, rest
  <1>7. /\ mid \in [Conns -> Seq(Message)]
        /\ \A x \in Conns : \A k \in 1 .. Len(mid[x]) : Kept(x, mid[x][k])
    <2>1. /\ mid \in [Conns -> Seq(Message)] /\ mid[c] = rest
          /\ \A x \in Conns \ {c} : mid[x] = chan[x]
      BY <1>1, <1>5
    <2> QED
      BY <1>5, <1>s, <2>1
  <1> HIDE DEF mid
  <1>8. mid[d] \in Seq(Message)
    BY <1>7
  <1>9. /\ <<m>> \o mid[d] \in Seq(Message)
        /\ \A k \in 1 .. Len(<<m>> \o mid[d]) :
              (<<m>> \o mid[d])[k] = m \/ \E j \in 1 .. Len(mid[d]) : (<<m>> \o mid[d])[k] = mid[d][j]
    <2>1. /\ <<m>> \o mid[d] \in Seq(Message) /\ Len(<<m>> \o mid[d]) = Len(mid[d]) + 1
          /\ Len(mid[d]) \in Nat
      BY <1>4, <1>8
    <2>2. (<<m>> \o mid[d])[1] = m /\ \A k \in 2 .. Len(mid[d]) + 1 : (<<m>> \o mid[d])[k] = mid[d][k - 1]
      BY <1>4, <1>8
    <2>3. \A k \in 1 .. Len(mid[d]) + 1 : k = 1 \/ (k \in 2 .. Len(mid[d]) + 1 /\ k - 1 \in 1 .. Len(mid[d]))
      BY <2>1
    <2> QED
      BY <2>1, <2>2, <2>3
  <1>10. /\ chan' \in [Conns -> Seq(Message)] /\ chan'[d] = <<m>> \o mid[d]
         /\ \A x \in Conns \ {d} : chan'[x] = mid[x]
    BY <1>6, <1>7, <1>9
  <1>11. Kept(d, m)
    BY <1>6, <1>c
  <1>12. ASSUME NEW x \in Conns, NEW k \in 1 .. Len(chan'[x]) PROVE Kept(x, chan'[x][k])
    <2>1. CASE x = d
      BY <1>7, <1>9, <1>10, <1>11, <2>1
    <2>2. CASE x # d
      BY <1>7, <1>10, <2>2
    <2> QED
      BY <2>1, <2>2
  <1>13. mode.shuffled
    BY DEF Shuffle
  <1> QED
    BY <1>10, <1>12, <1>13

\* Type correctness is preserved by every step of the run.
LEMMA TypeInvariance ==
    ASSUME TypeOK, [Next]_vars
    PROVE  TypeOK'
  <1> USE DEF TypeOK, Phases, PHASE_WARMUP, PHASE_MEASURE, PHASE_COOLDOWN, PHASE_DONE
  <1>1. ASSUME NEW c \in Conns, Connect(c) PROVE TypeOK'
    BY <1>1 DEF Connect, txVars, netVars, rxVars
  <1>2. ASSUME NEW c \in Conns, Spawn(c) PROVE TypeOK'
    BY <1>2 DEF Spawn, netVars
  <1>3. CASE StoreMeasure \/ StoreCooldown \/ StoreDone
    BY <1>3 DEF StoreMeasure, StoreCooldown, StoreDone, NextPhase, txVars, netVars, rxVars
  <1>4. CASE JoinTx \/ JoinRx
    BY <1>4 DEF JoinTx, JoinRx, txVars, netVars, rxVars
  <1>5. ASSUME NEW c \in Conns, TxDone(c) \/ TxError(c) PROVE TypeOK'
    BY <1>5 DEF TxDone, TxError, TxExit, mainVars, netVars, rxVars
  <1>0. \A c \in Conns, b \in BOOLEAN :
          /\ [txMeasuring EXCEPT ![c] = b] \in [Conns -> BOOLEAN]
          /\ [rxMeasuring EXCEPT ![c] = b] \in [Conns -> BOOLEAN]
    OBVIOUS
  <1>6. ASSUME NEW c \in Conns, TxDraw(c) \/ TxWake(c) \/ TxSendBlocked(c) PROVE TypeOK'
    <2>1. CASE TxDraw(c)
      BY <2>1 DEF TxDraw, DrawSlot, mainVars, netVars, rxVars
    <2>2. CASE TxWake(c)
      <3>1. txMeasuring' \in [Conns -> BOOLEAN]
        BY <2>2, <1>0 DEF TxWake
      <3>2. QED
        BY <2>2, <3>1 DEF TxWake, mainVars, netVars, rxVars
    <2>3. CASE TxSendBlocked(c)
      <3>1. txMeasuring' \in [Conns -> BOOLEAN]
        BY <2>3, <1>0 DEF TxSendBlocked
      <3>2. QED
        BY <2>3, <3>1 DEF TxSendBlocked, mainVars, netVars, rxVars
    <2>4. QED
      BY <1>6, <2>1, <2>2, <2>3
  <1>7. ASSUME NEW c \in Conns, NEW s \in Nat, NEW t \in Nat, Accept(c, NewMessage(c, s, t))
        PROVE  /\ chan' \in [Conns -> Seq(Message)]
               /\ lost' \in [Conns -> SUBSET Nat]
               /\ net' \in [Conns -> {"up", "stalled", "broken"}]
    <2>1. NewMessage(c, s, t) \in Message /\ NewMessage(c, s, t).seq = s
      BY DEF NewMessage, Message
    <2>2. chan[c] \in Seq(Message) /\ Append(chan[c], NewMessage(c, s, t)) \in Seq(Message)
      BY <2>1, AppendFacts
    <2>3. CASE /\ chan' = [chan EXCEPT ![c] = Append(@, NewMessage(c, s, t))]
               /\ UNCHANGED <<lost, net>>
      BY <2>2, <2>3
    <2>4. CASE /\ lost' = [lost EXCEPT ![c] = @ \cup {NewMessage(c, s, t).seq}]
               /\ UNCHANGED <<chan, net>>
      BY <2>1, <2>4
    <2>5. QED
      BY <1>7, <2>3, <2>4 DEF Accept
  <1>8. ASSUME NEW c \in Conns, TxSend(c) PROVE TypeOK'
    <2>1. Accept(c, NewMessage(c, seq[c], slot[c])) /\ seq[c] \in Nat /\ slot[c] \in Nat
      BY <1>8 DEF TxSend
    <2>2. txMeasuring' \in [Conns -> BOOLEAN]
      BY <1>8, <1>0 DEF TxSend
    <2>4. /\ chan' \in [Conns -> Seq(Message)]
          /\ lost' \in [Conns -> SUBSET Nat]
          /\ net' \in [Conns -> {"up", "stalled", "broken"}]
      BY <1>7, <2>1
    <2>5. UNCHANGED <<mode, phase, main, opened, sent, slot, rx, batch, rxMeasuring, recorded, failures>>
      BY <1>8 DEF TxSend, mainVars, rxVars
    <2>6. lag' \in [Conns -> Nat] /\ seq' \in [Conns -> Nat]
      BY <1>8 DEF TxSend
    <2>7. tx' \in [Conns -> {"idle", "top", "asleep", "sending", "pushing", "exited"}]
      BY <1>8 DEF TxSend
    <2>3. QED
      BY <2>2, <2>4, <2>5, <2>6, <2>7
  <1>9. ASSUME NEW c \in Conns, TxPush(c) PROVE TypeOK'
    <2>1. Accept(c, NewMessage(c, seq[c] + sent[c], 0)) /\ seq[c] + sent[c] \in Nat
      BY <1>9 DEF TxPush
    <2>2. /\ chan' \in [Conns -> Seq(Message)]
          /\ lost' \in [Conns -> SUBSET Nat]
          /\ net' \in [Conns -> {"up", "stalled", "broken"}]
      <3>1. 0 \in Nat
        OBVIOUS
      <3>2. QED
        BY <1>7, <2>1, <3>1
    <2>3. sent' \in [Conns -> Nat]
      BY <1>9 DEF TxPush
    <2>4. UNCHANGED <<mode, mainVars, tx, seq, slot, txMeasuring, lag, rxVars>>
      BY <1>9 DEF TxPush
    <2>5. QED
      BY <2>2, <2>3, <2>4 DEF mainVars, rxVars
  <1>10. ASSUME NEW c \in Conns, TxStage(c) \/ TxFlush(c) PROVE TypeOK'
    <2>1. CASE TxStage(c)
      BY <2>1 DEF TxStage, mainVars, netVars, rxVars
    <2>2. CASE TxFlush(c)
      <3>1. seq[c] + sent[c] \in Nat
        OBVIOUS
      <3>2. QED
        BY <2>2, <3>1 DEF TxFlush, Advance, mainVars, netVars, rxVars
    <2>3. QED
      BY <1>10, <2>1, <2>2
  <1>11. ASSUME NEW c \in Conns, RxDrain(c) PROVE TypeOK'
    <2>1. chan[c] \in Seq(Message) /\ chan[c] # << >> /\ batch[c] \in Seq(Message)
      BY <1>11 DEF RxDrain
    <2>2. Tail(chan[c]) \in Seq(Message) /\ Head(chan[c]) \in Message
      BY <2>1, TailFacts
    <2>3. ASSUME NEW good \in BOOLEAN
          PROVE  Append(batch[c], [Head(chan[c]) EXCEPT !.early = (phase = PHASE_WARMUP),
                                                        !.intact = good, !.unpolled = FALSE,
                                                        !.moved = FALSE]) \in Seq(Message)
      <3>1. [Head(chan[c]) EXCEPT !.early = (phase = PHASE_WARMUP), !.intact = good,
                                     !.unpolled = FALSE, !.moved = FALSE] \in Message
        BY <2>2 DEF Message
      <3>2. QED
        BY <2>1, <3>1, AppendFacts
    <2>4. Head(chan[c]).seq \in Nat
      BY <2>2 DEF Message
    <2>5. PICK good \in BOOLEAN :
             /\ batch' = [batch EXCEPT ![c] =
                   Append(batch[c], [Head(chan[c]) EXCEPT !.early = (phase = PHASE_WARMUP),
                                                   !.intact = good, !.unpolled = FALSE,
                                                   !.moved = FALSE])]
             /\ lost' = [lost EXCEPT ![c] =
                   lost[c] \cup (IF good THEN {} ELSE {Head(chan[c]).seq})]
      BY <1>11 DEF RxDrain
    <2>6. batch' \in [Conns -> Seq(Message)] /\ lost' \in [Conns -> SUBSET Nat]
      BY <2>3, <2>4, <2>5
    <2>7. QED
      BY <1>11, <2>2, <2>6 DEF RxDrain, mainVars, txVars
  <1>12. ASSUME NEW c \in Conns, RxLoadPhase(c) PROVE TypeOK'
    BY <1>12 DEF RxLoadPhase, LoadMeasuring, mainVars, txVars, netVars
  <1>13. ASSUME NEW c \in Conns, RxIngest(c) PROVE TypeOK'
    <2>1. Tail(batch[c]) \in Seq(Message) /\ Head(batch[c]) \in Message
      BY <1>13, TailFacts DEF RxIngest
    <2>2. Append(recorded[c], [Head(batch[c]) EXCEPT !.late = (phase > PHASE_MEASURE)])
             \in Seq(Message)
      <3>1. ASSUME NEW b \in BOOLEAN PROVE [Head(batch[c]) EXCEPT !.late = b] \in Message
        BY <2>1 DEF Message
      <3>2. (phase > PHASE_MEASURE) \in BOOLEAN
        OBVIOUS
      <3>3. [Head(batch[c]) EXCEPT !.late = (phase > PHASE_MEASURE)] \in Message
        BY <3>1, <3>2
      <3>4. QED
        BY <3>3, AppendFacts
    <2>3. recorded' \in [Conns -> Seq(Message)]
      BY <1>13, <2>2 DEF RxIngest
    <2>4. failures' \in [Conns -> Nat] /\ batch' \in [Conns -> Seq(Message)]
      BY <1>13, <2>1 DEF RxIngest
    <2>5. rx' \in [Conns -> {"idle", "recv", "ingest", "timeout", "exited"}]
      BY <1>13 DEF RxIngest
    <2>6. QED
      BY <1>13, <2>3, <2>4, <2>5 DEF RxIngest, mainVars, txVars, netVars
  <1>14. ASSUME NEW c \in Conns, RxTimeout(c) \/ RxAfterTimeout(c) \/ RxClosed(c) \/ RxError(c)
         PROVE TypeOK'
    <2>1. CASE RxTimeout(c) \/ RxAfterTimeout(c) \/ RxClosed(c)
      BY <2>1 DEF RxTimeout, RxAfterTimeout, RxClosed, mainVars, txVars, netVars
    <2>2. CASE RxError(c)
      <3>1. << >> \in Seq(Message)
        OBVIOUS
      <3>2. batch' \in [Conns -> Seq(Message)]
        BY <2>2, <3>1 DEF RxError
      <3>3. QED
        BY <2>2, <3>2 DEF RxError, mainVars, txVars, netVars
    <2>3. QED
      BY <1>14, <2>1, <2>2
  <1>15. ASSUME NEW c \in Conns, Lose(c) PROVE TypeOK'
    <2>1. Tail(chan[c]) \in Seq(Message) /\ Head(chan[c]) \in Message
      BY <1>15, TailFacts DEF Lose
    <2>2. Head(chan[c]).seq \in Nat
      BY <2>1 DEF Message
    <2>3. QED
      BY <1>15, <2>1, <2>2 DEF Lose, mainVars, txVars, rxVars
  <1>s. ASSUME NEW c \in Conns, Shuffle(c) PROVE TypeOK'
    <2>1. chan' \in [Conns -> Seq(Message)]
      BY <1>s, ShuffleFacts
    <2>2. UNCHANGED <<mode, mainVars, txVars, lost, net, rxVars>>
      BY <1>s DEF Shuffle
    <2>3. QED
      BY <2>1, <2>2 DEF mainVars, txVars, rxVars
  <1>16. ASSUME NEW c \in Conns, GatewayFault(c) PROVE TypeOK'
    BY <1>16 DEF GatewayFault, mainVars, txVars, rxVars
  <1>17. CASE WatchdogKill
    BY <1>17 DEF WatchdogKill, mainVars, txVars, rxVars
  <1>18. CASE UNCHANGED vars
    BY <1>18 DEF vars, mainVars, txVars, netVars, rxVars
  <1> QED
    BY <1>1, <1>2, <1>3, <1>4, <1>5, <1>6, <1>8, <1>9, <1>10, <1>11, <1>12, <1>13, <1>14,
       <1>15, <1>s, <1>16, <1>17, <1>18
    DEF Next, MainStep, TxStep, RxStep, EnvStep, Finished

\* A run starts well typed.
LEMMA InitTyped ==
    ASSUME Init
    PROVE  TypeOK
  <1> USE DEF Init
  <1>1. << >> \in Seq(Message)
    OBVIOUS
  <1>2. /\ chan \in [Conns -> Seq(Message)] /\ batch \in [Conns -> Seq(Message)]
        /\ recorded \in [Conns -> Seq(Message)]
    BY <1>1
  <1>3. lost \in [Conns -> SUBSET Nat]
    OBVIOUS
  <1>4. txMeasuring \in [Conns -> BOOLEAN] /\ rxMeasuring \in [Conns -> BOOLEAN]
    OBVIOUS
  <1>5. phase \in Phases
    BY DEF Phases, PHASE_WARMUP, PHASE_DONE
  <1>6. QED
    BY <1>2, <1>3, <1>4, <1>5 DEF TypeOK

\* The run never leaves its types (RunEngine's state, whatever the path does).
THEOREM TypeCorrect == Spec => []TypeOK
  <1>1. Init => TypeOK
    BY InitTyped
  <1>2. TypeOK /\ [Next]_vars => TypeOK'
    BY TypeInvariance
  <1>3. QED
    BY <1>1, <1>2, PTL DEF Spec

(***************************************************************************)
(* The measure window.  A message is recorded only under a MEASURE the     *)
(* receiver loaded after it had drained the message, so it suffices that   *)
(* nothing in flight or in a batch was accepted in a phase later than the  *)
(* current one, and that the phase flag never moves backwards.             *)
(***************************************************************************)
SentBy(s, p) == \A i \in 1 .. Len(s) : s[i].sentIn <= p

\* The phase flag is what the main thread's program counter says it is.
PhaseFollowsMain ==
    /\ main \in {"connect", "spawn", "warmup"} => phase = PHASE_WARMUP
    /\ main = "measure" => phase = PHASE_MEASURE
    /\ main = "cooldown" => phase = PHASE_COOLDOWN

Window(c) ==
    /\ SentBy(chan[c], phase)
    /\ SentBy(batch[c], phase)
    /\ (rx[c] = "ingest" /\ rxMeasuring[c]) => SentBy(batch[c], PHASE_MEASURE)
    /\ SentBy(recorded[c], PHASE_MEASURE)

WindowInv == TypeOK /\ PhaseFollowsMain /\ \A c \in Conns : Window(c)

\* A FIFO whose messages were accepted by phase p keeps that when one more is appended,
LEMMA SentByAppend ==
    ASSUME NEW s \in Seq(Message), NEW m \in Message, NEW p \in Phases,
           SentBy(s, p), m.sentIn <= p
    PROVE  SentBy(Append(s, m), p)
  BY AppendFacts DEF SentBy

\* when its head is taken,
LEMMA SentByTail ==
    ASSUME NEW s \in Seq(Message), NEW p \in Phases, s # << >>, SentBy(s, p)
    PROVE  SentBy(Tail(s), p) /\ Head(s).sentIn <= p
  BY TailFacts DEF SentBy

\* and when the phase advances.
LEMMA SentByLater ==
    ASSUME NEW s \in Seq(Message), NEW p \in Phases, NEW q \in Phases, p <= q, SentBy(s, p)
    PROVE  SentBy(s, q)
  <1>1. \A i \in 1 .. Len(s) : s[i] \in Message
    BY SeqFacts
  <1>2. \A i \in 1 .. Len(s) : s[i].sentIn \in Phases
    BY <1>1 DEF Message
  <1>3. QED
    BY <1>2 DEF SentBy, Phases, PHASE_WARMUP, PHASE_DONE

\* The phase flag only moves forward, and stays what main's program counter says.
LEMMA PhaseAdvances ==
    ASSUME TypeOK, PhaseFollowsMain, [Next]_vars
    PROVE  PhaseFollowsMain' /\ phase <= phase'
  <1> USE DEF PhaseFollowsMain, TypeOK, Phases, PHASE_WARMUP, PHASE_MEASURE, PHASE_COOLDOWN,
             PHASE_DONE
  <1>1. CASE UNCHANGED <<phase, main>>
    BY <1>1
  <1>2. CASE MainStep
    <2>1. ASSUME NEW c \in Conns, Connect(c) \/ Spawn(c)
          PROVE  PhaseFollowsMain' /\ phase <= phase'
      <3>1. UNCHANGED phase /\ phase = PHASE_WARMUP
        BY <2>1 DEF Connect, Spawn
      <3>2. main' \in {"connect", "failed", "spawn", "warmup"}
        BY <2>1 DEF Connect, Spawn
      <3>3. QED
        BY <3>1, <3>2
    <2>2. CASE StoreMeasure \/ StoreCooldown \/ StoreDone
      BY <2>2 DEF StoreMeasure, StoreCooldown, StoreDone, NextPhase
    <2>3. CASE JoinTx \/ JoinRx
      BY <2>3 DEF JoinTx, JoinRx
    <2>4. QED
      BY <1>2, <2>1, <2>2, <2>3 DEF MainStep
  <1>3. ASSUME NEW c \in Conns, TxStep(c) PROVE UNCHANGED <<phase, main>>
    BY <1>3 DEF TxStep, TxDone, TxDraw, TxWake, TxSend, TxSendBlocked, TxStage, TxPush,
                TxFlush, TxError, mainVars
  <1>4. ASSUME NEW c \in Conns, RxStep(c) PROVE UNCHANGED <<phase, main>>
    BY <1>4 DEF RxStep, RxDrain, RxLoadPhase, RxIngest, RxTimeout, RxAfterTimeout, RxClosed, RxError, mainVars
  <1>5. CASE EnvStep
    BY <1>1, <1>5 DEF EnvStep, Lose, Shuffle, GatewayFault, WatchdogKill, mainVars
  <1>6. CASE UNCHANGED vars
    BY <1>1, <1>6 DEF vars, mainVars
  <1>7. QED
    BY <1>1, <1>2, <1>3, <1>4, <1>5, <1>6 DEF Next, Finished

\* The window invariant is preserved by every step of the run.
LEMMA WindowInvariance ==
    ASSUME WindowInv, [Next]_vars
    PROVE  WindowInv'
  <1>1. TypeOK /\ TypeOK' /\ PhaseFollowsMain' /\ phase <= phase'
    BY TypeInvariance, PhaseAdvances DEF WindowInv
  <1>t. /\ phase \in Phases /\ phase' \in Phases /\ PHASE_MEASURE \in Phases
        /\ \A d \in Conns : /\ chan[d] \in Seq(Message) /\ batch[d] \in Seq(Message)
                            /\ recorded[d] \in Seq(Message)
    BY <1>1 DEF TypeOK, Phases, PHASE_MEASURE, PHASE_WARMUP, PHASE_DONE
  <1>n. \A c \in Conns : seq[c] + sent[c] \in Nat
    <2>1. \A c \in Conns : seq[c] \in Nat /\ sent[c] \in Nat
      BY <1>1 DEF TypeOK
    <2>2. QED
      BY <2>1
  <1> SUFFICES ASSUME NEW d \in Conns PROVE Window(d)'
    BY <1>1 DEF WindowInv
  <1>w. Window(d)
    BY DEF WindowInv
  <1>0. CASE UNCHANGED <<chan[d], batch[d], rx[d], rxMeasuring[d], recorded[d]>>
    <2>1. SentBy(chan[d], phase') /\ SentBy(batch[d], phase')
      BY <1>1, <1>t, <1>w, SentByLater DEF Window
    <2>2. QED
      BY <1>0, <1>w, <2>1 DEF Window
  <1>2. CASE MainStep
    <2>1. CASE UNCHANGED <<netVars, rxVars>>
      BY <1>0, <2>1 DEF netVars, rxVars
    <2>2. ASSUME NEW c \in Conns, Spawn(c) PROVE Window(d)'
      <3>1. /\ UNCHANGED <<phase, chan, batch, rxMeasuring, recorded>>
            /\ rx' = [rx EXCEPT ![c] = "recv"]
        BY <2>2 DEF Spawn, netVars
      <3>2. rx'[d] = "ingest" => rx[d] = "ingest"
        BY <1>1, <3>1 DEF TypeOK
      <3>3. QED
        BY <1>w, <3>1, <3>2 DEF Window
    <2>3. QED
      BY <1>2, <2>1, <2>2 DEF MainStep, Connect, StoreMeasure, StoreCooldown, StoreDone,
                              NextPhase, JoinTx, JoinRx
  <1>3. ASSUME NEW c \in Conns, TxStep(c) PROVE Window(d)'
    <2>1. UNCHANGED <<phase, rx, batch, rxMeasuring, recorded>>
      BY <1>3 DEF TxStep, TxDone, TxDraw, TxWake, TxSend, TxSendBlocked, TxStage, TxPush,
                  TxFlush, TxError, mainVars, rxVars
    <2>2. CASE UNCHANGED chan
      BY <1>0, <2>1, <2>2
    <2>3. ASSUME NEW s \in Nat, NEW t \in Nat, Accept(c, NewMessage(c, s, t)) PROVE Window(d)'
      <3>1. NewMessage(c, s, t) \in Message /\ NewMessage(c, s, t).sentIn <= phase
        BY <1>t DEF NewMessage, Message, Phases, PHASE_WARMUP, PHASE_DONE
      <3>2. CASE d = c /\ chan' = [chan EXCEPT ![c] = Append(@, NewMessage(c, s, t))]
        <4>1. chan'[d] = Append(chan[d], NewMessage(c, s, t))
          BY <1>1, <3>2 DEF TypeOK
        <4>2. SentBy(chan'[d], phase)
          BY <1>t, <1>w, <3>1, <4>1, SentByAppend DEF Window
        <4>3. QED
          BY <1>w, <2>1, <4>2 DEF Window
      <3>3. CASE d # c \/ UNCHANGED chan
        <4>1. UNCHANGED chan[d]
          BY <1>1, <2>3, <3>3 DEF Accept, TypeOK
        <4>2. QED
          BY <1>0, <2>1, <4>1
      <3>4. QED
        BY <2>3, <3>2, <3>3 DEF Accept
    <2>4. CASE TxSend(c)
      <3>1. Accept(c, NewMessage(c, seq[c], slot[c])) /\ seq[c] \in Nat /\ slot[c] \in Nat
        BY <1>1, <2>4 DEF TxSend, TypeOK
      <3>2. QED
        BY <2>3, <3>1
    <2>5. CASE TxPush(c)
      <3>1. Accept(c, NewMessage(c, seq[c] + sent[c], 0))
        BY <2>5 DEF TxPush
      <3>2. 0 \in Nat /\ seq[c] + sent[c] \in Nat
        BY <1>n
      <3>3. QED
        BY <2>3, <3>1, <3>2
    <2>6. QED
      BY <1>3, <2>2, <2>4, <2>5 DEF TxStep, TxDone, TxDraw, TxWake, TxSendBlocked, TxStage,
                                    TxFlush, TxError, netVars
  <1>4. ASSUME NEW c \in Conns, RxStep(c) PROVE Window(d)'
    <2>0. CASE d # c
      <3>1. UNCHANGED <<chan[d], batch[d], rx[d], rxMeasuring[d], recorded[d]>>
        <4>1. CASE RxDrain(c)
          BY <1>1, <2>0, <4>1 DEF RxDrain, TypeOK
        <4>2. CASE RxLoadPhase(c) \/ RxTimeout(c) \/ RxAfterTimeout(c) \/ RxClosed(c) \/ RxError(c)
          BY <1>1, <2>0, <4>2 DEF RxLoadPhase, RxTimeout, RxAfterTimeout, RxClosed, RxError, netVars, TypeOK
        <4>3. CASE RxIngest(c)
          BY <1>1, <2>0, <4>3 DEF RxIngest, netVars, TypeOK
        <4>4. QED
          BY <1>4, <4>1, <4>2, <4>3 DEF RxStep
      <3>2. QED
        BY <1>0, <3>1
    <2> SUFFICES ASSUME d = c PROVE Window(c)'
      BY <2>0
    <2>p. UNCHANGED phase
      BY <1>4 DEF RxStep, RxDrain, RxLoadPhase, RxIngest, RxTimeout, RxAfterTimeout, RxClosed, RxError, mainVars
    <2>1. CASE RxDrain(c)
      <3>1. /\ UNCHANGED <<rx, rxMeasuring, recorded>> /\ rx[c] = "recv" /\ chan[c] # << >>
            /\ chan'[c] = Tail(chan[c])
        BY <1>1, <2>1 DEF RxDrain, TypeOK
      <3>2. SentBy(chan'[c], phase) /\ Head(chan[c]).sentIn <= phase /\ Head(chan[c]) \in Message
        BY <1>t, <1>w, <3>1, SentByTail, TailFacts DEF Window
      <3>3. PICK good \in BOOLEAN :
              batch'[c] = Append(batch[c],
                             [Head(chan[c]) EXCEPT !.early = (phase = PHASE_WARMUP),
                                                   !.intact = good, !.unpolled = FALSE,
                                                   !.moved = FALSE])
        BY <1>1, <2>1 DEF RxDrain, TypeOK
      <3> DEFINE m == [Head(chan[c]) EXCEPT !.early = (phase = PHASE_WARMUP), !.intact = good,
                                     !.unpolled = FALSE, !.moved = FALSE]
      <3>4. m \in Message /\ m.sentIn <= phase
        BY <3>2 DEF Message
      <3>5. SentBy(batch'[c], phase)
        <4> HIDE DEF m
        <4>1. batch'[c] = Append(batch[c], m)
          BY <3>3 DEF m
        <4>2. QED
          BY <1>t, <1>w, <3>4, <4>1, SentByAppend DEF Window
      <3>6. QED
        BY <1>w, <2>p, <3>1, <3>2, <3>5 DEF Window
    <2>2. CASE RxLoadPhase(c)
      <3>1. UNCHANGED <<chan, batch, recorded>> /\ rxMeasuring'[c] = (phase = PHASE_MEASURE)
        BY <1>1, <2>2 DEF RxLoadPhase, LoadMeasuring, netVars, TypeOK
      <3>2. rxMeasuring'[c] => SentBy(batch[c], PHASE_MEASURE)
        BY <1>w, <3>1 DEF Window
      <3>3. QED
        BY <1>w, <2>p, <3>1, <3>2 DEF Window
    <2>3. CASE RxIngest(c)
      <3> DEFINE m == [Head(batch[c]) EXCEPT !.late = (phase > PHASE_MEASURE)]
      <3>1. /\ UNCHANGED <<chan, rxMeasuring>> /\ rx[c] = "ingest" /\ batch[c] # << >>
            /\ batch'[c] = Tail(batch[c])
        BY <1>1, <2>3 DEF RxIngest, TypeOK, netVars
      <3>2. \/ recorded'[c] = recorded[c]
            \/ rxMeasuring[c] /\ recorded'[c] = Append(recorded[c], m)
        BY <1>1, <2>3 DEF RxIngest, TypeOK
      <3>3. SentBy(Tail(batch[c]), phase) /\ Head(batch[c]) \in Message
        BY <1>t, <1>w, <3>1, SentByTail, TailFacts DEF Window
      <3>4. rxMeasuring[c] => /\ SentBy(Tail(batch[c]), PHASE_MEASURE)
                              /\ Head(batch[c]).sentIn <= PHASE_MEASURE
        BY <1>t, <1>w, <3>1, SentByTail DEF Window
      <3>5. m \in Message /\ m.sentIn = Head(batch[c]).sentIn
        <4>1. (phase > PHASE_MEASURE) \in BOOLEAN
          BY <1>t DEF Phases, PHASE_WARMUP, PHASE_DONE, PHASE_MEASURE
        <4>2. ASSUME NEW b \in BOOLEAN
              PROVE  LET n == [Head(batch[c]) EXCEPT !.late = b]
                     IN  n \in Message /\ n.sentIn = Head(batch[c]).sentIn
          BY <3>3 DEF Message
        <4>3. QED
          BY <4>1, <4>2
      <3>6. SentBy(recorded'[c], PHASE_MEASURE)
        <4> HIDE DEF m
        <4>1. QED
          BY <1>t, <1>w, <3>2, <3>4, <3>5, SentByAppend DEF Window
      <3>7. QED
        BY <1>w, <2>p, <3>1, <3>3, <3>4, <3>6 DEF Window
    <2>4. CASE RxTimeout(c) \/ RxAfterTimeout(c) \/ RxClosed(c) \/ RxError(c)
      <3>1. /\ UNCHANGED <<chan, recorded>> /\ rx'[c] # "ingest"
            /\ batch'[c] = batch[c] \/ batch'[c] = << >>
        BY <1>1, <2>4 DEF RxTimeout, RxAfterTimeout, RxClosed, RxError, netVars, TypeOK
      <3>2. SentBy(<< >>, phase)
        BY DEF SentBy
      <3>3. QED
        BY <1>w, <2>p, <3>1, <3>2 DEF Window
    <2>5. QED
      BY <1>4, <2>1, <2>2, <2>3, <2>4 DEF RxStep
  <1>5. CASE EnvStep
    <2>1. ASSUME NEW c \in Conns, Lose(c) PROVE Window(d)'
      <3>1. UNCHANGED <<phase, rx, batch, rxMeasuring, recorded>> /\ chan[c] # << >>
        BY <2>1 DEF Lose, mainVars, rxVars
      <3>2. CASE d # c
        <4>1. UNCHANGED chan[d]
          BY <1>1, <2>1, <3>2 DEF Lose, TypeOK
        <4>2. QED
          BY <1>0, <3>1, <4>1
      <3>3. CASE d = c
        <4>1. chan'[d] = Tail(chan[d])
          BY <1>1, <2>1, <3>3 DEF Lose, TypeOK
        <4>2. SentBy(chan'[d], phase)
          BY <1>t, <1>w, <3>1, <3>3, <4>1, SentByTail DEF Window
        <4>3. QED
          BY <1>w, <3>1, <4>2 DEF Window
      <3>4. QED
        BY <3>2, <3>3
    <2>3. ASSUME NEW c \in Conns, Shuffle(c) PROVE Window(d)'
      <3>1. UNCHANGED <<phase, rx, batch, rxMeasuring, recorded>>
        BY <2>3 DEF Shuffle, mainVars, rxVars
      <3>2. \A k \in 1 .. Len(chan'[d]) : Kept(d, chan'[d][k])
        BY <1>1, <2>3, ShuffleFacts
      <3>3. \A e \in Conns : SentBy(chan[e], phase)
        BY DEF WindowInv, Window
      <3>4. SentBy(chan'[d], phase)
        BY <3>2, <3>3 DEF SentBy, Kept
      <3>5. QED
        BY <1>w, <3>1, <3>4 DEF Window
    <2>2. QED
      BY <1>0, <1>5, <2>1, <2>3 DEF EnvStep, GatewayFault, WatchdogKill, rxVars
  <1>6. CASE UNCHANGED vars
    BY <1>0, <1>6 DEF vars, netVars, rxVars
  <1>7. QED
    BY <1>2, <1>3, <1>4, <1>5, <1>6 DEF Next, Finished

\* No message the transport accepted after COOLDOWN was stored is ever recorded
\* (receiver_loop's per-batch phase load), for any number of connections, any transport
\* capacity and any batch size.
THEOREM CooldownSafe == Spec => []CooldownNeverRecorded
  <1>1. Init => WindowInv
    <2> SUFFICES ASSUME Init PROVE WindowInv
      OBVIOUS
    <2>1. TypeOK
      BY InitTyped
    <2>2. PhaseFollowsMain
      BY DEF Init, PhaseFollowsMain
    <2>3. ASSUME NEW c \in Conns PROVE Window(c)
      BY DEF Init, Window, SentBy
    <2>4. QED
      BY <2>1, <2>2, <2>3 DEF WindowInv
  <1>2. WindowInv /\ [Next]_vars => WindowInv'
    BY WindowInvariance
  <1>3. WindowInv => CooldownNeverRecorded
    <2> SUFFICES ASSUME WindowInv, NEW c \in Conns, NEW i \in DOMAIN recorded[c]
                 PROVE  recorded[c][i].sentIn <= PHASE_MEASURE
      BY DEF CooldownNeverRecorded
    <2>1. recorded[c] \in Seq(Message) /\ SentBy(recorded[c], PHASE_MEASURE)
      BY DEF WindowInv, Window, TypeOK
    <2>2. i \in 1 .. Len(recorded[c])
      BY <2>1
    <2>3. QED
      BY <2>1, <2>2 DEF SentBy
  <1>4. QED
    BY <1>1, <1>2, <1>3, PTL DEF Spec

(***************************************************************************)
(* The flow of one connection.  Messages pass from the sender through the  *)
(* path and the batch to the record, and never overtake each other.  What  *)
(* the properties say of the record therefore follows from what holds of   *)
(* all the messages of a connection, wherever they are.                    *)
(***************************************************************************)
\* The next number the sender builds a message with.
NextSeq(c) == seq[c] + sent[c]

\* The first slot that no message may carry yet; a sender between its deadline and its
\* send is about to use it.
Limit(c) == IF tx[c] \in {"asleep", "sending"} THEN slot[c] ELSE slot[c] + 1

SenderInv(c) ==
    /\ tx[c] \notin {"pushing", "exited"} => sent[c] = 0
    /\ mode.pacing = "paced" => tx[c] # "pushing" /\ NextSeq(c) < Limit(c)

\* Message m is before message n on a connection; p is the sender's pattern.
Before(p, m, n) == m.seq < n.seq /\ (p = "paced" => m.stamp < n.stamp)

InOrder(p, q)  == \A i, j \in 1 .. Len(q) : i < j => Before(p, q[i], q[j])
Ahead(p, q, r) == \A i \in 1 .. Len(q), j \in 1 .. Len(r) : Before(p, q[i], r[j])

\* All of q was sent before a message with number n and stamp l would be.
Issued(p, q, n, l) ==
    \A i \in 1 .. Len(q) : q[i].seq < n /\ (p = "paced" => q[i].seq < q[i].stamp /\ q[i].stamp < l)

OrderInv(c) ==
    /\ InOrder(mode.pacing, recorded[c]) /\ InOrder(mode.pacing, batch[c]) /\ InOrder(mode.pacing, chan[c])
    /\ Ahead(mode.pacing, recorded[c], batch[c]) /\ Ahead(mode.pacing, recorded[c], chan[c])
    /\ Ahead(mode.pacing, batch[c], chan[c])
    /\ Issued(mode.pacing, recorded[c], NextSeq(c), Limit(c))
    /\ Issued(mode.pacing, batch[c], NextSeq(c), Limit(c))
    /\ Issued(mode.pacing, chan[c], NextSeq(c), Limit(c))

\* Number k is in sequence q.
Has(q, k) == \E i \in 1 .. Len(q) : q[i].seq = k

\* Every number after b and before n is lost or still on its way to the record.
Covered(L, B, C, n, b) == \A k \in Nat : b < k /\ k < n => k \in L \/ Has(B, k) \/ Has(C, k)

\* What the flow tells apart of a receiver: between a poll that timed out and the next one
\* it is still reading.
Reader(c) == IF rx[c] = "timeout" THEN "recv" ELSE rx[c]

\* Is the batch being recorded?
Recording(c) == Reader(c) = "ingest" /\ rxMeasuring[c]

\* May what is in the batch, or drained next, still be recorded?
Open(c) == \/ Reader(c) = "recv" /\ phase = PHASE_MEASURE
           \/ Recording(c)

LossInv(c) ==
    LET R == recorded[c]
        B == batch[c]
        C == chan[c]
        L == lost[c]
        Reached(b) == Covered(L, B, C, NextSeq(c), b)
    IN  /\ \A k \in L : k < NextSeq(c)
        /\ \A i \in 1 .. Len(R) : R[i].seq \notin L
        /\ \A i \in 1 .. Len(B) : B[i].seq \in L <=> ~B[i].intact
        /\ \A i \in 1 .. Len(C) : C[i].seq \notin L
        /\ \A i \in 1 .. Len(B) : Reached(B[i].seq)
        /\ \A i \in 1 .. Len(C) : Reached(C[i].seq)
        /\ Open(c) /\ R # << >> => Reached(R[Len(R)].seq)
        /\ R # << >> => \A k \in Nat : R[1].seq <= k /\ k <= R[Len(R)].seq => k \in L \/ Has(R, k)

\* Recording starts no earlier than MEASURE, and never again after a batch that was not
\* recorded.
PhaseInv(c) ==
    /\ Recording(c) => phase >= PHASE_MEASURE
    /\ recorded[c] # << >> => phase >= PHASE_MEASURE
    /\ (recorded[c] # << >> /\ Reader(c) = "ingest" /\ ~rxMeasuring[c]) => phase > PHASE_MEASURE

\* The early messages are in the first batch recorded, the late ones in the last.
EdgeInv(c) ==
    LET R == recorded[c]
        B == batch[c]
    IN  /\ Len(B) <= RxMax
        /\ \A i \in 1 .. Len(B) : B[i].early /\ Reader(c) = "recv" => R = << >>
        /\ \A i \in 1 .. Len(B) : B[i].early /\ Recording(c) => Len(R) + i <= RxMax
        /\ \A i \in 1 .. Len(R) : R[i].early => i <= RxMax
        /\ \A i \in 1 .. Len(R) : R[i].late => phase > PHASE_MEASURE /\ Len(R) - i < RxMax
        /\ \A i \in 1 .. Len(R) : R[i].late /\ Recording(c) => Len(R) - i + Len(B) < RxMax

\* What came in behind a receiver whose last poll came back empty, or that is gone.
LeftBehind(c) ==
    (rx[c] \in {"timeout", "exited"} /\ net[c] = "up") =>
        \A i \in 1 .. Len(chan[c]) : chan[c][i].unpolled

\* The main thread returns once every thread is gone.
Joined ==
    /\ main \in {"join_rx", "returned"} => \A c \in Conns : tx[c] = "exited"
    /\ main = "returned" => \A c \in Conns : rx[c] = "exited"

FlowInv ==
    /\ TypeOK /\ PhaseFollowsMain /\ Joined
    /\ \A c \in Conns : SenderInv(c) /\ PhaseInv(c) /\ EdgeInv(c) /\ LeftBehind(c)
    /\ ~mode.shuffled => \A c \in Conns : OrderInv(c) /\ LossInv(c)

-----------------------------------------------------------------------------
(***************************************************************************)
(* Appending to a sequence of messages and taking its head.                *)
(***************************************************************************)
LEMMA OrderAppend ==
    ASSUME NEW p, NEW q \in Seq(Message), NEW m \in Message,
           InOrder(p, q), \A i \in 1 .. Len(q) : Before(p, q[i], m)
    PROVE  InOrder(p, Append(q, m))
  <1>1. /\ Len(Append(q, m)) = Len(q) + 1 /\ Len(q) \in Nat
        /\ \A i \in 1 .. Len(q) : Append(q, m)[i] = q[i]
        /\ Append(q, m)[Len(q) + 1] = m
    BY AppendFacts
  <1> SUFFICES ASSUME NEW i \in 1 .. Len(q) + 1, NEW j \in 1 .. Len(q) + 1, i < j
               PROVE  Before(p, Append(q, m)[i], Append(q, m)[j])
    BY <1>1 DEF InOrder
  <1>2. i \in 1 .. Len(q) /\ (j \in 1 .. Len(q) \/ j = Len(q) + 1)
    BY <1>1
  <1> QED
    BY <1>1, <1>2 DEF InOrder

\* The rest of an ordered queue is ordered, and behind its head.
LEMMA OrderTail ==
    ASSUME NEW p, NEW q \in Seq(Message), q # << >>, InOrder(p, q)
    PROVE  /\ InOrder(p, Tail(q))
           /\ \A i \in 1 .. Len(Tail(q)) : Before(p, q[1], Tail(q)[i])
  <1>1. /\ Len(q) \in Nat \ {0} /\ Len(Tail(q)) = Len(q) - 1
        /\ \A i \in 1 .. Len(q) - 1 : Tail(q)[i] = q[i + 1]
    BY TailFacts
  <1>2. ASSUME NEW i \in 1 .. Len(Tail(q)) PROVE Before(p, q[1], Tail(q)[i])
    <2>1. i + 1 \in 1 .. Len(q) /\ 1 \in 1 .. Len(q) /\ 1 < i + 1 /\ Tail(q)[i] = q[i + 1]
      BY <1>1
    <2> QED
      BY <2>1 DEF InOrder
  <1>3. ASSUME NEW i \in 1 .. Len(Tail(q)), NEW j \in 1 .. Len(Tail(q)), i < j
        PROVE  Before(p, Tail(q)[i], Tail(q)[j])
    <2>1. /\ i + 1 \in 1 .. Len(q) /\ j + 1 \in 1 .. Len(q) /\ i + 1 < j + 1
          /\ Tail(q)[i] = q[i + 1] /\ Tail(q)[j] = q[j + 1]
      BY <1>1, <1>3
    <2> QED
      BY <2>1 DEF InOrder
  <1> QED
    BY <1>2, <1>3 DEF InOrder

\* A queue stays ahead of another when either grows by a message in between.
LEMMA AheadAppend ==
    ASSUME NEW p, NEW q \in Seq(Message), NEW r \in Seq(Message), NEW m \in Message,
           Ahead(p, q, r)
    PROVE  /\ (\A i \in 1 .. Len(q) : Before(p, q[i], m)) => Ahead(p, q, Append(r, m))
           /\ (\A i \in 1 .. Len(r) : Before(p, m, r[i])) => Ahead(p, Append(q, m), r)
  <1>1. /\ Len(Append(r, m)) = Len(r) + 1 /\ Len(r) \in Nat
        /\ \A i \in 1 .. Len(r) : Append(r, m)[i] = r[i]
        /\ Append(r, m)[Len(r) + 1] = m
    BY AppendFacts
  <1>2. /\ Len(Append(q, m)) = Len(q) + 1 /\ Len(q) \in Nat
        /\ \A i \in 1 .. Len(q) : Append(q, m)[i] = q[i]
        /\ Append(q, m)[Len(q) + 1] = m
    BY AppendFacts
  <1>3. ASSUME \A i \in 1 .. Len(q) : Before(p, q[i], m) PROVE Ahead(p, q, Append(r, m))
    <2> SUFFICES ASSUME NEW i \in 1 .. Len(q), NEW j \in 1 .. Len(r) + 1
                 PROVE  Before(p, q[i], Append(r, m)[j])
      BY <1>1 DEF Ahead
    <2>1. j \in 1 .. Len(r) \/ j = Len(r) + 1
      BY <1>1
    <2> QED
      BY <1>1, <1>3, <2>1 DEF Ahead
  <1>4. ASSUME \A i \in 1 .. Len(r) : Before(p, m, r[i]) PROVE Ahead(p, Append(q, m), r)
    <2> SUFFICES ASSUME NEW i \in 1 .. Len(q) + 1, NEW j \in 1 .. Len(r)
                 PROVE  Before(p, Append(q, m)[i], r[j])
      BY <1>2 DEF Ahead
    <2>1. i \in 1 .. Len(q) \/ i = Len(q) + 1
      BY <1>2
    <2> QED
      BY <1>2, <1>4, <2>1 DEF Ahead
  <1> QED
    BY <1>3, <1>4

\* A queue stays ahead of another when either loses its head.
LEMMA AheadTail ==
    ASSUME NEW p, NEW q \in Seq(Message), NEW r \in Seq(Message), Ahead(p, q, r)
    PROVE  /\ r # << >> => Ahead(p, q, Tail(r)) /\ \A i \in 1 .. Len(q) : Before(p, q[i], r[1])
           /\ q # << >> => Ahead(p, Tail(q), r) /\ \A i \in 1 .. Len(r) : Before(p, q[1], r[i])
  <1>1. ASSUME r # << >>
        PROVE  Ahead(p, q, Tail(r)) /\ \A i \in 1 .. Len(q) : Before(p, q[i], r[1])
    <2>1. /\ Len(r) \in Nat \ {0} /\ Len(Tail(r)) = Len(r) - 1
          /\ \A i \in 1 .. Len(r) - 1 : Tail(r)[i] = r[i + 1]
      BY <1>1, TailFacts
    <2>2. \A i \in 1 .. Len(Tail(r)) : i + 1 \in 1 .. Len(r) /\ Tail(r)[i] = r[i + 1]
      BY <2>1
    <2>3. 1 \in 1 .. Len(r)
      BY <2>1
    <2> QED
      BY <2>2, <2>3 DEF Ahead
  <1>2. ASSUME q # << >>
        PROVE  Ahead(p, Tail(q), r) /\ \A i \in 1 .. Len(r) : Before(p, q[1], r[i])
    <2>1. /\ Len(q) \in Nat \ {0} /\ Len(Tail(q)) = Len(q) - 1
          /\ \A i \in 1 .. Len(q) - 1 : Tail(q)[i] = q[i + 1]
      BY <1>2, TailFacts
    <2>2. \A i \in 1 .. Len(Tail(q)) : i + 1 \in 1 .. Len(q) /\ Tail(q)[i] = q[i + 1]
      BY <2>1
    <2>3. 1 \in 1 .. Len(q)
      BY <2>1
    <2> QED
      BY <2>2, <2>3 DEF Ahead
  <1> QED
    BY <1>1, <1>2

\* Messages sent earlier remain so as the sender goes on, and queues grow and shrink.
LEMMA IssuedFacts ==
    ASSUME NEW p, NEW q \in Seq(Message), NEW n \in Nat, NEW l \in Nat, Issued(p, q, n, l)
    PROVE  /\ \A n1 \in Nat, l1 \in Nat :
                n <= n1 /\ (p = "paced" => l <= l1) => Issued(p, q, n1, l1)
           /\ \A m \in Message : m.seq < n /\ (p = "paced" => m.seq < m.stamp /\ m.stamp < l)
                => Issued(p, Append(q, m), n, l)
           /\ q # << >> => Issued(p, Tail(q), n, l)
  <1>0. \A i \in 1 .. Len(q) : q[i].seq \in Nat /\ q[i].stamp \in Nat
    BY SeqFacts DEF Message
  <1>1. ASSUME NEW n1 \in Nat, NEW l1 \in Nat, n <= n1, p = "paced" => l <= l1
        PROVE  Issued(p, q, n1, l1)
    <2> SUFFICES ASSUME NEW i \in 1 .. Len(q)
                 PROVE  q[i].seq < n1 /\ (p = "paced" => q[i].seq < q[i].stamp /\ q[i].stamp < l1)
      BY DEF Issued
    <2>1. q[i].seq < n /\ (p = "paced" => q[i].seq < q[i].stamp /\ q[i].stamp < l)
      BY DEF Issued
    <2> QED
      BY <1>0, <1>1, <2>1
  <1>2. ASSUME NEW m \in Message, m.seq < n, p = "paced" => m.seq < m.stamp /\ m.stamp < l
        PROVE  Issued(p, Append(q, m), n, l)
    <2>1. /\ Len(Append(q, m)) = Len(q) + 1 /\ Len(q) \in Nat
          /\ \A i \in 1 .. Len(q) : Append(q, m)[i] = q[i]
          /\ Append(q, m)[Len(q) + 1] = m
      BY AppendFacts
    <2>2. \A i \in 1 .. Len(q) + 1 : i \in 1 .. Len(q) \/ i = Len(q) + 1
      BY <2>1
    <2> QED
      BY <1>2, <2>1, <2>2 DEF Issued
  <1>3. ASSUME q # << >> PROVE Issued(p, Tail(q), n, l)
    <2>1. /\ Len(q) \in Nat \ {0} /\ Len(Tail(q)) = Len(q) - 1
          /\ \A i \in 1 .. Len(q) - 1 : Tail(q)[i] = q[i + 1]
      BY <1>3, TailFacts
    <2>2. \A i \in 1 .. Len(Tail(q)) : i + 1 \in 1 .. Len(q) /\ Tail(q)[i] = q[i + 1]
      BY <2>1
    <2> QED
      BY <2>2 DEF Issued
  <1> QED
    BY <1>1, <1>2, <1>3

-----------------------------------------------------------------------------
(***************************************************************************)
(* What a step is to one connection d.                                     *)
(***************************************************************************)
Numbered(d) == NextSeq(d)' = NextSeq(d) /\ Limit(d)' = Limit(d)

\* Nothing of the flow moves.
Quiet(d) ==
    /\ UNCHANGED <<chan[d], batch[d], recorded[d], lost[d], Reader(d), rxMeasuring[d]>>
    /\ NextSeq(d)' = NextSeq(d) /\ Limit(d) <= Limit(d)'

\* Its threads are spawned.
Starts(d) ==
    /\ UNCHANGED <<chan[d], batch[d], recorded[d], lost[d], rxMeasuring[d], phase>>
    /\ Numbered(d) /\ phase = PHASE_WARMUP /\ Reader(d)' = "recv"

\* The transport takes message m, or a datagram path drops it.
Issues(d, m) ==
    /\ UNCHANGED <<phase, batch[d], recorded[d], Reader(d), rxMeasuring[d]>>
    /\ m \in Message /\ m.seq = NextSeq(d) /\ NextSeq(d)' = NextSeq(d) + 1
    /\ mode.pacing = "paced" => m.stamp = Limit(d) /\ Limit(d) < Limit(d)'
    /\ \/ chan'[d] = Append(chan[d], m) /\ lost'[d] = lost[d]
       \/ chan'[d] = chan[d] /\ lost'[d] = lost[d] \cup {m.seq}

\* The receiver drains the head of the FIFO as m.
Drains(d, m) ==
    /\ UNCHANGED <<phase, recorded[d], Reader(d), rxMeasuring[d]>> /\ Numbered(d)
    /\ Reader(d) = "recv" /\ chan[d] # << >> /\ Len(batch[d]) < RxMax
    /\ m \in Message /\ m.seq = chan[d][1].seq /\ m.stamp = chan[d][1].stamp
    /\ m.early = (phase = PHASE_WARMUP)
    /\ chan'[d] = Tail(chan[d]) /\ batch'[d] = Append(batch[d], m)
    /\ lost'[d] = IF m.intact THEN lost[d] ELSE lost[d] \cup {m.seq}

\* The receiver loads the phase for its batch.
Loads(d) ==
    /\ UNCHANGED <<phase, chan[d], batch[d], recorded[d], lost[d]>> /\ Numbered(d)
    /\ Reader(d) = "recv" /\ Reader(d)' = "ingest" /\ rxMeasuring'[d] = (phase = PHASE_MEASURE)

\* The receiver is done with the head of its batch; m is what it may record.
Ingests(d, m) ==
    /\ UNCHANGED <<phase, chan[d], lost[d], rxMeasuring[d]>> /\ Numbered(d)
    /\ Reader(d) = "ingest" /\ batch[d] # << >> /\ batch'[d] = Tail(batch[d])
    /\ Reader(d)' = IF Len(batch[d]) = 1 THEN "recv" ELSE "ingest"
    /\ m \in Message /\ m.seq = batch[d][1].seq /\ m.stamp = batch[d][1].stamp
    /\ m.early = batch[d][1].early /\ m.late = (phase > PHASE_MEASURE)
    /\ recorded'[d] = IF rxMeasuring[d] /\ batch[d][1].intact THEN Append(recorded[d], m)
                                                              ELSE recorded[d]

\* The receiver leaves its loop.
Leaves(d) ==
    /\ UNCHANGED <<phase, chan[d], recorded[d], lost[d], rxMeasuring[d]>> /\ Numbered(d)
    /\ Reader(d)' = "exited" /\ batch'[d] = << >>

\* The path loses the head of the FIFO.
Loses(d) ==
    /\ UNCHANGED <<phase, batch[d], recorded[d], Reader(d), rxMeasuring[d]>> /\ Numbered(d)
    /\ chan[d] # << >> /\ chan'[d] = Tail(chan[d]) /\ lost'[d] = lost[d] \cup {chan[d][1].seq}

\* A shuffled path moves messages, also between connections.
Mixes(d) ==
    /\ UNCHANGED <<phase, batch[d], recorded[d], lost[d], Reader(d), rxMeasuring[d]>> /\ Numbered(d)
    /\ mode.shuffled

FlowStep(d) ==
    \/ Quiet(d) \/ Starts(d) \/ Loads(d) \/ Leaves(d) \/ Loses(d) \/ Mixes(d)
    \/ \E m \in Message : Issues(d, m) \/ Drains(d, m) \/ Ingests(d, m)

\* The types of one connection.
LEMMA ConnTyped ==
    ASSUME TypeOK, NEW c \in Conns
    PROVE  /\ chan[c] \in Seq(Message) /\ batch[c] \in Seq(Message) /\ recorded[c] \in Seq(Message)
           /\ lost[c] \subseteq Nat /\ seq[c] \in Nat /\ sent[c] \in Nat /\ slot[c] \in Nat
           /\ NextSeq(c) \in Nat /\ Limit(c) \in Nat
           /\ Reader(c) \in {"idle", "recv", "ingest", "exited"} /\ rxMeasuring[c] \in BOOLEAN
           /\ tx[c] \in {"idle", "top", "asleep", "sending", "pushing", "exited"}
           /\ phase \in 0 .. 3
  <1>1. seq[c] \in Nat /\ sent[c] \in Nat /\ slot[c] \in Nat
    BY DEF TypeOK
  <1>2. NextSeq(c) \in Nat /\ Limit(c) \in Nat
    BY <1>1 DEF NextSeq, Limit
  <1>3. Reader(c) \in {"idle", "recv", "ingest", "exited"}
    BY DEF TypeOK, Reader
  <1> QED
    BY <1>1, <1>2, <1>3 DEF TypeOK, Phases, PHASE_WARMUP, PHASE_DONE

\* A connection none of whose variables changes is quiet.
LEMMA StillQuiet ==
    ASSUME TypeOK, NEW d \in Conns,
           UNCHANGED <<chan[d], batch[d], recorded[d], lost[d], rx[d], rxMeasuring[d],
                       tx[d], seq[d], sent[d], slot[d]>>
    PROVE  Quiet(d)
  BY ConnTyped DEF Quiet, NextSeq, Limit, Reader

\* The main thread sends and receives nothing.
LEMMA MainFlow ==
    ASSUME TypeOK, PhaseFollowsMain, MainStep, NEW d \in Conns
    PROVE  FlowStep(d)
  <1>1. CASE UNCHANGED <<txVars, netVars, rxVars>>
    BY <1>1, StillQuiet DEF FlowStep, txVars, netVars, rxVars
  <1>2. ASSUME NEW c \in Conns, Spawn(c) PROVE FlowStep(d)
    <2>1. /\ rx' = [rx EXCEPT ![c] = "recv"] /\ tx' = [tx EXCEPT ![c] = "top"]
          /\ tx[c] = "idle" /\ main \in {"connect", "spawn"}
          /\ UNCHANGED <<phase, seq, sent, slot, chan, lost, batch, rxMeasuring, recorded>>
      BY <1>2 DEF Spawn, netVars
    <2>2. CASE c # d
      <3>1. UNCHANGED <<rx[d], tx[d]>>
        BY <2>1, <2>2 DEF TypeOK
      <3> QED
        BY <2>1, <3>1, StillQuiet DEF FlowStep
    <2>3. CASE c = d
      <3>1. rx'[d] = "recv" /\ tx'[d] = "top" /\ Reader(d)' = "recv"
        BY <2>1, <2>3 DEF TypeOK, Reader
      <3>2. Numbered(d)
        BY <2>1, <2>3, <3>1 DEF Numbered, NextSeq, Limit
      <3> QED
        BY <2>1, <3>1, <3>2 DEF FlowStep, Starts, PhaseFollowsMain
    <2> QED
      BY <2>2, <2>3
  <1> QED
    BY <1>1, <1>2 DEF MainStep, Connect, StoreMeasure, StoreCooldown, StoreDone, NextPhase,
                      JoinTx, JoinRx

\* Every step of a sender is one of the kinds FlowStep names for each connection.
LEMMA SenderFlow ==
    ASSUME TypeOK, NEW d \in Conns, SenderInv(d), NEW c \in Conns, TxStep(c)
    PROVE  FlowStep(d)
  <1>r. UNCHANGED <<phase, rx, batch, rxMeasuring, recorded, mode>>
    BY DEF TxStep, TxDone, TxDraw, TxWake, TxSend, TxSendBlocked, TxStage, TxPush,
           TxFlush, TxError, mainVars, rxVars
  <1>0. UNCHANGED <<phase, rx, batch, rxMeasuring, recorded, mode, Reader(d)>>
    BY <1>r DEF Reader
  <1>1. CASE c # d
    <2>1. UNCHANGED <<chan[d], lost[d]>>
      <3>1. ASSUME NEW m, Accept(c, m) PROVE UNCHANGED <<chan[d], lost[d]>>
        BY <1>1, <3>1 DEF Accept, TypeOK
      <3> QED
        BY <3>1 DEF TxStep, TxDone, TxDraw, TxWake, TxSend, TxSendBlocked, TxStage, TxPush,
           TxFlush, TxError, netVars
    <2>2. UNCHANGED <<tx[d], seq[d], sent[d], slot[d]>>
      BY <1>1 DEF TxStep, TxDone, TxDraw, TxWake, TxSend, TxSendBlocked, TxStage, TxPush,
           TxFlush, TxError, TxExit, TypeOK
    <2> QED
      BY <1>0, <2>1, <2>2, StillQuiet DEF FlowStep
  <1>2. CASE c = d
    <2>t. /\ seq[d] \in Nat /\ sent[d] \in Nat /\ slot[d] \in Nat
          /\ DOMAIN tx = Conns /\ DOMAIN seq = Conns /\ DOMAIN sent = Conns /\ DOMAIN slot = Conns
          /\ DOMAIN chan = Conns /\ DOMAIN lost = Conns
      BY DEF TypeOK
    <2>1. CASE TxDone(d) \/ TxWake(d) \/ TxSendBlocked(d) \/ TxError(d)
      <3>1. UNCHANGED <<seq, sent, slot, chan, lost>>
        BY <2>1 DEF TxDone, TxWake, TxSendBlocked, TxError, netVars
      <3>2. \/ tx[d] \in {"asleep", "sending"}
            \/ tx'[d] \notin {"asleep", "sending"}
        BY <2>t, <2>1 DEF TxDone, TxWake, TxSendBlocked, TxError, TxExit
      <3>3. NextSeq(d)' = NextSeq(d) /\ Limit(d) <= Limit(d)'
        BY <2>t, <3>1, <3>2 DEF NextSeq, Limit
      <3> QED
        BY <1>0, <3>1, <3>3 DEF FlowStep, Quiet
    <2>2. CASE TxDraw(d)
      <3>1. /\ UNCHANGED <<seq, sent, chan, lost>> /\ tx[d] = "top" /\ tx'[d] = "asleep"
            /\ slot'[d] = slot[d] + 1
        BY <2>t, <2>2 DEF TxDraw, DrawSlot, netVars
      <3>2. NextSeq(d)' = NextSeq(d) /\ Limit(d) <= Limit(d)'
        BY <2>t, <3>1 DEF NextSeq, Limit
      <3> QED
        BY <1>0, <3>1, <3>2 DEF FlowStep, Quiet
    <2>3. CASE TxStage(d)
      <3>1. /\ UNCHANGED <<seq, slot, chan, lost>> /\ tx[d] = "top" /\ tx'[d] = "pushing"
            /\ sent'[d] = 0
        BY <2>t, <2>3 DEF TxStage, netVars
      <3>2. sent[d] = 0
        BY <3>1 DEF SenderInv
      <3>3. NextSeq(d)' = NextSeq(d) /\ Limit(d) <= Limit(d)'
        BY <2>t, <3>1, <3>2 DEF NextSeq, Limit
      <3> QED
        BY <1>0, <3>1, <3>3 DEF FlowStep, Quiet
    <2>4. CASE TxFlush(d)
      <3>1. /\ UNCHANGED <<slot, chan, lost>> /\ tx[d] = "pushing" /\ tx'[d] = "top"
            /\ sent'[d] = 0 /\ seq'[d] = seq[d] + sent[d]
        BY <2>t, <2>4 DEF TxFlush, Advance, netVars
      <3>3. NextSeq(d)' = NextSeq(d) /\ Limit(d) <= Limit(d)'
        BY <2>t, <3>1 DEF NextSeq, Limit
      <3> QED
        BY <1>0, <3>1, <3>3 DEF FlowStep, Quiet
    <2>5. ASSUME NEW n \in Nat, NEW t \in Nat, Accept(d, NewMessage(d, n, t))
          PROVE  /\ NewMessage(d, n, t) \in Message
                 /\ NewMessage(d, n, t).seq = n /\ NewMessage(d, n, t).stamp = t
                 /\ \/ chan'[d] = Append(chan[d], NewMessage(d, n, t)) /\ lost'[d] = lost[d]
                    \/ chan'[d] = chan[d] /\ lost'[d] = lost[d] \cup {NewMessage(d, n, t).seq}
      <3>1. /\ NewMessage(d, n, t) \in Message
            /\ NewMessage(d, n, t).seq = n /\ NewMessage(d, n, t).stamp = t
        BY DEF NewMessage, Message, TypeOK
      <3> QED
        BY <2>t, <2>5, <3>1 DEF Accept
    <2>6. CASE TxSend(d)
      <3>1. /\ Accept(d, NewMessage(d, seq[d], slot[d])) /\ tx[d] = "sending" /\ tx'[d] = "top"
            /\ UNCHANGED <<sent, slot>> /\ seq'[d] = seq[d] + 1
        BY <2>t, <2>6 DEF TxSend
      <3>2. sent[d] = 0
        BY <3>1 DEF SenderInv
      <3>3. /\ NextSeq(d)' = NextSeq(d) + 1 /\ seq[d] = NextSeq(d)
            /\ slot[d] = Limit(d) /\ Limit(d) < Limit(d)'
        BY <2>t, <3>1, <3>2 DEF NextSeq, Limit
      <3>4. Issues(d, NewMessage(d, seq[d], slot[d]))
        BY <1>0, <2>t, <2>5, <3>1, <3>3 DEF Issues
      <3> QED
        BY <3>4 DEF FlowStep, Issues
    <2>7. CASE TxPush(d)
      <3>1. /\ Accept(d, NewMessage(d, seq[d] + sent[d], 0)) /\ tx[d] = "pushing"
            /\ UNCHANGED <<tx, seq, slot>> /\ sent'[d] = sent[d] + 1
        BY <2>t, <2>7 DEF TxPush
      <3>2. mode.pacing # "paced"
        BY <3>1 DEF SenderInv
      <3>3. /\ NextSeq(d)' = NextSeq(d) + 1 /\ seq[d] + sent[d] = NextSeq(d)
            /\ seq[d] + sent[d] \in Nat /\ 0 \in Nat
        BY <2>t, <3>1 DEF NextSeq
      <3>4. Issues(d, NewMessage(d, seq[d] + sent[d], 0))
        BY <1>0, <2>5, <3>1, <3>2, <3>3 DEF Issues
      <3> QED
        BY <3>4 DEF FlowStep, Issues
    <2> QED
      BY <1>2, <2>1, <2>2, <2>3, <2>4, <2>6, <2>7 DEF TxStep
  <1> QED
    BY <1>1, <1>2

\* Every step of a receiver is one of the kinds FlowStep names for each connection.
LEMMA ReceiverFlow ==
    ASSUME TypeOK, NEW d \in Conns, NEW c \in Conns, RxStep(c)
    PROVE  FlowStep(d)
  <1>0. UNCHANGED <<phase, mode, tx, seq, sent, slot>>
    BY DEF RxStep, RxDrain, RxLoadPhase, RxIngest, RxTimeout, RxAfterTimeout, RxClosed, RxError, mainVars, txVars
  <1>n. Numbered(d)
    BY <1>0 DEF Numbered, NextSeq, Limit
  <1>1. CASE c # d
    <2>1. UNCHANGED <<chan[d], batch[d], rx[d], rxMeasuring[d], recorded[d], lost[d]>>
      <3>1. CASE RxDrain(c)
        BY <1>1, <3>1 DEF RxDrain, TypeOK
      <3>2. CASE RxLoadPhase(c) \/ RxTimeout(c) \/ RxAfterTimeout(c) \/ RxClosed(c) \/ RxError(c)
        BY <1>1, <3>2 DEF RxLoadPhase, RxTimeout, RxAfterTimeout, RxClosed, RxError, netVars, TypeOK
      <3>3. CASE RxIngest(c)
        BY <1>1, <3>3 DEF RxIngest, netVars, TypeOK
      <3> QED
        BY <3>1, <3>2, <3>3 DEF RxStep
    <2> QED
      BY <1>0, <2>1, StillQuiet DEF FlowStep
  <1>2. CASE c = d
    <2>t. /\ DOMAIN chan = Conns /\ DOMAIN lost = Conns /\ DOMAIN batch = Conns
          /\ DOMAIN rx = Conns /\ DOMAIN rxMeasuring = Conns /\ DOMAIN recorded = Conns
          /\ chan[d] \in Seq(Message) /\ batch[d] \in Seq(Message)
      BY DEF TypeOK
    <2>1. CASE RxDrain(d)
      <3>1. /\ UNCHANGED <<rx, rxMeasuring, recorded>> /\ rx[d] = "recv" /\ chan[d] # << >>
            /\ chan'[d] = Tail(chan[d]) /\ Len(batch[d]) < RxMax
        BY <2>t, <2>1 DEF RxDrain
      <3>2. Head(chan[d]) \in Message /\ Head(chan[d]) = chan[d][1]
        BY <2>t, <3>1, TailFacts
      <3>3. PICK good \in BOOLEAN :
              /\ batch'[d] = Append(batch[d],
                             [Head(chan[d]) EXCEPT !.early = (phase = PHASE_WARMUP),
                                                   !.intact = good, !.unpolled = FALSE,
                                                   !.moved = FALSE])
              /\ lost'[d] = lost[d] \cup (IF good THEN {} ELSE {Head(chan[d]).seq})
        BY <2>t, <2>1 DEF RxDrain
      <3> DEFINE m == [Head(chan[d]) EXCEPT !.early = (phase = PHASE_WARMUP), !.intact = good,
                                     !.unpolled = FALSE, !.moved = FALSE]
      <3>4. /\ m \in Message /\ m.seq = chan[d][1].seq /\ m.stamp = chan[d][1].stamp
            /\ m.early = (phase = PHASE_WARMUP) /\ m.intact = good
        BY <3>2 DEF Message
      <3>5. batch'[d] = Append(batch[d], m)
        BY <3>3
      <3> HIDE DEF m
      <3>6. lost'[d] = IF m.intact THEN lost[d] ELSE lost[d] \cup {m.seq}
        BY <3>2, <3>3, <3>4
      <3>8. Reader(d) = "recv" /\ Reader(d)' = Reader(d)
        BY <3>1 DEF Reader
      <3>7. Drains(d, m)
        BY <1>0, <1>n, <3>1, <3>4, <3>5, <3>6, <3>8 DEF Drains
      <3> QED
        BY <3>4, <3>7 DEF FlowStep
    <2>2. CASE RxLoadPhase(d)
      <3>1. /\ UNCHANGED <<chan, lost, batch, recorded>> /\ rx[d] = "recv" /\ rx'[d] = "ingest"
            /\ rxMeasuring'[d] = (phase = PHASE_MEASURE)
        BY <2>t, <2>2 DEF RxLoadPhase, LoadMeasuring, netVars
      <3>2. Reader(d) = "recv" /\ Reader(d)' = "ingest"
        BY <3>1 DEF Reader
      <3> QED
        BY <1>0, <1>n, <3>1, <3>2 DEF FlowStep, Loads
    <2>3. CASE RxIngest(d)
      <3> DEFINE m == [Head(batch[d]) EXCEPT !.late = (phase > PHASE_MEASURE)]
      <3>1. /\ UNCHANGED <<chan, lost, rxMeasuring>> /\ rx[d] = "ingest" /\ batch[d] # << >>
            /\ batch'[d] = Tail(batch[d])
            /\ rx'[d] = IF Len(batch[d]) = 1 THEN "recv" ELSE "ingest"
        BY <2>t, <2>3 DEF RxIngest, netVars
      <3>2. Head(batch[d]) \in Message /\ Head(batch[d]) = batch[d][1]
        BY <2>t, <3>1, TailFacts
      <3>3. recorded'[d] = IF rxMeasuring[d] /\ Head(batch[d]).intact
                           THEN Append(recorded[d], m) ELSE recorded[d]
        BY <2>t, <2>3 DEF RxIngest
      <3>4. /\ m \in Message /\ m.seq = batch[d][1].seq /\ m.stamp = batch[d][1].stamp
            /\ m.early = batch[d][1].early /\ m.late = (phase > PHASE_MEASURE)
        <4>1. (phase > PHASE_MEASURE) \in BOOLEAN
          BY ConnTyped DEF PHASE_MEASURE
        <4>2. ASSUME NEW b \in BOOLEAN
              PROVE  LET n == [Head(batch[d]) EXCEPT !.late = b]
                     IN  /\ n \in Message /\ n.seq = Head(batch[d]).seq
                         /\ n.stamp = Head(batch[d]).stamp /\ n.early = Head(batch[d]).early
                         /\ n.late = b
          BY <3>2 DEF Message
        <4> QED
          BY <3>2, <4>1, <4>2
      <3> HIDE DEF m
      <3>6. Reader(d) = "ingest" /\ Reader(d)' = IF Len(batch[d]) = 1 THEN "recv" ELSE "ingest"
        BY <3>1 DEF Reader
      <3>5. Ingests(d, m)
        BY <1>0, <1>n, <3>1, <3>2, <3>3, <3>4, <3>6 DEF Ingests
      <3> QED
        BY <3>4, <3>5 DEF FlowStep
    <2>4. CASE RxClosed(d) \/ RxError(d) \/ (RxAfterTimeout(d) /\ TimeoutLeaves(d))
      <3>1. /\ UNCHANGED <<chan, lost, recorded, rxMeasuring>> /\ rx'[d] = "exited"
            /\ batch'[d] = << >>
        BY <2>t, <2>4 DEF RxAfterTimeout, RxClosed, RxError, netVars
      <3>2. Reader(d)' = "exited"
        BY <3>1 DEF Reader
      <3> QED
        BY <1>0, <1>n, <3>1, <3>2 DEF FlowStep, Leaves
    <2>5. CASE RxTimeout(d) \/ (RxAfterTimeout(d) /\ ~TimeoutLeaves(d))
      <3>1. /\ UNCHANGED <<chan, lost, batch, recorded, rxMeasuring>>
            /\ rx[d] \in {"recv", "timeout"} /\ rx'[d] \in {"recv", "timeout"}
        BY <2>t, <2>5 DEF RxTimeout, RxAfterTimeout, netVars
      <3>2. Reader(d)' = Reader(d)
        BY <3>1 DEF Reader
      <3>3. Limit(d) \in Nat
        BY ConnTyped
      <3> QED
        BY <1>0, <1>n, <3>1, <3>2, <3>3 DEF FlowStep, Quiet, Numbered
    <2> QED
      BY <1>2, <2>1, <2>2, <2>3, <2>4, <2>5 DEF RxStep
  <1> QED
    BY <1>1, <1>2

\* Every step of the run is one of these to each connection.
LEMMA EveryStep ==
    ASSUME TypeOK, PhaseFollowsMain, NEW d \in Conns, SenderInv(d), [Next]_vars
    PROVE  FlowStep(d) /\ UNCHANGED mode
  <1>1. ASSUME UNCHANGED <<txVars, chan, lost, rxVars>> PROVE FlowStep(d)
    BY <1>1, StillQuiet DEF FlowStep, txVars, rxVars
  <1>2. ASSUME UNCHANGED vars PROVE FlowStep(d)
    BY <1>1, <1>2 DEF vars, netVars
  <1>3. ASSUME NEW c \in Conns, Lose(c) PROVE FlowStep(d)
    <2>1. /\ UNCHANGED <<phase, tx, seq, sent, slot, batch, recorded, rx, rxMeasuring>>
          /\ chan[c] # << >> /\ chan' = [chan EXCEPT ![c] = Tail(@)]
          /\ lost' = [lost EXCEPT ![c] = @ \cup {Head(chan[c]).seq}]
      BY <1>3 DEF Lose, mainVars, txVars, rxVars
    <2>2. CASE c # d
      <3>1. UNCHANGED <<chan[d], lost[d]>>
        BY <2>1, <2>2 DEF TypeOK
      <3> QED
        BY <2>1, <3>1, StillQuiet DEF FlowStep
    <2>3. CASE c = d
      <3>1. Head(chan[d]) = chan[d][1]
        BY <2>1, <2>3, TailFacts, ConnTyped
      <3>2. chan'[d] = Tail(chan[d]) /\ lost'[d] = lost[d] \cup {chan[d][1].seq}
        BY <2>1, <2>3, <3>1 DEF TypeOK
      <3>3. Numbered(d)
        BY <2>1 DEF Numbered, NextSeq, Limit
      <3>4. Reader(d)' = Reader(d)
        BY <2>1 DEF Reader
      <3> QED
        BY <2>1, <2>3, <3>2, <3>3, <3>4 DEF FlowStep, Loses
    <2> QED
      BY <2>2, <2>3
  <1>6. ASSUME NEW c \in Conns, Shuffle(c) PROVE FlowStep(d)
    <2>1. /\ UNCHANGED <<phase, tx, seq, sent, slot, batch, recorded, rx, rxMeasuring, lost>>
          /\ mode.shuffled
      BY <1>6 DEF Shuffle, mainVars, txVars, rxVars
    <2>2. Numbered(d) /\ Reader(d)' = Reader(d)
      BY <2>1 DEF Numbered, NextSeq, Limit, Reader
    <2> QED
      BY <2>1, <2>2 DEF FlowStep, Mixes
  <1>4. ASSUME EnvStep PROVE FlowStep(d)
    BY <1>1, <1>3, <1>4, <1>6 DEF EnvStep, GatewayFault, WatchdogKill
  <1>5. UNCHANGED mode
    <2>1. CASE MainStep
      BY <2>1 DEF MainStep, Connect, Spawn, StoreMeasure, StoreCooldown, StoreDone, NextPhase,
                  JoinTx, JoinRx
    <2>2. ASSUME NEW c \in Conns, TxStep(c) PROVE UNCHANGED mode
      BY <2>2 DEF TxStep, TxDone, TxDraw, TxWake, TxSend, TxSendBlocked, TxStage, TxPush,
                  TxFlush, TxError
    <2>3. ASSUME NEW c \in Conns, RxStep(c) PROVE UNCHANGED mode
      BY <2>3 DEF RxStep, RxDrain, RxLoadPhase, RxIngest, RxTimeout, RxAfterTimeout, RxClosed, RxError
    <2>4. CASE EnvStep
      BY <2>4 DEF EnvStep, Lose, Shuffle, GatewayFault, WatchdogKill
    <2> QED
      BY <2>1, <2>2, <2>3, <2>4 DEF Next, Finished, vars
  <1> QED
    BY <1>2, <1>4, <1>5, MainFlow, SenderFlow, ReceiverFlow DEF Next, Finished

-----------------------------------------------------------------------------
(***************************************************************************)
(* No message overtakes another, and none reuses a slot.                   *)
(***************************************************************************)

\* A message with the next number and slot is behind everything that was issued.
LEMMA NewestIsLast ==
    ASSUME NEW p, NEW q \in Seq(Message), NEW n \in Nat, NEW l \in Nat, Issued(p, q, n, l),
           NEW m \in Message, m.seq = n, p = "paced" => m.stamp = l
    PROVE  \A i \in 1 .. Len(q) : Before(p, q[i], m)
  BY DEF Issued, Before

\* Record, batch and channel of a connection stay in the order of sending.
LEMMA OrderStep ==
    ASSUME TypeOK, TypeOK', NEW d \in Conns, OrderInv(d), SenderInv(d), FlowStep(d), UNCHANGED mode,
           ~mode.shuffled
    PROVE  OrderInv(d)'
  <1> DEFINE p == mode.pacing
             n == NextSeq(d)
             l == Limit(d)
             R == recorded[d]
             B == batch[d]
             C == chan[d]
             n1 == NextSeq(d)'
             l1 == Limit(d)'
             R1 == recorded'[d]
             B1 == batch'[d]
             C1 == chan'[d]
  <1>t. /\ R \in Seq(Message) /\ B \in Seq(Message) /\ C \in Seq(Message)
        /\ n \in Nat /\ l \in Nat
    BY ConnTyped
  <1>u. n1 \in Nat /\ l1 \in Nat
    <2>1. seq'[d] \in Nat /\ sent'[d] \in Nat /\ slot'[d] \in Nat
      BY DEF TypeOK
    <2> QED
      BY <2>1 DEF NextSeq, Limit
  <1>o. /\ InOrder(p, R) /\ InOrder(p, B) /\ InOrder(p, C)
        /\ Ahead(p, R, B) /\ Ahead(p, R, C) /\ Ahead(p, B, C)
        /\ Issued(p, R, n, l) /\ Issued(p, B, n, l) /\ Issued(p, C, n, l)
    BY DEF OrderInv
  <1> SUFFICES /\ InOrder(p, R1) /\ InOrder(p, B1) /\ InOrder(p, C1)
               /\ Ahead(p, R1, B1) /\ Ahead(p, R1, C1) /\ Ahead(p, B1, C1)
               /\ Issued(p, R1, n1, l1) /\ Issued(p, B1, n1, l1) /\ Issued(p, C1, n1, l1)
    BY DEF OrderInv
  <1>e. InOrder(p, << >>) /\ (\A q : Ahead(p, q, << >>) /\ Ahead(p, << >>, q)) /\ Issued(p, << >>, n, l)
    <2>1. 1 .. Len(<< >>) = {}
      OBVIOUS
    <2> QED
      BY <2>1 DEF InOrder, Ahead, Issued
  <1>1. CASE Quiet(d)
    <2>1. R1 = R /\ B1 = B /\ C1 = C /\ n1 = n /\ l <= l1
      BY <1>1 DEF Quiet
    <2> HIDE DEF p, n, l, R, B, C, n1, l1, R1, B1, C1
    <2>2. n <= n1 /\ (p = "paced" => l <= l1)
      BY <1>t, <1>u, <2>1
    <2>3. Issued(p, R, n1, l1) /\ Issued(p, B, n1, l1) /\ Issued(p, C, n1, l1)
      BY <1>t, <1>u, <1>o, <2>2, IssuedFacts
    <2> QED
      BY <1>o, <2>1, <2>3
  <1>2. CASE Starts(d) \/ Loads(d)
    <2>1. R1 = R /\ B1 = B /\ C1 = C /\ n1 = n /\ l1 = l
      BY <1>2 DEF Starts, Loads, Numbered
    <2> HIDE DEF p, n, l, R, B, C, n1, l1, R1, B1, C1
    <2> QED
      BY <1>o, <2>1
  <1>3. CASE Leaves(d)
    <2>1. R1 = R /\ B1 = << >> /\ C1 = C /\ n1 = n /\ l1 = l
      BY <1>3 DEF Leaves, Numbered
    <2> HIDE DEF p, n, l, R, B, C, n1, l1, R1, B1, C1
    <2> QED
      BY <1>o, <1>e, <2>1
  <1>4. CASE Loses(d)
    <2>1. R1 = R /\ B1 = B /\ C # << >> /\ C1 = Tail(C) /\ n1 = n /\ l1 = l
      BY <1>4 DEF Loses, Numbered
    <2> HIDE DEF p, n, l, R, B, C, n1, l1, R1, B1, C1
    <2> QED
      BY <1>t, <1>o, <2>1, OrderTail, AheadTail, IssuedFacts
  <1>5. ASSUME NEW m \in Message, Issues(d, m)
        PROVE  /\ InOrder(p, R1) /\ InOrder(p, B1) /\ InOrder(p, C1)
               /\ Ahead(p, R1, B1) /\ Ahead(p, R1, C1) /\ Ahead(p, B1, C1)
               /\ Issued(p, R1, n1, l1) /\ Issued(p, B1, n1, l1) /\ Issued(p, C1, n1, l1)
    <2>1. /\ R1 = R /\ B1 = B /\ (C1 = Append(C, m) \/ C1 = C)
          /\ m.seq = n /\ n1 = n + 1 /\ (p = "paced" => m.stamp = l /\ l < l1 /\ n < l)
      BY <1>5 DEF Issues, SenderInv
    <2> HIDE DEF p, n, l, R, B, C, n1, l1, R1, B1, C1
    <2>2. n <= n1 /\ (p = "paced" => l <= l1)
      BY <1>t, <1>u, <2>1
    <2>3. Issued(p, R, n1, l1) /\ Issued(p, B, n1, l1) /\ Issued(p, C, n1, l1)
      BY <1>t, <1>u, <1>o, <2>2, IssuedFacts
    <2>4. /\ \A i \in 1 .. Len(R) : Before(p, R[i], m)
          /\ \A i \in 1 .. Len(B) : Before(p, B[i], m)
          /\ \A i \in 1 .. Len(C) : Before(p, C[i], m)
      BY <1>t, <1>o, <2>1, NewestIsLast
    <2>5. m.seq < n1 /\ (p = "paced" => m.seq < m.stamp /\ m.stamp < l1)
      BY <1>t, <1>u, <2>1
    <2>6. InOrder(p, Append(C, m)) /\ Ahead(p, R, Append(C, m)) /\ Ahead(p, B, Append(C, m))
      BY <1>t, <1>o, <2>4, OrderAppend, AheadAppend
    <2>7. Issued(p, Append(C, m), n1, l1)
      BY <1>t, <1>u, <2>3, <2>5, IssuedFacts
    <2> QED
      BY <1>o, <2>1, <2>3, <2>6, <2>7
  <1>6. ASSUME NEW m \in Message, Drains(d, m)
        PROVE  /\ InOrder(p, R1) /\ InOrder(p, B1) /\ InOrder(p, C1)
               /\ Ahead(p, R1, B1) /\ Ahead(p, R1, C1) /\ Ahead(p, B1, C1)
               /\ Issued(p, R1, n1, l1) /\ Issued(p, B1, n1, l1) /\ Issued(p, C1, n1, l1)
    <2>1. /\ R1 = R /\ B1 = Append(B, m) /\ C # << >> /\ C1 = Tail(C)
          /\ m.seq = C[1].seq /\ m.stamp = C[1].stamp /\ n1 = n /\ l1 = l
      BY <1>6 DEF Drains, Numbered
    <2> HIDE DEF p, n, l, R, B, C, n1, l1, R1, B1, C1
    <2>2. /\ InOrder(p, Tail(C)) /\ Ahead(p, R, Tail(C)) /\ Ahead(p, B, Tail(C))
          /\ Issued(p, Tail(C), n, l) /\ Tail(C) \in Seq(Message)
      BY <1>t, <1>o, <2>1, OrderTail, AheadTail, IssuedFacts, TailFacts
    <2>3. /\ \A i \in 1 .. Len(R) : Before(p, R[i], C[1])
          /\ \A i \in 1 .. Len(B) : Before(p, B[i], C[1])
          /\ \A i \in 1 .. Len(Tail(C)) : Before(p, C[1], Tail(C)[i])
      BY <1>t, <1>o, <2>1, OrderTail, AheadTail
    <2>4. /\ \A i \in 1 .. Len(R) : Before(p, R[i], m)
          /\ \A i \in 1 .. Len(B) : Before(p, B[i], m)
          /\ \A i \in 1 .. Len(Tail(C)) : Before(p, m, Tail(C)[i])
      BY <2>1, <2>3 DEF Before
    <2>5. m.seq < n /\ (p = "paced" => m.seq < m.stamp /\ m.stamp < l)
      <3>1. 1 \in 1 .. Len(C)
        BY <1>t, <2>1, TailFacts
      <3> QED
        BY <1>o, <2>1, <3>1 DEF Issued
    <2>6. InOrder(p, Append(B, m)) /\ Ahead(p, R, Append(B, m)) /\ Ahead(p, Append(B, m), Tail(C))
      BY <1>t, <1>o, <2>2, <2>4, OrderAppend, AheadAppend
    <2>7. Issued(p, Append(B, m), n, l)
      BY <1>t, <1>o, <2>5, IssuedFacts
    <2> QED
      BY <1>o, <2>1, <2>2, <2>6, <2>7
  <1>7. ASSUME NEW m \in Message, Ingests(d, m)
        PROVE  /\ InOrder(p, R1) /\ InOrder(p, B1) /\ InOrder(p, C1)
               /\ Ahead(p, R1, B1) /\ Ahead(p, R1, C1) /\ Ahead(p, B1, C1)
               /\ Issued(p, R1, n1, l1) /\ Issued(p, B1, n1, l1) /\ Issued(p, C1, n1, l1)
    <2>1. /\ R1 = Append(R, m) \/ R1 = R
          /\ B1 = Tail(B) /\ B # << >> /\ C1 = C
          /\ m.seq = B[1].seq /\ m.stamp = B[1].stamp /\ n1 = n /\ l1 = l
      BY <1>7 DEF Ingests, Numbered
    <2> HIDE DEF p, n, l, R, B, C, n1, l1, R1, B1, C1
    <2>2. /\ InOrder(p, Tail(B)) /\ Ahead(p, R, Tail(B)) /\ Ahead(p, Tail(B), C)
          /\ Issued(p, Tail(B), n, l) /\ Tail(B) \in Seq(Message)
      BY <1>t, <1>o, <2>1, OrderTail, AheadTail, IssuedFacts, TailFacts
    <2>3. /\ \A i \in 1 .. Len(R) : Before(p, R[i], B[1])
          /\ \A i \in 1 .. Len(C) : Before(p, B[1], C[i])
          /\ \A i \in 1 .. Len(Tail(B)) : Before(p, B[1], Tail(B)[i])
      BY <1>t, <1>o, <2>1, OrderTail, AheadTail
    <2>4. /\ \A i \in 1 .. Len(R) : Before(p, R[i], m)
          /\ \A i \in 1 .. Len(C) : Before(p, m, C[i])
          /\ \A i \in 1 .. Len(Tail(B)) : Before(p, m, Tail(B)[i])
      BY <2>1, <2>3 DEF Before
    <2>5. m.seq < n /\ (p = "paced" => m.seq < m.stamp /\ m.stamp < l)
      <3>1. 1 \in 1 .. Len(B)
        BY <1>t, <2>1, TailFacts
      <3> QED
        BY <1>o, <2>1, <3>1 DEF Issued
    <2>6. InOrder(p, Append(R, m)) /\ Ahead(p, Append(R, m), Tail(B)) /\ Ahead(p, Append(R, m), C)
      BY <1>t, <1>o, <2>2, <2>4, OrderAppend, AheadAppend
    <2>7. Issued(p, Append(R, m), n, l)
      BY <1>t, <1>o, <2>5, IssuedFacts
    <2> QED
      BY <1>o, <2>1, <2>2, <2>6, <2>7
  <1> QED
    BY <1>1, <1>2, <1>3, <1>4, <1>5, <1>6, <1>7 DEF FlowStep, Mixes

\* The sender's own counters.
LEMMA SenderStep ==
    ASSUME TypeOK, TypeOK', NEW d \in Conns, SenderInv(d), [Next]_vars, UNCHANGED mode
    PROVE  SenderInv(d)'
  <1>t. /\ DOMAIN tx = Conns /\ DOMAIN seq = Conns /\ DOMAIN sent = Conns /\ DOMAIN slot = Conns
        /\ seq[d] \in Nat /\ sent[d] \in Nat /\ slot[d] \in Nat
    BY DEF TypeOK
  <1>1. CASE UNCHANGED <<tx[d], seq[d], sent[d], slot[d]>>
    BY <1>1 DEF SenderInv, NextSeq, Limit
  <1>2. CASE UNCHANGED txVars
    BY <1>1, <1>2 DEF txVars
  <1>3. ASSUME NEW c \in Conns, Spawn(c) PROVE SenderInv(d)'
    <2>1. tx[c] = "idle" /\ tx' = [tx EXCEPT ![c] = "top"] /\ UNCHANGED <<seq, sent, slot>>
      BY <1>3 DEF Spawn
    <2>2. CASE c # d
      BY <1>1, <1>t, <2>1, <2>2
    <2>3. CASE c = d
      <3>1. tx[d] = "idle" /\ tx'[d] = "top"
        BY <1>t, <2>1, <2>3
      <3> QED
        BY <2>1, <3>1 DEF SenderInv, NextSeq, Limit
    <2> QED
      BY <2>2, <2>3
  <1>4. ASSUME NEW c \in Conns, TxStep(c) PROVE SenderInv(d)'
    <2>1. CASE c # d
      <3>1. UNCHANGED <<tx[d], seq[d], sent[d], slot[d]>>
        BY <1>t, <1>4, <2>1 DEF TxStep, TxDone, TxDraw, TxWake, TxSend, TxSendBlocked, TxStage,
           TxPush, TxFlush, TxError, TxExit
      <3> QED
        BY <1>1, <3>1
    <2>2. CASE c = d
      <3>1. CASE TxDone(d) \/ TxWake(d) \/ TxSendBlocked(d) \/ TxError(d)
        <4>1. UNCHANGED <<seq, sent, slot>>
          BY <3>1 DEF TxDone, TxWake, TxSendBlocked, TxError
        <4>2. /\ tx[d] \in {"asleep", "sending"} \/ tx'[d] = "exited"
              /\ tx'[d] # "pushing"
              /\ tx[d] \in {"top", "asleep", "sending", "pushing"}
          BY <1>t, <3>1 DEF TxDone, TxWake, TxSendBlocked, TxError, TxExit
        <4>3. Limit(d) <= Limit(d)' /\ Limit(d) \in Nat /\ Limit(d)' \in Nat
          BY <1>t, <4>1, <4>2 DEF Limit
        <4>4. NextSeq(d)' = NextSeq(d) /\ NextSeq(d) \in Nat
          BY <1>t, <4>1 DEF NextSeq
        <4> QED
          BY <4>1, <4>2, <4>3, <4>4 DEF SenderInv
      <3>2. CASE TxDraw(d)
        <4>1. /\ UNCHANGED <<seq, sent>> /\ tx[d] = "top" /\ tx'[d] = "asleep"
              /\ slot'[d] = slot[d] + 1
          BY <1>t, <3>2 DEF TxDraw, DrawSlot
        <4>2. NextSeq(d)' = NextSeq(d) /\ Limit(d)' = Limit(d)
          BY <1>t, <4>1 DEF NextSeq, Limit
        <4> QED
          BY <4>1, <4>2 DEF SenderInv
      <3>3. CASE TxSend(d)
        <4>1. /\ tx[d] = "sending" /\ tx'[d] = "top"
              /\ UNCHANGED <<sent, slot>> /\ seq'[d] = seq[d] + 1
          BY <1>t, <3>3 DEF TxSend
        <4>2. NextSeq(d)' = NextSeq(d) + 1 /\ Limit(d)' = Limit(d) + 1
          BY <1>t, <4>1 DEF NextSeq, Limit
        <4>3. NextSeq(d) \in Nat /\ Limit(d) \in Nat
          BY ConnTyped
        <4> QED
          BY <4>1, <4>2, <4>3 DEF SenderInv
      <3>4. CASE TxStage(d)
        <4>1. mode.pacing = "blast" /\ sent'[d] = 0
          BY <1>t, <3>4 DEF TxStage
        <4> QED
          BY <4>1 DEF SenderInv
      <3>5. CASE TxPush(d) \/ TxFlush(d)
        <4>1. /\ tx[d] = "pushing"
              /\ tx'[d] = "pushing" \/ sent'[d] = 0
          BY <1>t, <3>5 DEF TxPush, TxFlush
        <4>2. mode.pacing # "paced"
          BY <4>1 DEF SenderInv
        <4> QED
          BY <4>1, <4>2 DEF SenderInv
      <3> QED
        BY <1>4, <2>2, <3>1, <3>2, <3>3, <3>4, <3>5 DEF TxStep
    <2> QED
      BY <2>1, <2>2
  <1>5. ASSUME NEW c \in Conns, RxStep(c) PROVE SenderInv(d)'
    BY <1>2, <1>5 DEF RxStep, RxDrain, RxLoadPhase, RxIngest, RxTimeout, RxAfterTimeout, RxClosed, RxError
  <1>6. CASE EnvStep
    BY <1>2, <1>6 DEF EnvStep, Lose, Shuffle, GatewayFault, WatchdogKill
  <1>7. CASE UNCHANGED vars
    BY <1>2, <1>7 DEF vars
  <1>8. CASE MainStep
    BY <1>2, <1>3, <1>8 DEF MainStep, Connect, StoreMeasure, StoreCooldown, StoreDone,
                            NextPhase, JoinTx, JoinRx
  <1> QED
    BY <1>4, <1>5, <1>6, <1>7, <1>8 DEF Next, Finished

-----------------------------------------------------------------------------
(***************************************************************************)
(* The edges of the measure window.                                        *)
(***************************************************************************)

\* What each kind of step does to the flag a receiver records under.
LEMMA RecordingStep ==
    ASSUME TypeOK, TypeOK', NEW d \in Conns, FlowStep(d)
    PROVE  /\ Recording(d)' => Recording(d) \/ (Loads(d) /\ phase = PHASE_MEASURE)
           /\ Recording(d) \in BOOLEAN /\ Recording(d)' \in BOOLEAN
  <1>t. rxMeasuring[d] \in BOOLEAN /\ rxMeasuring'[d] \in BOOLEAN
    BY DEF TypeOK
  <1>1. CASE Quiet(d) \/ Starts(d) \/ Leaves(d) \/ Loses(d) \/ Mixes(d)
    BY <1>t, <1>1 DEF Quiet, Starts, Leaves, Loses, Mixes, Recording
  <1>2. CASE Loads(d)
    BY <1>t, <1>2 DEF Loads, Recording
  <1>3. ASSUME NEW m \in Message, Issues(d, m) \/ Drains(d, m) \/ Ingests(d, m)
        PROVE  Recording(d)' => Recording(d)
    BY <1>t, <1>3 DEF Issues, Drains, Ingests, Recording
  <1> QED
    BY <1>t, <1>1, <1>2, <1>3 DEF FlowStep, Recording

\* What was recorded, or is about to be, was loaded in MEASURE.
LEMMA PhaseStep ==
    ASSUME TypeOK, TypeOK', NEW d \in Conns, PhaseInv(d), FlowStep(d), phase <= phase'
    PROVE  PhaseInv(d)'
  <1>t. /\ phase \in 0 .. 3 /\ phase' \in 0 .. 3 /\ PHASE_MEASURE = 1 /\ PHASE_WARMUP = 0
        /\ rxMeasuring[d] \in BOOLEAN /\ rxMeasuring'[d] \in BOOLEAN
    BY DEF TypeOK, Phases, PHASE_WARMUP, PHASE_MEASURE, PHASE_DONE
  <1>r. Recording(d)' => phase' >= 1
    BY <1>t, RecordingStep DEF PhaseInv
  <1>1. CASE Quiet(d)
    BY <1>r, <1>1, <1>t DEF Quiet, PhaseInv
  <1>2. CASE Starts(d) \/ Leaves(d) \/ Loses(d) \/ Mixes(d)
    BY <1>r, <1>2, <1>t DEF Starts, Leaves, Loses, Mixes, PhaseInv
  <1>3. CASE Loads(d)
    <2>1. /\ UNCHANGED <<phase, recorded[d]>> /\ Reader(d)' = "ingest"
          /\ rxMeasuring'[d] = (phase = 1)
      BY <1>3, <1>t DEF Loads
    <2>2. ~rxMeasuring'[d] => phase # 1
      BY <2>1
    <2> QED
      BY <1>r, <1>t, <2>1, <2>2 DEF PhaseInv
  <1>4. ASSUME NEW m \in Message, Issues(d, m) \/ Drains(d, m) PROVE PhaseInv(d)'
    BY <1>r, <1>4, <1>t DEF Issues, Drains, PhaseInv
  <1>5. ASSUME NEW m \in Message, Ingests(d, m) PROVE PhaseInv(d)'
    <2>1. /\ UNCHANGED <<phase, rxMeasuring[d]>> /\ Reader(d) = "ingest"
          /\ recorded'[d] = recorded[d] \/ rxMeasuring[d]
      BY <1>5 DEF Ingests
    <2> QED
      BY <1>r, <1>t, <2>1 DEF PhaseInv, Recording
  <1> QED
    BY <1>1, <1>2, <1>3, <1>4, <1>5 DEF FlowStep

\* At each edge of the window at most one batch is blurred.
LEMMA EdgeStep ==
    ASSUME TypeOK, TypeOK', NEW d \in Conns, EdgeInv(d), PhaseInv(d), FlowStep(d),
           phase <= phase', UNCHANGED mode
    PROVE  EdgeInv(d)'
  <1> DEFINE R == recorded[d]
             B == batch[d]
             R1 == recorded'[d]
             B1 == batch'[d]
             x == RxMax
             EarlyB == \A i \in 1 .. Len(B1) : B1[i].early /\ Reader(d)' = "recv" => R1 = << >>
             EarlyM == \A i \in 1 .. Len(B1) : B1[i].early /\ Recording(d)' => Len(R1) + i <= x
             EarlyR == \A i \in 1 .. Len(R1) : R1[i].early => i <= x
             LateR  == \A i \in 1 .. Len(R1) : R1[i].late => phase' > 1 /\ Len(R1) - i < x
             LateM  == \A i \in 1 .. Len(R1) :
                          R1[i].late /\ Recording(d)' => Len(R1) - i + Len(B1) < x
  <1>t. /\ phase \in 0 .. 3 /\ phase' \in 0 .. 3 /\ PHASE_MEASURE = 1 /\ PHASE_WARMUP = 0
        /\ R \in Seq(Message) /\ B \in Seq(Message)
    BY DEF TypeOK, Phases, PHASE_WARMUP, PHASE_MEASURE, PHASE_DONE
  <1>x. x \in Nat \ {0} /\ RxMax' = x
    BY BoundsAssumption DEF RxMax
  <1>l. Len(R) \in Nat /\ Len(B) \in Nat
    BY <1>t
  <1>a. Len(B) <= x
    BY DEF EdgeInv
  <1>b. \A i \in 1 .. Len(B) : B[i].early /\ Reader(d) = "recv" => R = << >>
    BY DEF EdgeInv
  <1>c. \A i \in 1 .. Len(B) : B[i].early /\ Recording(d) => Len(R) + i <= x
    BY DEF EdgeInv
  <1>d. \A i \in 1 .. Len(R) : R[i].early => i <= x
    BY DEF EdgeInv
  <1>e. \A i \in 1 .. Len(R) : R[i].late => phase > 1 /\ Len(R) - i < x
    BY <1>t DEF EdgeInv
  <1>f. \A i \in 1 .. Len(R) : R[i].late /\ Recording(d) => Len(R) - i + Len(B) < x
    BY DEF EdgeInv
  <1>p. R # << >> => phase >= 1
    BY <1>t DEF PhaseInv
  <1> SUFFICES Len(B1) <= x /\ EarlyB /\ EarlyM /\ EarlyR /\ LateR /\ LateM
    <2>1. PHASE_MEASURE = 1 /\ RxMax' = RxMax
      BY <1>t, <1>x
    <2> QED
      BY <2>1 DEF EdgeInv
  <1>m. Recording(d)' => Recording(d) \/ (Loads(d) /\ phase = 1)
    BY <1>t, RecordingStep
  <1>1. ASSUME R1 = R, B1 = B, ~Loads(d), Reader(d)' = Reader(d) \/ R = << >> \/ Reader(d)' # "recv"
        PROVE  Len(B1) <= x /\ EarlyB /\ EarlyM /\ EarlyR /\ LateR /\ LateM
    <2> HIDE DEF R, B, R1, B1, x
    <2>1. EarlyB
      BY <1>1, <1>b
    <2>2. EarlyM
      BY <1>1, <1>c, <1>m
    <2>3. EarlyR /\ Len(B1) <= x
      BY <1>1, <1>a, <1>d
    <2>4. LateR
      BY <1>1, <1>e, <1>t
    <2>5. LateM
      BY <1>1, <1>f, <1>m
    <2> QED
      BY <2>1, <2>2, <2>3, <2>4, <2>5
  <1>2. CASE Quiet(d) /\ ~Loads(d)
    BY <1>1, <1>2 DEF Quiet
  <1>3. CASE Starts(d)
    <2>1. R1 = R /\ B1 = B /\ phase = 0 /\ Reader(d)' = "recv"
      BY <1>3, <1>t DEF Starts
    <2>2. R = << >> /\ ~Loads(d)
      BY <1>p, <1>t, <2>1 DEF Loads
    <2> QED
      BY <1>1, <2>1, <2>2
  <1>4. CASE (Loses(d) \/ Mixes(d)) /\ ~Loads(d)
    BY <1>1, <1>4 DEF Loses, Mixes
  <1>5. ASSUME NEW m \in Message, Issues(d, m)
        PROVE  Len(B1) <= x /\ EarlyB /\ EarlyM /\ EarlyR /\ LateR /\ LateM
    <2>1. R1 = R /\ B1 = B /\ Reader(d)' = Reader(d)
      BY <1>5 DEF Issues
    <2>2. ~Loads(d)
      BY <2>1 DEF Loads
    <2> QED
      BY <1>1, <2>1, <2>2
  <1>6. CASE Leaves(d)
    <2>1. R1 = R /\ B1 = << >> /\ phase' = phase /\ ~Recording(d)' /\ Reader(d)' # "recv"
      BY <1>6 DEF Leaves, Recording
    <2>2. Len(<< >>) = 0
      OBVIOUS
    <2> HIDE DEF R, B, R1, B1, x
    <2>3. Len(B1) <= x
      BY <1>x, <2>1, <2>2
    <2> QED
      BY <1>t, <1>d, <1>e, <2>1, <2>3
  <1>7. CASE Loads(d)
    <2>1. /\ R1 = R /\ B1 = B /\ Reader(d) = "recv" /\ Reader(d)' # "recv" /\ phase' = phase
          /\ Recording(d)' => phase = 1
      BY <1>7, <1>t DEF Loads, Recording
    <2>2. Len(<< >>) = 0
      OBVIOUS
    <2> HIDE DEF R, B, R1, B1, x
    <2>3. EarlyM
      <3> SUFFICES ASSUME NEW i \in 1 .. Len(B), B[i].early PROVE Len(R) + i <= x
        BY <2>1
      <3>1. R = << >>
        BY <1>b, <2>1
      <3> QED
        BY <1>a, <1>l, <1>x, <2>2, <3>1
    <2>4. LateM
      <3> SUFFICES ASSUME NEW i \in 1 .. Len(R), R[i].late PROVE ~Recording(d)'
        BY <2>1
      <3>1. phase > 1
        BY <1>e
      <3> QED
        BY <1>t, <2>1, <3>1
    <2> QED
      BY <1>a, <1>d, <1>e, <2>1, <2>3, <2>4
  <1>8. ASSUME NEW m \in Message, Drains(d, m)
        PROVE  Len(B1) <= x /\ EarlyB /\ EarlyM /\ EarlyR /\ LateR /\ LateM
    <2>1. /\ R1 = R /\ B1 = Append(B, m) /\ ~Recording(d)' /\ phase' = phase /\ Reader(d) = "recv"
          /\ Len(B) < x /\ (m.early => phase = 0)
      BY <1>8, <1>t DEF Drains, Recording
    <2> HIDE DEF R, B, R1, B1, x
    <2>2. /\ Len(B1) = Len(B) + 1 /\ \A i \in 1 .. Len(B) : B1[i] = B[i]
          /\ B1[Len(B) + 1] = m
      BY <1>t, <2>1, AppendFacts
    <2>3. \A i \in 1 .. Len(B1) : i \in 1 .. Len(B) \/ i = Len(B) + 1
      BY <1>l, <2>2
    <2>4. EarlyB
      <3> SUFFICES ASSUME NEW i \in 1 .. Len(B1), B1[i].early PROVE R = << >>
        BY <2>1
      <3>1. CASE i \in 1 .. Len(B)
        <4>1. B[i].early
          BY <2>2, <3>1
        <4> QED
          BY <1>b, <2>1, <3>1, <4>1
      <3>2. CASE i = Len(B) + 1
        <4>1. phase = 0
          BY <2>1, <2>2, <3>2
        <4> QED
          BY <1>p, <4>1
      <3> QED
        BY <2>3, <3>1, <3>2
    <2>5. Len(B1) <= x
      BY <1>l, <1>x, <2>1, <2>2
    <2> QED
      BY <1>t, <1>d, <1>e, <2>1, <2>4, <2>5
  <1>9. ASSUME NEW m \in Message, Ingests(d, m)
        PROVE  Len(B1) <= x /\ EarlyB /\ EarlyM /\ EarlyR /\ LateR /\ LateM
    <2>1. /\ B # << >> /\ B1 = Tail(B) /\ phase' = phase
          /\ m.early = B[1].early /\ m.late = (phase > 1)
          /\ Reader(d)' = "recv" => Len(B) = 1
          /\ \/ R1 = R
             \/ Recording(d) /\ R1 = Append(R, m)
      BY <1>9, <1>t DEF Ingests, Recording
    <2>0. Recording(d)' => Recording(d)
      BY <1>9 DEF Ingests, Recording
    <2> HIDE DEF R, B, R1, B1, x
    <2>2. /\ Len(B) \in Nat \ {0} /\ Len(B1) = Len(B) - 1
          /\ \A i \in 1 .. Len(B) - 1 : B1[i] = B[i + 1]
      BY <1>t, <2>1, TailFacts
    <2>3. \A i \in 1 .. Len(B1) : i + 1 \in 1 .. Len(B) /\ B1[i] = B[i + 1] /\ Reader(d)' # "recv"
      BY <2>1, <2>2
    <2>4. Len(B1) <= x /\ EarlyB
      BY <1>a, <1>x, <2>2, <2>3
    <2>5. ASSUME NEW i \in 1 .. Len(B1), B1[i].early, Recording(d) PROVE Len(R) + i + 1 <= x
      <3>1. i + 1 \in 1 .. Len(B) /\ B[i + 1].early
        BY <2>3, <2>5
      <3>2. Len(R) + (i + 1) <= x
        BY <1>c, <2>5, <3>1
      <3> QED
        BY <1>l, <1>x, <3>2
    <2>6. CASE R1 = R
      <3>1. EarlyM
        <4> SUFFICES ASSUME NEW i \in 1 .. Len(B1), B1[i].early, Recording(d)' PROVE Len(R) + i <= x
          BY <2>6
        <4>1. Len(R) + i + 1 <= x
          BY <2>0, <2>5
        <4> QED
          BY <1>l, <1>x, <4>1
      <3>2. LateM
        <4> SUFFICES ASSUME NEW i \in 1 .. Len(R), R[i].late, Recording(d)'
                     PROVE  Len(R) - i + Len(B1) < x
          BY <2>6
        <4>1. Len(R) - i + Len(B) < x
          BY <1>f, <2>0
        <4> QED
          BY <1>l, <1>x, <2>2, <4>1
      <3>3. EarlyR /\ LateR
        BY <1>d, <1>e, <2>1, <2>6
      <3> QED
        BY <2>4, <3>1, <3>2, <3>3
    <2>7. CASE Recording(d) /\ R1 = Append(R, m)
      <3>1. /\ Len(R1) = Len(R) + 1 /\ \A i \in 1 .. Len(R) : R1[i] = R[i]
            /\ R1[Len(R) + 1] = m
        BY <1>t, <2>7, AppendFacts
      <3>2. \A i \in 1 .. Len(R1) : i \in 1 .. Len(R) \/ i = Len(R) + 1
        BY <1>l, <3>1
      <3>3. EarlyM
        <4> SUFFICES ASSUME NEW i \in 1 .. Len(B1), B1[i].early PROVE Len(R1) + i <= x
          OBVIOUS
        <4>1. Len(R) + i + 1 <= x
          BY <2>5, <2>7
        <4> QED
          BY <1>l, <1>x, <3>1, <4>1
      <3>4. EarlyR
        <4> SUFFICES ASSUME NEW i \in 1 .. Len(R1), R1[i].early PROVE i <= x
          OBVIOUS
        <4>1. CASE i \in 1 .. Len(R)
          BY <1>d, <3>1, <4>1
        <4>2. CASE i = Len(R) + 1
          <5>1. B[1].early /\ 1 \in 1 .. Len(B)
            BY <2>1, <2>2, <3>1, <4>2
          <5>2. Len(R) + 1 <= x
            BY <1>c, <2>7, <5>1
          <5> QED
            BY <4>2, <5>2
        <4> QED
          BY <3>2, <4>1, <4>2
      <3>5. ASSUME NEW i \in 1 .. Len(R1), R1[i].late
            PROVE  phase' > 1 /\ Len(R1) - i < x /\ Len(R1) - i + Len(B1) < x
        <4>1. CASE i \in 1 .. Len(R)
          <5>1. R[i].late
            BY <3>1, <3>5, <4>1
          <5>2. phase > 1 /\ Len(R) - i + Len(B) < x
            BY <1>e, <1>f, <2>7, <4>1, <5>1
          <5> QED
            BY <1>l, <1>x, <2>1, <2>2, <3>1, <5>2
        <4>2. CASE i = Len(R) + 1
          <5>1. phase > 1
            BY <2>1, <3>1, <3>5, <4>2
          <5> QED
            BY <1>a, <1>l, <1>x, <2>1, <2>2, <3>1, <4>2, <5>1
        <4> QED
          BY <3>2, <4>1, <4>2
      <3> QED
        BY <2>4, <3>3, <3>4, <3>5
    <2> QED
      BY <2>1, <2>6, <2>7
  <1> QED
    BY <1>2, <1>3, <1>4, <1>5, <1>6, <1>7, <1>8, <1>9 DEF FlowStep

-----------------------------------------------------------------------------
(***************************************************************************)
(* Every gap in the record is a loss.                                      *)
(***************************************************************************)
LEMMA HasAppend ==
    ASSUME NEW q \in Seq(Message), NEW m \in Message
    PROVE  \A k : Has(Append(q, m), k) <=> Has(q, k) \/ m.seq = k
  <1>1. /\ Len(Append(q, m)) = Len(q) + 1 /\ Len(q) \in Nat
        /\ \A i \in 1 .. Len(q) : Append(q, m)[i] = q[i]
        /\ Append(q, m)[Len(q) + 1] = m
    BY AppendFacts
  <1>2. \A i : i \in 1 .. Len(Append(q, m)) <=> i \in 1 .. Len(q) \/ i = Len(q) + 1
    BY <1>1
  <1> QED
    BY <1>1, <1>2 DEF Has

\* The numbers of a queue are that of its head and those of the rest.
LEMMA HasTail ==
    ASSUME NEW q \in Seq(Message), q # << >>
    PROVE  \A k : Has(q, k) <=> q[1].seq = k \/ Has(Tail(q), k)
  <1>1. /\ Len(q) \in Nat \ {0} /\ Len(Tail(q)) = Len(q) - 1
        /\ \A i \in 1 .. Len(q) - 1 : Tail(q)[i] = q[i + 1]
    BY TailFacts
  <1> SUFFICES ASSUME NEW k PROVE Has(q, k) <=> q[1].seq = k \/ Has(Tail(q), k)
    OBVIOUS
  <1>2. ASSUME Has(q, k) PROVE q[1].seq = k \/ Has(Tail(q), k)
    <2>1. PICK i \in 1 .. Len(q) : q[i].seq = k
      BY <1>2 DEF Has
    <2>2. CASE i = 1
      BY <2>1, <2>2
    <2>3. CASE i # 1
      <3>1. i - 1 \in 1 .. Len(q) - 1 /\ (i - 1) + 1 = i
        BY <1>1, <2>3
      <3>2. Tail(q)[i - 1] = q[i] /\ i - 1 \in 1 .. Len(Tail(q))
        BY <1>1, <3>1
      <3> QED
        BY <2>1, <3>2 DEF Has
    <2> QED
      BY <2>2, <2>3
  <1>3. ASSUME Has(Tail(q), k) PROVE Has(q, k)
    <2>1. PICK i \in 1 .. Len(q) - 1 : Tail(q)[i].seq = k
      BY <1>1, <1>3 DEF Has
    <2>2. i + 1 \in 1 .. Len(q) /\ q[i + 1].seq = k
      BY <1>1, <2>1
    <2> QED
      BY <2>2 DEF Has
  <1>4. ASSUME q[1].seq = k PROVE Has(q, k)
    <2>1. 1 \in 1 .. Len(q)
      BY <1>1
    <2> QED
      BY <1>4, <2>1 DEF Has
  <1> QED
    BY <1>2, <1>3, <1>4

\* Coverage while messages are sent, drained, lost and ingested.
LEMMA CoveredIssued ==
    ASSUME NEW L, NEW B \in Seq(Message), NEW C \in Seq(Message), NEW n \in Nat, NEW b,
           NEW m \in Message, m.seq = n, b = n \/ Covered(L, B, C, n, b)
    PROVE  Covered(L, B, Append(C, m), n + 1, b) /\ Covered(L \cup {m.seq}, B, C, n + 1, b)
  <1> SUFFICES ASSUME NEW k \in Nat, b < k, k < n + 1
               PROVE  /\ k \in L \/ Has(B, k) \/ Has(Append(C, m), k)
                      /\ k \in L \cup {m.seq} \/ Has(B, k) \/ Has(C, k)
    BY DEF Covered
  <1>1. Has(Append(C, m), k) <=> Has(C, k) \/ m.seq = k
    BY HasAppend
  <1>2. k = n \/ k < n
    OBVIOUS
  <1>3. CASE b = n
    BY <1>2, <1>3
  <1> QED
    BY <1>1, <1>2, <1>3 DEF Covered

\* A drained message moves from the channel to the batch.
LEMMA CoveredDrained ==
    ASSUME NEW L, NEW L1, L \subseteq L1, NEW B \in Seq(Message), NEW C \in Seq(Message),
           NEW n \in Nat, NEW b,
           NEW m \in Message, C # << >>, m.seq = C[1].seq, Covered(L, B, C, n, b)
    PROVE  Covered(L1, Append(B, m), Tail(C), n, b)
  <1>1. \A k : Has(Append(B, m), k) <=> Has(B, k) \/ m.seq = k
    BY HasAppend
  <1>2. \A k : Has(C, k) <=> C[1].seq = k \/ Has(Tail(C), k)
    BY HasTail
  <1> QED
    BY <1>1, <1>2 DEF Covered

\* A lost message moves from the channel to the losses.
LEMMA CoveredLost ==
    ASSUME NEW L, NEW B \in Seq(Message), NEW C \in Seq(Message), NEW n \in Nat, NEW b,
           C # << >>, Covered(L, B, C, n, b)
    PROVE  Covered(L \cup {C[1].seq}, B, Tail(C), n, b)
  <1>1. \A k : Has(C, k) <=> C[1].seq = k \/ Has(Tail(C), k)
    BY HasTail
  <1> QED
    BY <1>1 DEF Covered

\* An ingested message is in the record now, or counted as damaged.
LEMMA CoveredIngested ==
    ASSUME NEW L, NEW B \in Seq(Message), NEW C \in Seq(Message), NEW n \in Nat, NEW b \in Nat,
           B # << >>, Covered(L, B, C, n, b), B[1].seq <= b \/ B[1].seq \in L
    PROVE  Covered(L, Tail(B), C, n, b)
  <1>1. \A k : Has(B, k) <=> B[1].seq = k \/ Has(Tail(B), k)
    BY HasTail
  <1>2. B[1].seq \in Nat
    BY TailFacts, SeqFacts
  <1> QED
    BY <1>1, <1>2 DEF Covered

\* A batch dropped behind the record covered nothing more.
LEMMA CoveredDropped ==
    ASSUME NEW L, NEW B \in Seq(Message), NEW C \in Seq(Message), NEW n \in Nat, NEW b \in Nat,
           Covered(L, B, C, n, b), \A i \in 1 .. Len(B) : B[i].seq < b
    PROVE  Covered(L, << >>, C, n, b)
  <1> SUFFICES ASSUME NEW k \in Nat, b < k, k < n PROVE k \in L \/ Has(C, k)
    BY DEF Covered
  <1>1. ~Has(B, k)
    <2> SUFFICES ASSUME NEW i \in 1 .. Len(B), B[i].seq = k PROVE FALSE
      BY DEF Has
    <2>1. k < b
      OBVIOUS
    <2> QED
      BY <2>1
  <1> QED
    BY <1>1 DEF Covered

\* What the order says of the numbers.
LEMMA Numbers ==
    ASSUME TypeOK, NEW d \in Conns, OrderInv(d)
    PROVE  /\ \A i \in 1 .. Len(recorded[d]) :
                recorded[d][i].seq \in Nat /\ recorded[d][i].seq < NextSeq(d)
           /\ \A i \in 1 .. Len(batch[d]) : batch[d][i].seq \in Nat /\ batch[d][i].seq < NextSeq(d)
           /\ \A i \in 1 .. Len(chan[d]) : chan[d][i].seq \in Nat /\ chan[d][i].seq < NextSeq(d)
           /\ \A i \in 1 .. Len(recorded[d]), j \in 1 .. Len(batch[d]) :
                recorded[d][i].seq < batch[d][j].seq
           /\ \A i \in 1 .. Len(recorded[d]), j \in 1 .. Len(chan[d]) :
                recorded[d][i].seq < chan[d][j].seq
           /\ \A i \in 1 .. Len(batch[d]), j \in 1 .. Len(chan[d]) :
                batch[d][i].seq < chan[d][j].seq
           /\ \A i, j \in 1 .. Len(batch[d]) : i < j => batch[d][i].seq < batch[d][j].seq
           /\ \A i, j \in 1 .. Len(chan[d]) : i < j => chan[d][i].seq < chan[d][j].seq
  <1>1. recorded[d] \in Seq(Message) /\ batch[d] \in Seq(Message) /\ chan[d] \in Seq(Message)
    BY ConnTyped
  <1>2. /\ \A i \in 1 .. Len(recorded[d]) : recorded[d][i].seq \in Nat
        /\ \A i \in 1 .. Len(batch[d]) : batch[d][i].seq \in Nat
        /\ \A i \in 1 .. Len(chan[d]) : chan[d][i].seq \in Nat
    BY <1>1, SeqFacts
  <1> QED
    BY <1>2 DEF OrderInv, Issued, Ahead, InOrder, Before

\* Every number from the first recorded on stays recorded, lost or on its way.
LEMMA LossStep ==
    ASSUME TypeOK, TypeOK', NEW d \in Conns, LossInv(d), OrderInv(d), PhaseInv(d), FlowStep(d),
           phase <= phase', ~mode.shuffled
    PROVE  LossInv(d)'
  <1> DEFINE R == recorded[d]
             B == batch[d]
             C == chan[d]
             L == lost[d]
             n == NextSeq(d)
             R1 == recorded'[d]
             B1 == batch'[d]
             C1 == chan'[d]
             L1 == lost'[d]
             n1 == NextSeq(d)'
             Below   == \A k \in L1 : k < n1
             RLost   == \A i \in 1 .. Len(R1) : R1[i].seq \notin L1
             BLost   == \A i \in 1 .. Len(B1) : B1[i].seq \in L1 <=> ~B1[i].intact
             CLost   == \A i \in 1 .. Len(C1) : C1[i].seq \notin L1
             BReach  == \A i \in 1 .. Len(B1) : Covered(L1, B1, C1, n1, B1[i].seq)
             CReach  == \A i \in 1 .. Len(C1) : Covered(L1, B1, C1, n1, C1[i].seq)
             RReach  == Open(d)' /\ R1 # << >> => Covered(L1, B1, C1, n1, R1[Len(R1)].seq)
             Gaps    == R1 # << >> => \A k \in Nat :
                           R1[1].seq <= k /\ k <= R1[Len(R1)].seq => k \in L1 \/ Has(R1, k)
  <1>t. /\ R \in Seq(Message) /\ B \in Seq(Message) /\ C \in Seq(Message) /\ L \subseteq Nat
        /\ n \in Nat
    BY ConnTyped
  <1>ln. Len(R) \in Nat /\ Len(B) \in Nat /\ Len(C) \in Nat
    BY <1>t
  <1>ph. /\ phase \in 0 .. 3 /\ phase' \in 0 .. 3 /\ PHASE_MEASURE = 1 /\ PHASE_WARMUP = 0
    BY DEF TypeOK, Phases, PHASE_WARMUP, PHASE_MEASURE, PHASE_DONE
  <1>p. /\ R # << >> => phase >= 1
        /\ R # << >> /\ Reader(d) = "ingest" /\ ~rxMeasuring[d] => phase > 1
    BY <1>ph DEF PhaseInv
  <1>rn. \A i \in 1 .. Len(R) : R[i].seq \in Nat /\ R[i].seq < n
    BY Numbers
  <1>bn. \A i \in 1 .. Len(B) : B[i].seq \in Nat /\ B[i].seq < n
    BY Numbers
  <1>cn. \A i \in 1 .. Len(C) : C[i].seq \in Nat /\ C[i].seq < n
    BY Numbers
  <1>rb. \A i \in 1 .. Len(R), j \in 1 .. Len(B) : R[i].seq < B[j].seq
    BY Numbers
  <1>rc. \A i \in 1 .. Len(R), j \in 1 .. Len(C) : R[i].seq < C[j].seq
    BY Numbers
  <1>bc. \A i \in 1 .. Len(B), j \in 1 .. Len(C) : B[i].seq < C[j].seq
    BY Numbers
  <1>bb. \A i, j \in 1 .. Len(B) : i < j => B[i].seq < B[j].seq
    BY Numbers
  <1>cc. \A i, j \in 1 .. Len(C) : i < j => C[i].seq < C[j].seq
    BY Numbers
  <1>a. \A k \in L : k < n
    BY DEF LossInv
  <1>b. \A i \in 1 .. Len(R) : R[i].seq \notin L
    BY DEF LossInv
  <1>c. \A i \in 1 .. Len(B) : B[i].seq \in L <=> ~B[i].intact
    BY DEF LossInv
  <1>d. \A i \in 1 .. Len(C) : C[i].seq \notin L
    BY DEF LossInv
  <1>e. \A i \in 1 .. Len(B) : Covered(L, B, C, n, B[i].seq)
    BY DEF LossInv
  <1>f. \A i \in 1 .. Len(C) : Covered(L, B, C, n, C[i].seq)
    BY DEF LossInv
  <1>g. Open(d) /\ R # << >> => Covered(L, B, C, n, R[Len(R)].seq)
    BY DEF LossInv
  <1>h. R # << >> => \A k \in Nat :
           R[1].seq <= k /\ k <= R[Len(R)].seq => k \in L \/ Has(R, k)
    BY DEF LossInv
  <1> SUFFICES Below /\ RLost /\ BLost /\ CLost /\ BReach /\ CReach /\ RReach /\ Gaps
    BY DEF LossInv
  <1>o. R # << >> /\ Open(d)' => Open(d) \/ R1 # R
    <2> SUFFICES ASSUME R # << >>, Open(d)', R1 = R PROVE Open(d)
      OBVIOUS
    <2>1. phase >= 1 /\ (phase' = 1 => phase = 1)
      BY <1>p, <1>ph
    <2>2. Recording(d)' => Recording(d) \/ (Loads(d) /\ phase = 1)
      BY <1>ph, RecordingStep
    <2>3. CASE Recording(d)'
      BY <1>ph, <2>2, <2>3 DEF Open, Loads
    <2>4. CASE Reader(d)' = "recv" /\ phase' = 1
      <3>1. CASE Quiet(d) \/ Loses(d)
        BY <1>ph, <2>1, <2>4, <3>1 DEF Quiet, Loses, Open
      <3>2. CASE Starts(d) \/ Leaves(d) \/ Loads(d)
        BY <1>ph, <2>1, <2>4, <3>2 DEF Starts, Leaves, Loads
      <3>3. ASSUME NEW m \in Message, Issues(d, m) \/ Drains(d, m) PROVE Open(d)
        BY <1>ph, <2>1, <2>4, <3>3 DEF Issues, Drains, Open
      <3>4. ASSUME NEW m \in Message, Ingests(d, m) PROVE Open(d)
        <4>1. Reader(d) = "ingest" /\ phase' = phase
          BY <3>4 DEF Ingests
        <4>2. rxMeasuring[d]
          BY <1>p, <1>ph, <2>4, <4>1
        <4> QED
          BY <4>1, <4>2 DEF Open, Recording
      <3> QED
        BY <3>1, <3>2, <3>3, <3>4 DEF FlowStep, Mixes
    <2> QED
      BY <1>ph, <2>3, <2>4 DEF Open
  <1>1. CASE Quiet(d) \/ Starts(d) \/ Loads(d)
    <2>1. R1 = R /\ B1 = B /\ C1 = C /\ L1 = L /\ n1 = n
      BY <1>1 DEF Quiet, Starts, Loads, Numbered
    <2> HIDE DEF R, B, C, L, n, R1, B1, C1, L1, n1
    <2>2. RReach
      BY <1>g, <1>o, <2>1
    <2> QED
      BY <1>a, <1>b, <1>c, <1>d, <1>e, <1>f, <1>h, <2>1, <2>2
  <1>2. CASE Leaves(d)
    <2>1. R1 = R /\ B1 = << >> /\ C1 = C /\ L1 = L /\ n1 = n /\ ~Open(d)'
      BY <1>2 DEF Leaves, Numbered, Open, Recording
    <2>2. 1 .. Len(<< >>) = {}
      OBVIOUS
    <2> HIDE DEF R, B, C, L, n, R1, B1, C1, L1, n1
    <2>3. CReach
      BY <1>t, <1>cn, <1>bc, <1>f, <2>1, CoveredDropped
    <2>4. BLost /\ BReach
      BY <2>1, <2>2
    <2> QED
      BY <1>a, <1>b, <1>d, <1>h, <2>1, <2>3, <2>4
  <1>3. CASE Loses(d)
    <2>1. R1 = R /\ B1 = B /\ C # << >> /\ C1 = Tail(C) /\ L1 = L \cup {C[1].seq} /\ n1 = n
      BY <1>3 DEF Loses, Numbered
    <2> HIDE DEF R, B, C, L, n, R1, B1, C1, L1, n1
    <2>2. /\ Len(C) \in Nat \ {0} /\ Len(C1) = Len(C) - 1
          /\ \A i \in 1 .. Len(C) - 1 : C1[i] = C[i + 1]
      BY <1>t, <2>1, TailFacts
    <2>3. 1 \in 1 .. Len(C) /\ \A i \in 1 .. Len(C1) : i + 1 \in 1 .. Len(C) /\ C1[i] = C[i + 1] /\ 1 < i + 1
      BY <2>2
    <2>4. Below
      BY <1>a, <1>cn, <2>1, <2>3
    <2>5. RLost
      <3>1. \A i \in 1 .. Len(R) : R[i].seq # C[1].seq
        BY <1>rn, <1>cn, <1>rc, <2>3
      <3> QED
        BY <1>b, <2>1, <3>1
    <2>6. BLost
      <3>1. \A i \in 1 .. Len(B) : B[i].seq # C[1].seq
        BY <1>bn, <1>cn, <1>bc, <2>3
      <3> QED
        BY <1>c, <2>1, <3>1
    <2>7. CLost
      <3>1. \A i \in 1 .. Len(C1) : C1[i].seq # C[1].seq /\ C1[i].seq \notin L
        BY <1>cn, <1>cc, <1>d, <2>3
      <3> QED
        BY <2>1, <3>1
    <2>8. \A b : Covered(L, B, C, n, b) => Covered(L1, B1, C1, n1, b)
      BY <1>t, <2>1, CoveredLost
    <2>9. BReach /\ CReach
      BY <1>e, <1>f, <2>1, <2>3, <2>8
    <2>10. RReach
      BY <1>g, <1>o, <2>1, <2>8
    <2>11. Gaps
      BY <1>h, <2>1
    <2> QED
      BY <2>4, <2>5, <2>6, <2>7, <2>9, <2>10, <2>11
  <1>4. ASSUME NEW m \in Message, Issues(d, m)
        PROVE  Below /\ RLost /\ BLost /\ CLost /\ BReach /\ CReach /\ RReach /\ Gaps
    <2>1. /\ R1 = R /\ B1 = B /\ m.seq = n /\ n1 = n + 1
          /\ \/ C1 = Append(C, m) /\ L1 = L
             \/ C1 = C /\ L1 = L \cup {m.seq}
      BY <1>4 DEF Issues
    <2> HIDE DEF R, B, C, L, n, R1, B1, C1, L1, n1
    <2>2. \A b : b = n \/ Covered(L, B, C, n, b) => Covered(L1, B1, C1, n1, b)
      <3> SUFFICES ASSUME NEW b, b = n \/ Covered(L, B, C, n, b) PROVE Covered(L1, B1, C1, n1, b)
        OBVIOUS
      <3>1. Covered(L, B, Append(C, m), n + 1, b) /\ Covered(L \cup {m.seq}, B, C, n + 1, b)
        BY <1>t, <2>1, CoveredIssued
      <3> QED
        BY <2>1, <3>1
    <2>3. /\ Len(Append(C, m)) = Len(C) + 1 /\ \A i \in 1 .. Len(C) : Append(C, m)[i] = C[i]
          /\ Append(C, m)[Len(C) + 1] = m
      BY <1>t, AppendFacts
    <2>4. n \notin L /\ \A k \in L : k < n1
      BY <1>a, <1>t, <2>1
    <2>5. Below
      <3>1. L1 \subseteq L \cup {n} /\ n < n1
        BY <1>t, <2>1
      <3> QED
        BY <2>4, <3>1
    <2>6. RLost
      BY <1>rn, <1>b, <1>t, <2>1
    <2>7. BLost
      BY <1>bn, <1>c, <1>t, <2>1
    <2>8. \A i \in 1 .. Len(C1) : \/ i \in 1 .. Len(C) /\ C1[i] = C[i]
                                  \/ C1[i] = m /\ L1 = L
      BY <1>ln, <2>1, <2>3
    <2>9. CLost
      <3>1. \A i \in 1 .. Len(C) : C[i].seq \notin L1
        BY <1>cn, <1>d, <1>t, <2>1
      <3> QED
        BY <2>1, <2>4, <2>8, <3>1
    <2>10. BReach
      BY <1>e, <2>1, <2>2
    <2>11. CReach
      BY <1>f, <2>1, <2>2, <2>8
    <2>12. RReach
      BY <1>g, <1>o, <2>1, <2>2
    <2>13. Gaps
      BY <1>h, <2>1
    <2> QED
      BY <2>5, <2>6, <2>7, <2>9, <2>10, <2>11, <2>12, <2>13
  <1>5. ASSUME NEW m \in Message, Drains(d, m)
        PROVE  Below /\ RLost /\ BLost /\ CLost /\ BReach /\ CReach /\ RReach /\ Gaps
    <2>1. /\ R1 = R /\ B1 = Append(B, m) /\ C # << >> /\ C1 = Tail(C) /\ n1 = n
          /\ m.seq = C[1].seq /\ L1 = IF m.intact THEN L ELSE L \cup {m.seq}
      BY <1>5 DEF Drains, Numbered
    <2> HIDE DEF R, B, C, L, n, R1, B1, C1, L1, n1
    <2>2. /\ Len(C) \in Nat \ {0} /\ Len(C1) = Len(C) - 1
          /\ \A i \in 1 .. Len(C) - 1 : C1[i] = C[i + 1]
      BY <1>t, <2>1, TailFacts
    <2>3. 1 \in 1 .. Len(C) /\ \A i \in 1 .. Len(C1) : i + 1 \in 1 .. Len(C) /\ C1[i] = C[i + 1] /\ 1 < i + 1
      BY <2>2
    <2>4. /\ Len(B1) = Len(B) + 1 /\ \A i \in 1 .. Len(B) : B1[i] = B[i]
          /\ B1[Len(B) + 1] = m
      BY <1>t, <2>1, AppendFacts
    <2>5. \A i \in 1 .. Len(B1) : (i \in 1 .. Len(B) /\ B1[i] = B[i]) \/ B1[i] = m
      BY <1>ln, <2>4
    <2>6. L \subseteq L1 /\ L1 \subseteq L \cup {C[1].seq}
      BY <2>1
    <2>7. Below
      BY <1>a, <1>cn, <2>1, <2>3, <2>6
    <2>8. RLost
      <3>1. \A i \in 1 .. Len(R) : R[i].seq # C[1].seq
        BY <1>rn, <1>cn, <1>rc, <2>3
      <3> QED
        BY <1>b, <2>1, <2>6, <3>1
    <2>9. BLost
      <3>1. \A i \in 1 .. Len(B) : B[i].seq # C[1].seq
        BY <1>bn, <1>cn, <1>bc, <2>3
      <3>2. \A i \in 1 .. Len(B) : B[i].seq \in L1 <=> B[i].seq \in L
        BY <2>6, <3>1
      <3>3. m.seq \in L1 <=> ~m.intact
        BY <1>d, <2>1, <2>3
      <3> QED
        BY <1>c, <2>5, <3>2, <3>3
    <2>10. CLost
      <3>1. \A i \in 1 .. Len(C1) : C1[i].seq # C[1].seq /\ C1[i].seq \notin L
        BY <1>cn, <1>cc, <1>d, <2>3
      <3> QED
        BY <2>6, <3>1
    <2>11. \A b : Covered(L, B, C, n, b) => Covered(L1, B1, C1, n1, b)
      BY <1>t, <2>1, <2>6, CoveredDrained
    <2>12. BReach
      <3>1. Covered(L1, B1, C1, n1, m.seq)
        BY <1>f, <2>1, <2>3, <2>11
      <3> QED
        BY <1>e, <2>5, <2>11, <3>1
    <2>13. CReach
      BY <1>f, <2>3, <2>11
    <2>14. RReach
      BY <1>g, <1>o, <2>1, <2>11
    <2>15. Gaps
      BY <1>h, <2>1, <2>6
    <2> QED
      BY <2>7, <2>8, <2>9, <2>10, <2>12, <2>13, <2>14, <2>15
  <1>6. ASSUME NEW m \in Message, Ingests(d, m)
        PROVE  Below /\ RLost /\ BLost /\ CLost /\ BReach /\ CReach /\ RReach /\ Gaps
    <2>1. /\ B # << >> /\ B1 = Tail(B) /\ C1 = C /\ L1 = L /\ n1 = n /\ m.seq = B[1].seq
          /\ \/ R1 = R /\ ~(rxMeasuring[d] /\ B[1].intact)
             \/ R1 = Append(R, m) /\ Recording(d) /\ B[1].intact
      BY <1>6 DEF Ingests, Numbered, Recording
    <2>0. ~rxMeasuring[d] /\ R # << >> => ~Open(d)'
      BY <1>6, <1>p, <1>ph DEF Ingests, Open, Recording
    <2> HIDE DEF R, B, C, L, n, R1, B1, C1, L1, n1
    <2>2. /\ Len(B) \in Nat \ {0} /\ Len(B1) = Len(B) - 1
          /\ \A i \in 1 .. Len(B) - 1 : B1[i] = B[i + 1]
      BY <1>t, <2>1, TailFacts
    <2>3. 1 \in 1 .. Len(B) /\ \A i \in 1 .. Len(B1) : i + 1 \in 1 .. Len(B) /\ B1[i] = B[i + 1] /\ 1 < i + 1
      BY <2>2
    <2>4. Below /\ BLost /\ CLost
      BY <1>a, <1>c, <1>d, <2>1, <2>3
    <2>5. \A b \in Nat : Covered(L, B, C, n, b) /\ (B[1].seq <= b \/ B[1].seq \in L)
                            => Covered(L1, B1, C1, n1, b)
      BY <1>t, <2>1, CoveredIngested
    <2>6. BReach
      <3> SUFFICES ASSUME NEW i \in 1 .. Len(B1) PROVE Covered(L1, B1, C1, n1, B1[i].seq)
        OBVIOUS
      <3>1. B1[i].seq \in Nat /\ B[1].seq \in Nat /\ B[1].seq < B1[i].seq
        BY <1>bn, <1>bb, <2>3
      <3>2. Covered(L, B, C, n, B1[i].seq)
        BY <1>e, <2>3
      <3> QED
        BY <2>5, <3>1, <3>2
    <2>7. CReach
      <3> SUFFICES ASSUME NEW i \in 1 .. Len(C) PROVE Covered(L1, B1, C1, n1, C[i].seq)
        BY <2>1
      <3>1. C[i].seq \in Nat /\ B[1].seq \in Nat /\ B[1].seq < C[i].seq
        BY <1>bn, <1>cn, <1>bc, <2>3
      <3> QED
        BY <1>f, <2>5, <3>1
    <2>8. CASE R1 = R /\ ~(rxMeasuring[d] /\ B[1].intact)
      <3>1. RReach
        <4> SUFFICES ASSUME Open(d)', R # << >> PROVE Covered(L1, B1, C1, n1, R[Len(R)].seq)
          BY <2>8
        <4>1. rxMeasuring[d] /\ ~B[1].intact
          BY <2>0, <2>8
        <4>2. B[1].seq \in L
          BY <1>c, <2>3, <4>1
        <4>3. Len(R) \in 1 .. Len(R)
          BY <1>t
        <4>4. R[Len(R)].seq \in Nat /\ Covered(L, B, C, n, R[Len(R)].seq)
          BY <1>g, <1>o, <1>rn, <2>8, <4>3
        <4> QED
          BY <2>5, <4>2, <4>4
      <3> QED
        BY <1>b, <1>h, <2>1, <2>4, <2>6, <2>7, <2>8, <3>1
    <2>9. CASE R1 = Append(R, m) /\ Recording(d) /\ B[1].intact
      <3>1. /\ Len(R1) = Len(R) + 1 /\ \A i \in 1 .. Len(R) : R1[i] = R[i]
            /\ R1[Len(R) + 1] = m
        BY <1>t, <2>9, AppendFacts
      <3>2. \A i \in 1 .. Len(R1) : (i \in 1 .. Len(R) /\ R1[i] = R[i]) \/ R1[i] = m
        BY <1>ln, <3>1
      <3>3. m.seq \notin L /\ m.seq \in Nat
        BY <1>bn, <1>c, <2>1, <2>3, <2>9
      <3>4. RLost
        BY <1>b, <2>1, <3>2, <3>3
      <3>5. RReach
        <4>1. R1[Len(R1)] = m
          BY <3>1
        <4>2. Covered(L, B, C, n, B[1].seq) /\ B[1].seq \in Nat /\ B[1].seq <= B[1].seq
          BY <1>bn, <1>e, <2>3
        <4> QED
          BY <2>1, <2>5, <4>1, <4>2
      <3>6. Gaps
        <4>0. \A k : Has(R1, k) <=> Has(R, k) \/ m.seq = k
          BY <1>t, <2>9, HasAppend
        <4> SUFFICES ASSUME NEW k \in Nat, R1[1].seq <= k, k <= m.seq
                     PROVE  k \in L \/ Has(R, k) \/ m.seq = k
          BY <2>1, <3>1, <4>0
        <4>1. CASE R = << >>
          <5>1. R1[1] = m
            BY <1>t, <3>1, <4>1
          <5> QED
            BY <3>3, <5>1
        <4>2. CASE R # << >>
          <5>1. 1 \in 1 .. Len(R) /\ Len(R) \in 1 .. Len(R)
            BY <1>t, <4>2
          <5>2. R1[1] = R[1] /\ R[Len(R)].seq \in Nat
            BY <1>rn, <3>1, <5>1
          <5>3. CASE k <= R[Len(R)].seq
            BY <1>h, <4>2, <5>2, <5>3
          <5>4. CASE R[Len(R)].seq < k /\ k < m.seq
            <6>1. Covered(L, B, C, n, R[Len(R)].seq)
              BY <1>g, <2>9, <4>2 DEF Open
            <6>2. k < n
              BY <1>bn, <1>t, <2>1, <2>3, <5>4
            <6>3. ~Has(B, k)
              <7> SUFFICES ASSUME NEW i \in 1 .. Len(B), B[i].seq = k PROVE FALSE
                BY DEF Has
              <7>1. i = 1 \/ 1 < i
                OBVIOUS
              <7>2. B[1].seq \in Nat /\ B[1].seq <= B[i].seq
                BY <1>bn, <1>bb, <2>3, <7>1
              <7> QED
                BY <2>1, <5>4, <7>2
            <6>4. ~Has(C, k)
              <7> SUFFICES ASSUME NEW i \in 1 .. Len(C), C[i].seq = k PROVE FALSE
                BY DEF Has
              <7>1. B[1].seq \in Nat /\ B[1].seq < C[i].seq
                BY <1>bn, <1>bc, <2>3
              <7> QED
                BY <2>1, <5>4, <7>1
            <6> QED
              BY <5>4, <6>1, <6>2, <6>3, <6>4 DEF Covered
          <5> QED
            BY <3>3, <5>2, <5>3, <5>4
        <4> QED
          BY <4>1, <4>2
      <3> QED
        BY <2>4, <2>6, <2>7, <3>4, <3>5, <3>6
    <2> QED
      BY <2>1, <2>8, <2>9
  <1> QED
    BY <1>1, <1>2, <1>3, <1>4, <1>5, <1>6 DEF FlowStep, Mixes

-----------------------------------------------------------------------------
(***************************************************************************)
(* The ends of the threads.                                                *)
(***************************************************************************)

\* A receiver stops reading a healthy path only when it is empty, and knows what comes in then.
LEMMA LeftStep ==
    ASSUME TypeOK, TypeOK', NEW d \in Conns, LeftBehind(d), [Next]_vars
    PROVE  LeftBehind(d)'
  <1>t. /\ DOMAIN tx = Conns /\ DOMAIN rx = Conns /\ DOMAIN chan = Conns /\ DOMAIN net = Conns
        /\ chan[d] \in Seq(Message)
    BY DEF TypeOK
  <1>0. ASSUME UNCHANGED <<chan[d], rx[d]>>, net'[d] = "up" => net[d] = "up"
        PROVE  LeftBehind(d)'
    BY <1>0 DEF LeftBehind
  <1>1. CASE UNCHANGED <<chan, net, rx>>
    BY <1>0, <1>1
  <1>2. ASSUME NEW c \in Conns, Spawn(c) PROVE LeftBehind(d)'
    <2>1. /\ tx[c] = "idle" /\ tx' = [tx EXCEPT ![c] = "top"] /\ rx' = [rx EXCEPT ![c] = "recv"]
          /\ UNCHANGED <<chan, net>>
      BY <1>2 DEF Spawn, netVars
    <2>2. CASE c # d
      BY <1>0, <1>t, <2>1, <2>2
    <2>3. CASE c = d
      BY <1>t, <2>1, <2>3 DEF LeftBehind
    <2> QED
      BY <2>2, <2>3
  <1>3. ASSUME NEW c \in Conns, TxStep(c) PROVE LeftBehind(d)'
    <2>0. UNCHANGED rx
      BY <1>3 DEF TxStep, TxDone, TxDraw, TxWake, TxSend, TxSendBlocked, TxStage, TxPush,
                  TxFlush, TxError, rxVars
    <2>2. CASE UNCHANGED <<chan, net>>
      BY <1>0, <2>0, <2>2
    <2>3. ASSUME NEW n, NEW s, Accept(c, NewMessage(c, n, s))
          PROVE  LeftBehind(d)'
      <3>1. UNCHANGED net
        BY <2>3 DEF Accept
      <3>2. CASE UNCHANGED chan \/ c # d
        <4>1. UNCHANGED chan[d]
          BY <1>t, <2>3, <3>2 DEF Accept
        <4> QED
          BY <1>0, <2>0, <3>1, <4>1
      <3>3. CASE c = d /\ chan' = [chan EXCEPT ![d] = Append(@, NewMessage(c, n, s))]
        <4> SUFFICES ASSUME rx[d] \in {"timeout", "exited"}, net[d] = "up"
                     PROVE  \A i \in 1 .. Len(chan'[d]) : chan'[d][i].unpolled
          BY <2>0, <3>1 DEF LeftBehind
        <4>1. \A i \in 1 .. Len(chan[d]) : chan[d][i].unpolled
          BY DEF LeftBehind
        <4> DEFINE m == NewMessage(c, n, s)
        <4>2. chan'[d] = Append(chan[d], m) /\ m.unpolled
          BY <1>t, <3>3 DEF NewMessage
        <4> HIDE DEF m
        <4>3. /\ Len(chan'[d]) = Len(chan[d]) + 1 /\ Len(chan[d]) \in Nat
              /\ \A i \in 1 .. Len(chan[d]) : chan'[d][i] = chan[d][i]
              /\ chan'[d][Len(chan[d]) + 1] = m
          BY <1>t, <4>2
        <4>4. \A i \in 1 .. Len(chan'[d]) : i \in 1 .. Len(chan[d]) \/ i = Len(chan[d]) + 1
          BY <4>3
        <4> QED
          BY <4>1, <4>2, <4>3, <4>4
      <3> QED
        BY <2>3, <3>2, <3>3 DEF Accept
    <2>4. CASE TxSend(c) \/ TxPush(c)
      BY <2>3, <2>4 DEF TxSend, TxPush
    <2> QED
      BY <1>3, <2>2, <2>4 DEF TxStep, TxDone, TxDraw, TxWake, TxSendBlocked, TxStage, TxFlush,
                              TxError, netVars
  <1>4. ASSUME NEW c \in Conns, RxStep(c) PROVE LeftBehind(d)'
    <2>0. UNCHANGED net
      BY <1>4 DEF RxStep, RxDrain, RxLoadPhase, RxIngest, RxTimeout, RxAfterTimeout, RxClosed,
                  RxError, netVars
    <2>1. CASE c # d
      <3>1. UNCHANGED <<chan[d], rx[d]>>
        BY <1>t, <1>4, <2>1 DEF RxStep, RxDrain, RxLoadPhase, RxIngest, RxTimeout,
                                RxAfterTimeout, RxClosed, RxError, netVars
      <3> QED
        BY <1>0, <2>0, <3>1
    <2>2. CASE c = d /\ (RxDrain(d) \/ RxLoadPhase(d) \/ RxIngest(d))
      <3>1. rx'[d] \notin {"timeout", "exited"}
        BY <1>t, <2>2 DEF RxDrain, RxLoadPhase, RxIngest
      <3> QED
        BY <3>1 DEF LeftBehind
    <2>3. CASE c = d /\ (RxTimeout(d) \/ RxClosed(d))
      <3>1. UNCHANGED chan /\ (net[d] = "up" => chan[d] = << >>)
        BY <2>3 DEF RxTimeout, RxClosed, Idle, netVars
      <3>2. 1 .. Len(<< >>) = {}
        OBVIOUS
      <3> QED
        BY <2>0, <3>1, <3>2 DEF LeftBehind
    <2>4. CASE c = d /\ RxAfterTimeout(d)
      <3>1. UNCHANGED chan /\ rx[d] = "timeout"
        BY <2>4 DEF RxAfterTimeout, netVars
      <3> QED
        BY <2>0, <3>1 DEF LeftBehind
    <2>5. CASE c = d /\ RxError(d)
      BY <2>0, <2>5 DEF RxError, LeftBehind
    <2> QED
      BY <1>4, <2>1, <2>2, <2>3, <2>4, <2>5 DEF RxStep
  <1>5. ASSUME NEW c \in Conns, Lose(c) PROVE LeftBehind(d)'
    <2>1. /\ UNCHANGED <<net, rx>> /\ chan[c] # << >>
          /\ chan' = [chan EXCEPT ![c] = Tail(@)]
      BY <1>5 DEF Lose, rxVars
    <2>2. CASE c # d
      BY <1>0, <1>t, <2>1, <2>2
    <2>3. CASE c = d
      <3>1. chan'[d] = Tail(chan[d]) /\ chan[d] # << >>
        BY <1>t, <2>1, <2>3
      <3>2. /\ Len(chan[d]) \in Nat \ {0} /\ Len(chan'[d]) = Len(chan[d]) - 1
            /\ \A i \in 1 .. Len(chan[d]) - 1 : chan'[d][i] = chan[d][i + 1]
        BY <1>t, <3>1, TailFacts
      <3>3. \A i \in 1 .. Len(chan'[d]) : i + 1 \in 1 .. Len(chan[d]) /\ chan'[d][i] = chan[d][i + 1]
        BY <3>2
      <3> QED
        BY <2>1, <3>3 DEF LeftBehind
    <2> QED
      BY <2>2, <2>3
  <1>s. ASSUME NEW c \in Conns, Shuffle(c) PROVE LeftBehind(d)'
    <2>1. UNCHANGED <<net, rx>>
      BY <1>s DEF Shuffle, rxVars
    <2>2. \A k \in 1 .. Len(chan'[d]) : Kept(d, chan'[d][k])
      BY <1>s, ShuffleFacts
    <2> SUFFICES ASSUME rx[d] \in {"timeout", "exited"}, net[d] = "up",
                        NEW k \in 1 .. Len(chan'[d])
                 PROVE  chan'[d][k].unpolled
      BY <2>1 DEF LeftBehind
    <2>3. PICK j \in 1 .. Len(chan[d]) : chan'[d][k].unpolled = chan[d][j].unpolled
      BY <2>2 DEF Kept
    <2> QED
      BY <2>3 DEF LeftBehind
  <1>6. ASSUME NEW c \in Conns, GatewayFault(c) PROVE LeftBehind(d)'
    <2>1. UNCHANGED <<chan, rx>> /\ (net'[d] = "up" => net[d] = "up")
      BY <1>t, <1>6 DEF GatewayFault, rxVars
    <2> QED
      BY <1>0, <2>1
  <1>7. CASE WatchdogKill
    <2>1. UNCHANGED <<chan, rx>> /\ net'[d] = "broken"
      BY <1>t, <1>7 DEF WatchdogKill, rxVars
    <2> QED
      BY <1>0, <2>1
  <1>8. CASE MainStep
    BY <1>1, <1>2, <1>8 DEF MainStep, Connect, StoreMeasure, StoreCooldown, StoreDone,
                            NextPhase, JoinTx, JoinRx, netVars, rxVars
  <1>9. CASE UNCHANGED vars
    BY <1>1, <1>9 DEF vars, netVars, rxVars
  <1> QED
    BY <1>3, <1>4, <1>5, <1>s, <1>6, <1>7, <1>8, <1>9 DEF Next, EnvStep, Finished

\* A thread that is gone does nothing more, and the main thread waits for all of them.
LEMMA JoinedStep ==
    ASSUME TypeOK, Joined, [Next]_vars
    PROVE  Joined'
  <1>t. DOMAIN tx = Conns /\ DOMAIN rx = Conns
    BY DEF TypeOK
  <1>1. CASE UNCHANGED <<main, tx, rx>>
    BY <1>1 DEF Joined
  <1>2. CASE MainStep
    <2>1. ASSUME NEW c \in Conns, Connect(c) \/ Spawn(c) PROVE Joined'
      <3>1. main' \notin {"join_rx", "returned"}
        BY <2>1 DEF Connect, Spawn
      <3> QED
        BY <3>1 DEF Joined
    <2>2. CASE StoreMeasure \/ StoreCooldown \/ StoreDone
      BY <2>2 DEF StoreMeasure, StoreCooldown, StoreDone, NextPhase, Joined
    <2>3. CASE JoinTx
      BY <2>3 DEF JoinTx, Joined, txVars
    <2>4. CASE JoinRx
      BY <2>4 DEF JoinRx, ReceiversJoined, Joined, txVars, rxVars
    <2> QED
      BY <1>2, <2>1, <2>2, <2>3, <2>4 DEF MainStep
  <1>3. ASSUME NEW c \in Conns, TxStep(c) PROVE Joined'
    <2>1. UNCHANGED <<main, rx>> /\ tx[c] # "exited"
      BY <1>3 DEF TxStep, TxDone, TxDraw, TxWake, TxSend, TxSendBlocked, TxStage, TxPush,
                  TxFlush, TxError, mainVars, rxVars
    <2> QED
      BY <2>1 DEF Joined
  <1>4. ASSUME NEW c \in Conns, RxStep(c) PROVE Joined'
    <2>1. UNCHANGED <<main, tx>> /\ rx[c] # "exited"
      BY <1>4 DEF RxStep, RxDrain, RxLoadPhase, RxIngest, RxTimeout, RxAfterTimeout, RxClosed, RxError, mainVars,
                  txVars
    <2> QED
      BY <2>1 DEF Joined
  <1>5. CASE EnvStep
    BY <1>1, <1>5 DEF EnvStep, Lose, Shuffle, GatewayFault, WatchdogKill, mainVars, txVars, rxVars
  <1>6. CASE UNCHANGED vars
    BY <1>1, <1>6 DEF vars, mainVars, txVars, rxVars
  <1> QED
    BY <1>2, <1>3, <1>4, <1>5, <1>6 DEF Next, Finished

-----------------------------------------------------------------------------
(***************************************************************************)
(* What holds throughout, and what follows from it.                        *)
(***************************************************************************)
LEMMA FlowInitially ==
    ASSUME Init
    PROVE  FlowInv
  <1>1. TypeOK /\ PhaseFollowsMain /\ Joined
    BY InitTyped DEF Init, PhaseFollowsMain, Joined
  <1> SUFFICES ASSUME NEW c \in Conns
               PROVE  /\ SenderInv(c) /\ OrderInv(c) /\ LossInv(c) /\ PhaseInv(c) /\ EdgeInv(c)
                      /\ LeftBehind(c)
    BY <1>1 DEF FlowInv
  <1>2. /\ recorded[c] = << >> /\ batch[c] = << >> /\ chan[c] = << >> /\ lost[c] = {}
        /\ tx[c] = "idle" /\ rx[c] = "idle" /\ seq[c] = 0 /\ sent[c] = 0 /\ slot[c] = 0
    BY DEF Init
  <1>3. Len(<< >>) = 0 /\ 1 .. 0 = {}
    OBVIOUS
  <1>4. NextSeq(c) = 0 /\ Limit(c) = 1
    BY <1>2 DEF NextSeq, Limit
  <1>5. SenderInv(c)
    BY <1>2, <1>4 DEF SenderInv
  <1>6. OrderInv(c)
    BY <1>2, <1>3 DEF OrderInv, InOrder, Ahead, Issued
  <1>7. LossInv(c)
    BY <1>2, <1>3 DEF LossInv
  <1>8. PhaseInv(c) /\ LeftBehind(c)
    BY <1>2 DEF PhaseInv, LeftBehind, Recording, Reader
  <1>9. EdgeInv(c)
    <2>1. RxMax \in Nat
      BY BoundsAssumption DEF RxMax
    <2> QED
      BY <1>2, <1>3, <2>1 DEF EdgeInv
  <1> QED
    BY <1>5, <1>6, <1>7, <1>8, <1>9

\* The invariant of the message flow holds throughout a run.
LEMMA FlowAlways == Spec => []FlowInv
  <1>1. Init => FlowInv
    BY FlowInitially
  <1>2. FlowInv /\ [Next]_vars => FlowInv'
    <2> SUFFICES ASSUME FlowInv, [Next]_vars PROVE FlowInv'
      OBVIOUS
    <2>1. TypeOK /\ PhaseFollowsMain /\ Joined
      BY DEF FlowInv
    <2>2. TypeOK' /\ PhaseFollowsMain' /\ phase <= phase' /\ Joined'
      BY <2>1, TypeInvariance, PhaseAdvances, JoinedStep
    <2>3. ASSUME NEW c \in Conns
          PROVE  /\ SenderInv(c)' /\ PhaseInv(c)' /\ EdgeInv(c)' /\ LeftBehind(c)'
                 /\ UNCHANGED mode
                 /\ ~mode.shuffled => OrderInv(c)' /\ LossInv(c)'
      <3>1. /\ SenderInv(c) /\ PhaseInv(c) /\ EdgeInv(c) /\ LeftBehind(c)
            /\ ~mode.shuffled => OrderInv(c) /\ LossInv(c)
        BY DEF FlowInv
      <3>2. FlowStep(c) /\ UNCHANGED mode
        BY <2>1, <3>1, EveryStep
      <3>3. SenderInv(c)' /\ PhaseInv(c)' /\ EdgeInv(c)' /\ LeftBehind(c)'
        BY <2>1, <2>2, <3>1, <3>2, SenderStep, PhaseStep, EdgeStep, LeftStep
      <3>4. ASSUME ~mode.shuffled PROVE OrderInv(c)' /\ LossInv(c)'
        BY <2>1, <2>2, <3>1, <3>2, <3>4, OrderStep, LossStep
      <3> QED
        BY <3>2, <3>3, <3>4
    <2>4. Conns # {}
      BY ConnsAssumption
    <2> QED
      BY <2>2, <2>3, <2>4 DEF FlowInv
  <1> QED
    BY <1>1, <1>2, PTL DEF Spec

\* Pacing survives backpressure (sender_loop draws a new deadline for every attempt): the
\* stamps of a paced connection rise with the numbers, never run ahead of the schedule, and
\* no slot is used twice.
THEOREM ScheduleSafe == Spec => []ScheduleNeverReused
  <1>1. FlowInv => ScheduleNeverReused
    <2> SUFFICES ASSUME FlowInv, mode.pacing = "paced", ~mode.shuffled, NEW c \in Conns
                 PROVE  /\ \A i, j \in DOMAIN recorded[c] :
                             i < j => recorded[c][i].stamp < recorded[c][j].stamp
                        /\ \A i \in DOMAIN recorded[c] : recorded[c][i].stamp > recorded[c][i].seq
      BY DEF ScheduleNeverReused
    <2>1. OrderInv(c) /\ recorded[c] \in Seq(Message)
      BY DEF FlowInv, TypeOK
    <2>2. DOMAIN recorded[c] = 1 .. Len(recorded[c])
      BY <2>1
    <2>3. \A i \in 1 .. Len(recorded[c]) : recorded[c][i].seq \in Nat /\ recorded[c][i].stamp \in Nat
      BY <2>1, SeqFacts DEF Message
    <2>4. InOrder(mode.pacing, recorded[c]) /\ Issued(mode.pacing, recorded[c], NextSeq(c), Limit(c))
      BY <2>1 DEF OrderInv
    <2> QED
      BY <2>2, <2>3, <2>4 DEF InOrder, Issued, Before
  <1> QED
    BY <1>1, FlowAlways, PTL

\* Nothing that was there to be read is left behind: behind a receiver that has left a
\* healthy connection (receiver_loop's timeout arm, or the end of the stream) there are only
\* messages accepted after its last poll had come back empty.
THEOREM DrainsSafe == Spec => []CooldownDrains
  <1>1. FlowInv => CooldownDrains
    <2> SUFFICES ASSUME FlowInv, NEW c \in Conns, rx[c] = "exited", net[c] = "up",
                        NEW i \in DOMAIN chan[c]
                 PROVE  chan[c][i].unpolled
      BY DEF CooldownDrains
    <2>1. LeftBehind(c) /\ chan[c] \in Seq(Message)
      BY DEF FlowInv, TypeOK
    <2>2. i \in 1 .. Len(chan[c])
      BY <2>1
    <2> QED
      BY <2>1, <2>2 DEF LeftBehind
  <1> QED
    BY <1>1, FlowAlways, PTL

\* Once run_once has returned, no worker thread adds to the statistics it aggregated: the
\* joins leave none that could.
THEOREM AggregateSafe == Spec => AggregateIsFinal
  <1>1. Joined /\ [Next]_vars => [main = "returned" => UNCHANGED <<recorded, failures, lag>>]_vars
    <2> SUFFICES ASSUME Joined, Next, main = "returned" PROVE UNCHANGED <<recorded, failures, lag>>
      OBVIOUS
    <2>1. \A c \in Conns : tx[c] = "exited" /\ rx[c] = "exited"
      BY DEF Joined
    <2>2. CASE MainStep
      BY <2>2 DEF MainStep, Connect, Spawn, StoreMeasure, StoreCooldown, StoreDone, NextPhase,
                  JoinTx, JoinRx
    <2>3. ASSUME NEW c \in Conns, TxStep(c) \/ RxStep(c) PROVE FALSE
      BY <2>1, <2>3 DEF TxStep, TxDone, TxDraw, TxWake, TxSend, TxSendBlocked, TxStage, TxPush,
           TxFlush, TxError, RxStep, RxDrain, RxLoadPhase, RxIngest, RxTimeout, RxAfterTimeout, RxClosed, RxError
    <2>4. CASE EnvStep
      BY <2>4 DEF EnvStep, Lose, Shuffle, GatewayFault, WatchdogKill, txVars, rxVars
    <2>5. CASE Finished
      BY <2>5 DEF Finished, vars, txVars, rxVars
    <2> QED
      BY <2>2, <2>3, <2>4, <2>5 DEF Next
  <1>2. FlowInv => Joined
    BY DEF FlowInv
  <1> QED
    BY <1>1, <1>2, FlowAlways, PTL DEF Spec, AggregateIsFinal

-----------------------------------------------------------------------------
(***************************************************************************)
(* What metrics/app.rs makes of a record without inversions.               *)
(***************************************************************************)
\* The least and the greatest of a set of numbers.
LEMMA Extremes ==
    ASSUME NEW T, T \subseteq Nat, NEW a \in T, NEW b \in T,
           \A x \in T : a <= x /\ x <= b
    PROVE  Min(T) = a /\ Max(T) = b
<1>1. Min(T) \in T /\ \A y \in T : Min(T) <= y
  BY DEF Min
<1>2. Max(T) \in T /\ \A y \in T : Max(T) >= y
  BY DEF Max
<1>3. Min(T) \in Nat /\ Max(T) \in Nat /\ a \in Nat /\ b \in Nat
  BY <1>1, <1>2
<1>4. Min(T) <= a /\ a <= Min(T)
  BY <1>1
<1>5. Max(T) >= b /\ Max(T) <= b
  BY <1>2
<1>6. Min(T) = a
  BY <1>3, <1>4
<1>7. Max(T) = b
  BY <1>3, <1>5
<1> QED
  BY <1>6, <1>7

\* Distinct numbers are as many as their positions.
LEMMA AsManyAsPlaces ==
    ASSUME NEW n \in Nat, NEW f \in [1 .. n -> Nat],
           \A i, j \in 1 .. n : i < j => f[i] < f[j]
    PROVE  IsFiniteSet(Range(f)) /\ Cardinality(Range(f)) = n
<1>1. DOMAIN f = 1 .. n
  OBVIOUS
<1>2. f \in [1 .. n -> Range(f)]
  BY <1>1 DEF Range
<1>3. \A i, j \in 1 .. n : f[i] = f[j] => i = j
  <2> SUFFICES ASSUME NEW i \in 1 .. n, NEW j \in 1 .. n, i # j PROVE f[i] # f[j]
    OBVIOUS
  <2>1. i < j \/ j < i
    OBVIOUS
  <2>2. f[i] \in Nat /\ f[j] \in Nat
    OBVIOUS
  <2> QED
    BY <2>1, <2>2
<1>4. f \in Bijection(1 .. n, Range(f))
  BY <1>1, <1>2, <1>3 DEF Bijection, Injection, Surjection, IsInjective, Range
<1>5. ExistsBijection(1 .. n, Range(f))
  BY <1>4 DEF ExistsBijection
<1> QED
  BY <1>5, FS_CountingElements, FS_NatBijection

\* Rising numbers have no duplicate and no inversion, and what is counted as lost is what
\* a set holds that fills their gaps.
LEMMA IntegrityOfRising ==
    ASSUME NEW nums \in Seq(Nat), NEW L,
           \A i, j \in 1 .. Len(nums) : i < j => nums[i] < nums[j],
           \A i \in 1 .. Len(nums) : nums[i] \notin L,
           nums # << >> => \A k \in Nat : nums[1] <= k /\ k <= nums[Len(nums)] =>
                              k \in L \/ \E i \in 1 .. Len(nums) : nums[i] = k
    PROVE  /\ integrity(nums).duplicate = 0 /\ integrity(nums).reordered = 0
           /\ nums # << >> =>
                integrity(nums).lost = Cardinality(L \cap (Min(Range(nums)) .. Max(Range(nums))))
<1> DEFINE n == Len(nums)
           T == Range(nums)
<1>1. n \in Nat /\ nums \in [1 .. n -> Nat] /\ DOMAIN nums = 1 .. n
  OBVIOUS
<1>2. T = {nums[i] : i \in 1 .. n} /\ T \subseteq Nat
  BY <1>1 DEF Range
<1>3. IsFiniteSet(T) /\ Cardinality(T) = n
  BY <1>1, AsManyAsPlaces
<1>4. integrity(nums).duplicate = 0
  <2>1. integrity(nums).duplicate = Len(nums) - Cardinality(T)
    BY DEF integrity
  <2> QED
    BY <1>1, <1>3, <2>1
<1>5. integrity(nums).reordered = 0
  <2>1. {i \in 2 .. Len(nums) : nums[i] < nums[i - 1]} = {}
    <3> SUFFICES ASSUME NEW i \in 2 .. Len(nums) PROVE ~(nums[i] < nums[i - 1])
      OBVIOUS
    <3>1. i \in 1 .. n /\ i - 1 \in 1 .. n /\ i - 1 < i
      BY <1>1
    <3>2. nums[i - 1] < nums[i] /\ nums[i] \in Nat /\ nums[i - 1] \in Nat
      BY <1>1, <3>1
    <3> QED
      BY <3>2
  <2> QED
    BY <2>1, FS_EmptySet DEF integrity
<1>6. ASSUME nums # << >> PROVE integrity(nums).lost = Cardinality(L \cap (Min(T) .. Max(T)))
  <2>1. n \in Nat \ {0} /\ 1 \in 1 .. n /\ n \in 1 .. n
    BY <1>1, <1>6
  <2> DEFINE a == nums[1]
             b == nums[n]
             D == L \cap (a .. b)
  <2>2. a \in T /\ b \in T /\ a \in Nat /\ b \in Nat
    BY <1>1, <1>2, <2>1
  <2>3. \A i \in 1 .. n : a <= nums[i] /\ nums[i] <= b
    <3> SUFFICES ASSUME NEW i \in 1 .. n PROVE a <= nums[i] /\ nums[i] <= b
      OBVIOUS
    <3>0. n \in Nat /\ i \in Nat /\ 1 <= i /\ i <= n
      BY <1>1
    <3>1. (i = 1 \/ 1 < i) /\ (i = n \/ i < n)
      <4> HIDE DEF n
      <4> QED BY <3>0
    <3>2. nums[i] \in Nat
      BY <1>1
    <3> QED
      BY <2>1, <2>2, <3>1, <3>2
  <2>4. \A x \in T : a <= x /\ x <= b
    BY <1>2, <2>3
  <2>5. Min(T) = a /\ Max(T) = b
    BY <1>2, <2>2, <2>4, Extremes
  <2>6. a .. b = T \cup D
    <3>1. \A k \in a .. b : k \in Nat /\ a <= k /\ k <= b
      BY <2>2
    <3>2. \A k \in a .. b : k \in L \/ \E i \in 1 .. n : nums[i] = k
      BY <1>6, <3>1
    <3>3. \A k \in a .. b : k \in T \/ k \in D
      BY <1>2, <3>2
    <3>4. \A x \in T : x \in a .. b
      BY <1>2, <2>2, <2>4
    <3> QED
      BY <3>3, <3>4
  <2>7. T \cap D = {}
    BY <1>2
  <2>8. IsFiniteSet(a .. b) /\ Cardinality(a .. b) = b - a + 1 /\ a <= b
    <3>1. a <= b
      BY <2>2, <2>4
    <3>2. a \in Int /\ b \in Int /\ ~(a > b)
      BY <2>2, <3>1
    <3> HIDE DEF a, b
    <3> QED
      BY <3>1, <3>2, FS_Interval
  <2>9. IsFiniteSet(D) /\ Cardinality(D) \in Nat
    BY <2>8, FS_Intersection, FS_CardinalityType
  <2>10. Cardinality(a .. b) = Cardinality(T) + Cardinality(D)
    <3>1. Cardinality(T \cup D) = Cardinality(T) + Cardinality(D) - Cardinality(T \cap D)
      BY <1>3, <2>9, FS_Union
    <3>2. Cardinality(T \cap D) = 0
      BY <2>7, FS_EmptySet
    <3>3. Cardinality(a .. b) = Cardinality(T \cup D)
      BY <2>6
    <3>4. Cardinality(T) \in Nat
      BY <1>1, <1>3
    <3> HIDE DEF a, b, D, T
    <3> QED
      BY <2>9, <3>1, <3>2, <3>3, <3>4
  <2>11. integrity(nums).lost = Max(T) - Min(T) + 1 - Cardinality(T)
    BY <1>6 DEF integrity
  <2> HIDE DEF a, b, D, T, n
  <2>12. integrity(nums).lost = Cardinality(D)
    BY <1>1, <1>3, <2>2, <2>5, <2>8, <2>9, <2>10, <2>11
  <2> QED
    BY <2>5, <2>12 DEF D
<1> QED
  BY <1>4, <1>5, <1>6

\* The loss report of a throughput run is exact (receiver_loop, ingest and metrics/app.rs
\* together): no duplicate, no inversion, and as many lost as the path lost or damaged
\* between the first and the last message recorded.
THEOREM LossIsExact == Spec => []LossReportExact
  <1>1. FlowInv => LossReportExact
    <2> SUFFICES ASSUME FlowInv, ~mode.shuffled, NEW c \in Conns
                 PROVE  LET nums == SeqNumbers(recorded[c])
                            i    == integrity(nums)
                        IN  /\ i.duplicate = 0 /\ i.reordered = 0
                            /\ nums # << >> =>
                                 i.lost = Cardinality(lost[c] \cap
                                                      (Min(Range(nums)) .. Max(Range(nums))))
      BY DEF LossReportExact
    <2> DEFINE R == recorded[c]
               nums == SeqNumbers(R)
    <2>1. OrderInv(c) /\ LossInv(c) /\ TypeOK /\ R \in Seq(Message)
      BY DEF FlowInv, TypeOK
    <2>2. Len(R) \in Nat /\ DOMAIN R = 1 .. Len(R) /\ \A i \in 1 .. Len(R) : R[i].seq \in Nat
      BY <2>1, SeqFacts
    <2>3. nums \in Seq(Nat) /\ Len(nums) = Len(R) /\ \A i \in 1 .. Len(R) : nums[i] = R[i].seq
      <3> HIDE DEF R
      <3>1. nums = [i \in 1 .. Len(R) |-> R[i].seq]
        BY <2>2 DEF SeqNumbers
      <3> QED
        BY <2>2, <3>1
    <2>4. nums # << >> => R # << >>
      BY <2>1, <2>3
    <2>5. \A i, j \in 1 .. Len(nums) : i < j => nums[i] < nums[j]
      BY <2>1, <2>3 DEF OrderInv, InOrder, Before
    <2>6. \A i \in 1 .. Len(nums) : nums[i] \notin lost[c]
      BY <2>1, <2>3 DEF LossInv
    <2>7. ASSUME nums # << >>, NEW k \in Nat, nums[1] <= k, k <= nums[Len(nums)]
          PROVE  k \in lost[c] \/ \E i \in 1 .. Len(nums) : nums[i] = k
      <3>1. R # << >> /\ 1 \in 1 .. Len(R) /\ Len(R) \in 1 .. Len(R)
        BY <2>1, <2>2, <2>4, <2>7
      <3>2. R[1].seq <= k /\ k <= R[Len(R)].seq
        BY <2>3, <2>7, <3>1
      <3>3. k \in lost[c] \/ Has(R, k)
        BY <2>1, <3>1, <3>2 DEF LossInv
      <3> QED
        BY <2>3, <3>3 DEF Has
    <2> HIDE DEF nums
    <2>8. /\ integrity(nums).duplicate = 0 /\ integrity(nums).reordered = 0
          /\ nums # << >> => integrity(nums).lost =
                               Cardinality(lost[c] \cap (Min(Range(nums)) .. Max(Range(nums))))
      BY <2>3, <2>5, <2>6, <2>7, IntegrityOfRising
    <2> QED
      BY <2>8 DEF nums
  <1> QED
    BY <1>1, FlowAlways, PTL

\* Each edge of the measure window is blurred by one receive batch at most: the early
\* messages lie in the first RxMax places of the record and the late ones in the last.
THEOREM EdgesSafe == Spec => []WindowEdgesBlurredByOneBatch
  <1>1. FlowInv => WindowEdgesBlurredByOneBatch
    <2> SUFFICES ASSUME FlowInv, NEW c \in Conns
                 PROVE  /\ Cardinality({i \in DOMAIN recorded[c] : recorded[c][i].early}) <= RxMax
                        /\ Cardinality({i \in DOMAIN recorded[c] : recorded[c][i].late}) <= RxMax
      BY DEF WindowEdgesBlurredByOneBatch
    <2> DEFINE R == recorded[c]
               E == {i \in DOMAIN R : R[i].early}
               T == {i \in DOMAIN R : R[i].late}
    <2>1. EdgeInv(c) /\ R \in Seq(Message)
      BY DEF FlowInv, TypeOK
    <2>2. Len(R) \in Nat /\ DOMAIN R = 1 .. Len(R)
      BY <2>1
    <2>3. RxMax \in Nat \ {0}
      BY BoundsAssumption DEF RxMax
    <2>4. ASSUME NEW a \in Int, NEW S, S \subseteq a .. a + RxMax - 1
          PROVE  Cardinality(S) <= RxMax
      <3>1. a + RxMax - 1 \in Int /\ ~(a > a + RxMax - 1) /\ (a + RxMax - 1) - a + 1 = RxMax
        BY <2>3
      <3>2. IsFiniteSet(a .. a + RxMax - 1) /\ Cardinality(a .. a + RxMax - 1) = RxMax
        BY <3>1, FS_Interval
      <3> QED
        BY <2>4, <3>2, FS_Subset
    <2>5. E \subseteq 1 .. 1 + RxMax - 1
      <3>1. \A i \in 1 .. Len(R) : R[i].early => i <= RxMax
        BY <2>1 DEF EdgeInv
      <3> QED
        BY <2>2, <2>3, <3>1
    <2>6. Len(R) - RxMax + 1 \in Int /\ T \subseteq Len(R) - RxMax + 1 .. (Len(R) - RxMax + 1) + RxMax - 1
      <3>1. \A i \in 1 .. Len(R) : R[i].late => Len(R) - i < RxMax
        BY <2>1 DEF EdgeInv
      <3> QED
        BY <2>2, <2>3, <3>1
    <2> QED
      BY <2>4, <2>5, <2>6
  <1> QED
    BY <1>1, FlowAlways, PTL

-----------------------------------------------------------------------------
(***************************************************************************)
(* Each connection keeps the promise of MessageChannel, from the sender's  *)
(* send_batch to the receiver's recv_batch: the promise that StreamFraming *)
(* implements for the bytes below.  A message is sent when the transport   *)
(* has accepted it, also in the middle of a batch, and handed over when it *)
(* is neither in flight nor lost.                                          *)
(***************************************************************************)
HandedOver(c) == {k \in 0 .. NextSeq(c) - 1 : k \notin lost[c] /\ ~Has(chan[c], k)}

\* Paths on which a message may be lost or damaged,
Unreliable == mode.kind = "datagram" \/ mode.gateway

Channel(c) == INSTANCE MessageChannel
                WITH sent <- NextSeq(c), got <- HandedOver(c), damaged <- Unreliable

\* and paths that keep the order of the messages.
Ordered == ~mode.shuffled

\* Only unreliable paths lose anything or break.
Reliable == ~Unreliable => \A c \in Conns : lost[c] = {} /\ net[c] = "up"

\* No step makes a reliable path lose a message.
LEMMA ReliableStep ==
    ASSUME TypeOK, Reliable, [Next]_vars, UNCHANGED mode
    PROVE  Reliable'
  <1> SUFFICES ASSUME ~Unreliable, NEW d \in Conns PROVE lost'[d] = {} /\ net'[d] = "up"
    BY DEF Reliable, Unreliable
  <1>0. /\ mode.kind # "datagram" /\ ~mode.gateway
        /\ \A c \in Conns : lost[c] = {} /\ net[c] = "up"
    BY DEF Reliable, Unreliable
  <1>1. CASE UNCHANGED <<lost, net>>
    BY <1>0, <1>1
  <1>2. \A c \in Conns : \A m : Accept(c, m) => UNCHANGED <<lost, net>>
    BY <1>0 DEF Accept
  <1>3. ASSUME NEW c \in Conns, TxStep(c) PROVE UNCHANGED <<lost, net>>
    BY <1>2, <1>3 DEF TxStep, TxDone, TxDraw, TxWake, TxSend, TxSendBlocked, TxStage, TxPush,
                      TxFlush, TxError, netVars
  <1>4. ASSUME NEW c \in Conns, RxStep(c) PROVE lost'[d] = {} /\ net'[d] = "up"
    <2>1. CASE RxDrain(c)
      <3>1. net' = net /\ lost' = [lost EXCEPT ![c] = @ \cup {}]
        BY <1>0, <2>1 DEF RxDrain
      <3>2. lost'[d] = {}
        <4>1. DOMAIN lost = Conns
          BY DEF TypeOK
        <4> QED
          BY <1>0, <3>1, <4>1
      <3> QED
        BY <1>0, <3>1, <3>2
    <2>2. CASE ~RxDrain(c)
      <3>1. UNCHANGED <<lost, net>>
        BY <1>4, <2>2 DEF RxStep, RxLoadPhase, RxIngest, RxTimeout, RxAfterTimeout, RxClosed, RxError, netVars
      <3> QED
        BY <1>0, <3>1
    <2> QED
      BY <2>1, <2>2
  <1>5. CASE MainStep
    BY <1>1, <1>5 DEF MainStep, Connect, Spawn, StoreMeasure, StoreCooldown, StoreDone, NextPhase,
                      JoinTx, JoinRx, netVars
  <1>7. ~mode.shuffled
    BY <1>0 DEF TypeOK, Modes
  <1>6. ~EnvStep
    BY <1>0, <1>7 DEF EnvStep, Lose, Shuffle, GatewayFault, WatchdogKill
  <1> QED
    BY <1>1, <1>3, <1>4, <1>5, <1>6 DEF Next, Finished, vars, netVars

\* The head of the FIFO is behind everything that was handed over.
LEMMA HeadIsNext ==
    ASSUME FlowInv, ~mode.shuffled, NEW c \in Conns, chan[c] # << >>
    PROVE  LET n == chan[c][1].seq IN
           /\ n \in 0 .. NextSeq(c) - 1 /\ n \notin lost[c]
           /\ \A m \in HandedOver(c) : m < n
           /\ \A k \in 0 .. n - 1 : ~Has(chan[c], k)
           /\ ~Has(Tail(chan[c]), n)
           /\ \A k : k # n => (Has(Tail(chan[c]), k) <=> Has(chan[c], k))
  <1> DEFINE C == chan[c]
             n == C[1].seq
  <1>1. C \in Seq(Message) /\ NextSeq(c) \in Nat /\ lost[c] \subseteq Nat
    BY ConnTyped DEF FlowInv
  <1>2. /\ Len(C) \in Nat \ {0} /\ Len(Tail(C)) = Len(C) - 1
        /\ \A i \in 1 .. Len(C) - 1 : Tail(C)[i] = C[i + 1]
    BY <1>1, TailFacts
  <1>3. \A i \in 1 .. Len(C) : C[i].seq \in Nat /\ C[i].seq < NextSeq(c)
    <2>1. \A i \in 1 .. Len(C) : C[i].seq \in Nat
      BY <1>1, SeqFacts DEF Message
    <2> QED
      BY <2>1 DEF FlowInv, OrderInv, Issued
  <1>4. \A i \in 2 .. Len(C) : n < C[i].seq
    <2>1. \A i, j \in 1 .. Len(C) : i < j => C[i].seq < C[j].seq
      BY DEF FlowInv, OrderInv, InOrder, Before
    <2>2. 1 \in 1 .. Len(C) /\ \A i \in 2 .. Len(C) : i \in 1 .. Len(C) /\ 1 < i
      BY <1>2
    <2> QED
      BY <2>1, <2>2
  <1>5. 1 \in 1 .. Len(C) /\ \A i \in 1 .. Len(C) : i = 1 \/ i \in 2 .. Len(C)
    BY <1>2
  <1>6. n \in Nat /\ n < NextSeq(c) /\ n \notin lost[c]
    BY <1>3, <1>5 DEF FlowInv, LossInv
  <1>7. ASSUME NEW m \in HandedOver(c) PROVE m < n
    <2>1. m \in Nat /\ m < NextSeq(c) /\ m \notin lost[c] /\ ~Has(C, m)
      BY <1>1 DEF HandedOver
    <2>2. Covered(lost[c], batch[c], C, NextSeq(c), n)
      BY <1>5 DEF FlowInv, LossInv
    <2>3. m # n
      BY <1>5, <2>1 DEF Has
    <2>4. ASSUME n < m PROVE FALSE
      <3>1. Has(batch[c], m)
        BY <2>1, <2>2, <2>4 DEF Covered
      <3>2. PICK i \in 1 .. Len(batch[c]) : batch[c][i].seq = m
        BY <3>1 DEF Has
      <3>3. batch[c][i].seq < n
        BY <1>5 DEF FlowInv, OrderInv, Ahead, Before
      <3> QED
        BY <1>6, <2>1, <2>4, <3>2, <3>3
    <2> QED
      BY <1>6, <2>1, <2>3, <2>4
  <1>8. \A k \in 0 .. n - 1 : ~Has(C, k)
    <2> SUFFICES ASSUME NEW k \in 0 .. n - 1, NEW i \in 1 .. Len(C), C[i].seq = k PROVE FALSE
      BY DEF Has
    <2>1. k < n
      BY <1>6
    <2> QED
      BY <1>3, <1>4, <1>5, <1>6, <2>1
  <1>9. \A k : Has(C, k) <=> n = k \/ Has(Tail(C), k)
    BY <1>1, HasTail
  <1>10. ~Has(Tail(C), n)
    <2> SUFFICES ASSUME NEW i \in 1 .. Len(Tail(C)), Tail(C)[i].seq = n PROVE FALSE
      BY DEF Has
    <2>1. i + 1 \in 2 .. Len(C) /\ Tail(C)[i] = C[i + 1]
      BY <1>2
    <2>2. n < n
      BY <1>4, <2>1
    <2> QED
      BY <1>6, <2>2
  <1>12. n \in 0 .. NextSeq(c) - 1
    BY <1>1, <1>6
  <1> QED
    BY <1>6, <1>7, <1>8, <1>9, <1>10, <1>12

\* A step that moves nothing in and out of the path leaves the channel alone.
LEMMA ChannelStill ==
    ASSUME NEW c \in Conns, NextSeq(c)' = NextSeq(c), UNCHANGED <<mode, chan[c], lost[c]>>
    PROVE  UNCHANGED <<NextSeq(c), HandedOver(c), Unreliable>>
  <1>1. HandedOver(c)' = {k \in 0 .. NextSeq(c)' - 1 : k \notin lost'[c] /\ ~Has(chan'[c], k)}
    BY DEF HandedOver, Has
  <1> QED
    BY <1>1 DEF HandedOver, Unreliable

\* A message that is accepted, or dropped at once, is a message sent.
LEMMA ChannelSends ==
    ASSUME FlowInv, NEW c \in Conns, NEW m \in Message, Issues(c, m), UNCHANGED mode
    PROVE  Channel(c)!Send
  <1>1. chan[c] \in Seq(Message) /\ NextSeq(c) \in Nat /\ lost[c] \subseteq Nat
    BY ConnTyped DEF FlowInv
  <1>2. NextSeq(c)' = NextSeq(c) + 1 /\ m.seq = NextSeq(c)
    BY DEF Issues
  <1>3. HandedOver(c)' = {k \in 0 .. NextSeq(c)' - 1 : k \notin lost'[c] /\ ~Has(chan'[c], k)}
    BY DEF HandedOver, Has
  <1>4. \A k \in 0 .. NextSeq(c) : k \in 0 .. NextSeq(c) - 1 \/ k = m.seq
    BY <1>1, <1>2
  <1>5. 0 .. NextSeq(c)' - 1 = 0 .. NextSeq(c) /\ 0 .. NextSeq(c) - 1 \subseteq 0 .. NextSeq(c)
        /\ m.seq \notin 0 .. NextSeq(c) - 1
    BY <1>1, <1>2
  <1>6. \A k \in 0 .. NextSeq(c) :
          k \notin lost'[c] /\ ~Has(chan'[c], k) <=> k # m.seq /\ k \notin lost[c] /\ ~Has(chan[c], k)
    <2>1. CASE chan'[c] = Append(chan[c], m) /\ lost'[c] = lost[c]
      <3>1. \A k : Has(chan'[c], k) <=> Has(chan[c], k) \/ m.seq = k
        BY <1>1, <2>1, HasAppend
      <3> QED
        BY <2>1, <3>1
    <2>2. CASE chan'[c] = chan[c] /\ lost'[c] = lost[c] \cup {m.seq}
      BY <2>2
    <2> QED
      BY <2>1, <2>2 DEF Issues
  <1>7. HandedOver(c)' = HandedOver(c)
    BY <1>3, <1>4, <1>5, <1>6, Zenon DEF HandedOver
  <1>8. NextSeq(c)' > NextSeq(c)
    BY <1>1, <1>2
  <1> QED
    BY <1>7, <1>8 DEF Channel!Send, Unreliable

\* A message that leaves the path damaged or lost is handed to nobody.
LEMMA ChannelDrops ==
    ASSUME FlowInv, NEW c \in Conns, UNCHANGED mode, NextSeq(c)' = NextSeq(c), chan[c] # << >>,
           chan'[c] = Tail(chan[c]), lost'[c] = lost[c] \cup {chan[c][1].seq}
    PROVE  UNCHANGED <<NextSeq(c), HandedOver(c), Unreliable>>
  <1>1. chan[c] \in Seq(Message)
    BY ConnTyped DEF FlowInv
  <1>2. HandedOver(c)' = {k \in 0 .. NextSeq(c)' - 1 : k \notin lost'[c] /\ ~Has(chan'[c], k)}
    BY DEF HandedOver, Has
  <1>3. \A k : Has(chan[c], k) <=> chan[c][1].seq = k \/ Has(chan'[c], k)
    BY <1>1, HasTail
  <1>4. \A k : (k \notin lost'[c] /\ ~Has(chan'[c], k)) <=> (k \notin lost[c] /\ ~Has(chan[c], k))
    BY <1>3
  <1>5. HandedOver(c)' = HandedOver(c)
    BY <1>2, <1>4, Zenon DEF HandedOver
  <1> QED
    BY <1>5 DEF Unreliable

\* A message drained intact is a message received: the next one, on a path that loses none.
LEMMA ChannelReceives ==
    ASSUME FlowInv, Reliable, ~mode.shuffled, NEW c \in Conns, UNCHANGED mode,
           NextSeq(c)' = NextSeq(c), chan[c] # << >>, chan'[c] = Tail(chan[c]), lost'[c] = lost[c]
    PROVE  Channel(c)!Receive
  <1> DEFINE n == chan[c][1].seq
  <1>1. chan[c] \in Seq(Message) /\ NextSeq(c) \in Nat
    BY ConnTyped DEF FlowInv
  <1>2. /\ n \in 0 .. NextSeq(c) - 1 /\ n \notin lost[c]
        /\ \A m \in HandedOver(c) : m < n
        /\ \A k \in 0 .. n - 1 : ~Has(chan[c], k)
        /\ ~Has(Tail(chan[c]), n)
        /\ \A k : k # n => (Has(Tail(chan[c]), k) <=> Has(chan[c], k))
    BY HeadIsNext
  <1>3. Has(chan[c], n)
    BY <1>1, HasTail
  <1>4. HandedOver(c)' = {k \in 0 .. NextSeq(c)' - 1 : k \notin lost'[c] /\ ~Has(chan'[c], k)}
    BY DEF HandedOver, Has
  <1> HIDE DEF n
  <1>5. HandedOver(c)' = HandedOver(c) \cup {n}
    <2>1. ASSUME NEW k \in 0 .. NextSeq(c) - 1
          PROVE  k \in HandedOver(c)' <=> k \in HandedOver(c) \/ k = n
      <3>1. CASE k = n
        BY <1>2, <1>4, <3>1
      <3>2. CASE k # n
        BY <1>2, <1>4, <3>2 DEF HandedOver
      <3> QED
        BY <3>1, <3>2
    <2>2. HandedOver(c)' \subseteq 0 .. NextSeq(c) - 1 /\ HandedOver(c) \subseteq 0 .. NextSeq(c) - 1
      BY <1>4 DEF HandedOver
    <2> QED
      BY <1>2, <2>1, <2>2
  <1>6. Unreliable \/ 0 .. n - 1 \subseteq HandedOver(c)
    <2> SUFFICES ASSUME ~Unreliable, NEW k \in 0 .. n - 1 PROVE k \in HandedOver(c)
      OBVIOUS
    <2>1. lost[c] = {}
      BY DEF Reliable
    <2>2. k \in 0 .. NextSeq(c) - 1
      BY <1>1, <1>2
    <2> QED
      BY <1>2, <2>1, <2>2 DEF HandedOver
  <1>7. UNCHANGED <<NextSeq(c), Unreliable>>
    BY DEF Unreliable
  <1> QED
    BY <1>2, <1>5, <1>6, <1>7 DEF Channel!Receive

\* Every step of the run is a step of each channel, or none.
LEMMA ChannelStep ==
    ASSUME FlowInv, Reliable, ~mode.shuffled, [Next]_vars, NEW c \in Conns
    PROVE  [Channel(c)!Next]_<<NextSeq(c), HandedOver(c), Unreliable>>
  <1>1. FlowStep(c) /\ UNCHANGED mode
    BY EveryStep DEF FlowInv
  <1>2. CASE Quiet(c) \/ Starts(c) \/ Loads(c) \/ Leaves(c)
    <2>1. NextSeq(c)' = NextSeq(c) /\ UNCHANGED <<chan[c], lost[c]>>
      BY <1>2 DEF Quiet, Starts, Loads, Leaves, Numbered
    <2> QED
      BY <1>1, <2>1, ChannelStill
  <1>3. CASE Loses(c)
    BY <1>1, <1>3, ChannelDrops DEF Loses, Numbered
  <1>4. ASSUME NEW m \in Message, Issues(c, m)
        PROVE  [Channel(c)!Next]_<<NextSeq(c), HandedOver(c), Unreliable>>
    BY <1>1, <1>4, ChannelSends DEF Channel!Next
  <1>5. ASSUME NEW m \in Message, Drains(c, m)
        PROVE  [Channel(c)!Next]_<<NextSeq(c), HandedOver(c), Unreliable>>
    <2>1. /\ NextSeq(c)' = NextSeq(c) /\ chan[c] # << >> /\ chan'[c] = Tail(chan[c])
          /\ lost'[c] = IF m.intact THEN lost[c] ELSE lost[c] \cup {chan[c][1].seq}
      BY <1>5 DEF Drains, Numbered
    <2>2. CASE m.intact
      BY <1>1, <2>1, <2>2, ChannelReceives DEF Channel!Next
    <2>3. CASE ~m.intact
      BY <1>1, <2>1, <2>3, ChannelDrops
    <2> QED
      BY <2>2, <2>3
  <1>6. ASSUME NEW m \in Message, Ingests(c, m)
        PROVE  [Channel(c)!Next]_<<NextSeq(c), HandedOver(c), Unreliable>>
    <2>1. NextSeq(c)' = NextSeq(c) /\ UNCHANGED <<chan[c], lost[c]>>
      BY <1>6 DEF Ingests, Numbered
    <2> QED
      BY <1>1, <2>1, ChannelStill
  <1> QED
    BY <1>1, <1>2, <1>3, <1>4, <1>5, <1>6 DEF FlowStep, Mixes

\* From the sender's send_batch to the receiver's recv_batch, whatever the threads, the path,
\* the gateway and the watchdog do, a connection of a path that is not shuffled (every path
\* but UDP through a gateway with netem impairment, or with several connections on one backend
\* socket) is a message channel: what is received was sent, in the order it was sent and at
\* most once, and on a path that is neither a datagram one nor through a gateway nothing is
\* skipped.
THEOREM ConnectionsAreChannels ==
    ASSUME NEW c \in Conns
    PROVE  Spec /\ Ordered => Channel(c)!Spec
  <1>1. Init => Channel(c)!Init /\ Reliable
    <2> SUFFICES ASSUME Init PROVE Channel(c)!Init /\ Reliable
      OBVIOUS
    <2>1. NextSeq(c) = 0
      BY DEF Init, NextSeq
    <2>2. HandedOver(c) = {}
      BY <2>1 DEF HandedOver
    <2>3. Unreliable \in BOOLEAN
      BY DEF Unreliable
    <2>4. Reliable
      BY DEF Init, Reliable
    <2> QED
      BY <2>1, <2>2, <2>3, <2>4 DEF Channel!Init
  <1>2. FlowInv /\ Reliable /\ Ordered /\ [Next]_vars => Reliable' /\ Ordered'
    <2> SUFFICES ASSUME FlowInv, Reliable, Ordered, [Next]_vars
                 PROVE  Reliable' /\ Ordered'
      OBVIOUS
    <2>1. UNCHANGED mode
      BY EveryStep DEF FlowInv
    <2> QED
      BY <2>1, ReliableStep DEF FlowInv, Ordered
  <1>3. FlowInv /\ Reliable /\ Ordered /\ [Next]_vars
            => [Channel(c)!Next]_<<NextSeq(c), HandedOver(c), Unreliable>>
    BY ChannelStep DEF Ordered
  <1> QED
    BY <1>1, <1>2, <1>3, FlowAlways, PTL DEF Spec, Channel!Spec
===============================================================================
