--------------------------- MODULE PingPong_proofs ---------------------------
(***************************************************************************)
(* What the samples of a closed-loop run mean, for any capacity, any       *)
(* number of sends and faults, and every transport: EchoDebt,              *)
(* OneLateSample and IntegrityExactWithoutTimeouts.                        *)
(*                                                                         *)
(* The argument follows the round trip as one queue, from the request      *)
(* direction through the hands of the echo thread to the response          *)
(* direction.  A message moves along it, leaves it at the front when the   *)
(* client receives it, or is lost from any place.  Every send is answered, *)
(* timed out, or the one the client waits for: this fixes how many sends   *)
(* were answered, and with it the identity of each message in the queue.   *)
(***************************************************************************)
EXTENDS PingPong, SequenceTheorems, FiniteSetTheorems, TLAPS

\* The messages under way, the next to be received first.
Pipe == resp \o held \o req

\* The sends that were answered, right or wrong, while the client is in its loop.
Answered == sends - timeouts - (IF client = "recv" THEN 1 ELSE 0)

LostBefore(x, L) == Cardinality({l \in L : l < x})

\* p is what is left of the sends 1..n when a were answered and those in L were lost.
InFlight(p, a, n, L) ==
    /\ n = a + Len(p) + Cardinality(L)
    /\ L \subseteq 1 .. n
    /\ \A i \in 1 .. Len(p) : /\ p[i].id \in 1 .. n /\ p[i].id \notin L
                              /\ p[i].id = a + i + LostBefore(p[i].id, L)
    /\ \A i, j \in 1 .. Len(p) : i < j => p[i].id < p[j].id

Queued == client # "exited" => InFlight(Pipe, Answered, sends, lost)

\* The phase is what the main thread stored last.
PhaseOfMain ==
    phase = CASE main = "warmup"   -> PHASE_WARMUP
              [] main = "measure"  -> PHASE_MEASURE
              [] main = "cooldown" -> PHASE_COOLDOWN
              [] OTHER             -> PHASE_DONE

\* The echo thread holds a message exactly between its receive and its send; it never
\* takes part in a run over rings.
InHand ==
    /\ server = "recv" => held = << >>
    /\ server = "echo" => Len(held) = 1
    /\ mode.kind = "ring" => held = << >> /\ server # "echo"

\* Only the last sample can be late, and after it nothing is measured.
LateIsLast ==
    \A i \in DOMAIN samples :
        samples[i].late => /\ i = Len(samples) /\ phase > PHASE_MEASURE
                           /\ client \in {"send", "recv"} => ~measuring

\* Sequence numbers rise along the samples, the queue and the client's next one.
NumbersRise ==
    /\ \A i \in DOMAIN samples :
          /\ samples[i].seq <= seq
          /\ \A j \in DOMAIN samples : i < j => samples[i].seq <= samples[j].seq
          /\ \A j \in 1 .. Len(Pipe) : samples[i].seq <= Pipe[j].seq
    /\ \A i \in 1 .. Len(Pipe) :
          /\ Pipe[i].seq <= seq
          /\ \A j \in 1 .. Len(Pipe) : i < j => Pipe[i].seq <= Pipe[j].seq

\* Every number from the first sample's up to n is recorded or damaged.
Covered(n) ==
    \A k \in samples[1].seq .. n : k \in bad \/ \E i \in DOMAIN samples : samples[i].seq = k

\* The client may still record without having looked at the phase again.
Open == phase = PHASE_MEASURE \/ (client \in {"send", "recv"} /\ measuring)

\* As long as no receive timed out, the echo under way is that of the current number,
\* and from the first sample on every number is recorded or damaged.
OneByOne ==
    /\ client \in {"send", "recv"} /\ measuring => phase >= PHASE_MEASURE
    /\ samples # << >> =>
          /\ phase >= PHASE_MEASURE
          /\ phase = PHASE_MEASURE /\ client \in {"send", "recv"} => measuring
    /\ timeouts = 0 =>
          /\ client = "recv" => \A i \in 1 .. Len(Pipe) : Pipe[i].seq = seq
          /\ \A i \in DOMAIN samples :
                /\ samples[i].seq < seq /\ samples[i].seq \notin bad
                /\ \A j \in DOMAIN samples : i < j => samples[i].seq < samples[j].seq
          /\ \A b \in bad : b < seq
          /\ samples # << >> => /\ Covered(samples[Len(samples)].seq)
                                /\ Open => Covered(seq - 1)

IInv ==
    /\ TypeOK /\ PhaseOfMain /\ InHand /\ Queued
    /\ EchoDebt /\ LateIsLast /\ NumbersRise /\ OneByOne

-----------------------------------------------------------------------------
(***************************************************************************)
(* The queue.                                                              *)
(***************************************************************************)
\* p without its k-th message.
Without(p, k) == [i \in 1 .. (Len(p) - 1) |-> IF i < k THEN p[i] ELSE p[i + 1]]

\* What remains of a queue when one of its messages is lost.
LEMMA WithoutIs ==
    ASSUME NEW p \in Seq(Message), NEW k \in 1 .. Len(p)
    PROVE  /\ Without(p, k) \in Seq(Message) /\ Len(Without(p, k)) = Len(p) - 1
           /\ \A i \in 1 .. (Len(p) - 1) :
                 Without(p, k)[i] = IF i < k THEN p[i] ELSE p[i + 1]
<1> DEFINE q == Without(p, k)
<1>1. Len(p) \in Nat /\ Len(p) - 1 \in Nat
  OBVIOUS
<1>2. q = [i \in 1 .. (Len(p) - 1) |-> IF i < k THEN p[i] ELSE p[i + 1]]
  BY DEF Without
<1>3. \A i \in 1 .. (Len(p) - 1) : q[i] = (IF i < k THEN p[i] ELSE p[i + 1]) /\ q[i] \in Message
  BY <1>2
<1>4. q \in [1 .. (Len(p) - 1) -> Message]
  BY <1>2, <1>3
<1>5. q \in Seq(Message)
  BY <1>1, <1>4, SeqDef
<1>6. Len(q) = Len(p) - 1
  BY <1>1, <1>4, <1>5, LenProperties
<1> QED
  BY <1>3, <1>5, <1>6

\* The lost sends can be counted.
LEMMA LostFinite ==
    ASSUME NEW n \in Nat, NEW L, L \subseteq 1 .. n
    PROVE  IsFiniteSet(L) /\ Cardinality(L) \in Nat
<1>1. IsFiniteSet(1 .. n)
  BY FS_Interval
<1> QED
  BY <1>1, FS_Subset, FS_CardinalityType

\* The losses before any number can be counted.
LEMMA LostCount ==
    ASSUME NEW n \in Nat, NEW L, L \subseteq 1 .. n, NEW x
    PROVE  IsFiniteSet({l \in L : l < x}) /\ LostBefore(x, L) \in Nat
BY LostFinite, FS_Subset, FS_CardinalityType DEF LostBefore

\* All of them were lost before the next send.
LEMMA LostAll ==
    ASSUME NEW n \in Nat, NEW L, L \subseteq 1 .. n
    PROVE  LostBefore(n + 1, L) = Cardinality(L)
<1>1. \A l \in L : l < n + 1
  OBVIOUS
<1>2. {l \in L : l < n + 1} = L
  BY <1>1
<1> QED
  BY <1>2 DEF LostBefore

\* Another one is lost.
LEMMA LostMore ==
    ASSUME NEW n \in Nat, NEW L, L \subseteq 1 .. n, NEW y \in Nat, y \notin L, NEW x \in Nat
    PROVE  /\ Cardinality(L \cup {y}) = Cardinality(L) + 1
           /\ x <= y => LostBefore(x, L \cup {y}) = LostBefore(x, L)
           /\ x > y => LostBefore(x, L \cup {y}) = LostBefore(x, L) + 1
<1> DEFINE B == {l \in L : l < x}
<1>1. Cardinality(L \cup {y}) = Cardinality(L) + 1
  BY LostFinite, FS_AddElement
<1>2. ASSUME x <= y PROVE {l \in L \cup {y} : l < x} = B
  BY <1>2
<1>3. ASSUME x > y PROVE {l \in L \cup {y} : l < x} = B \cup {y}
  BY <1>3
<1>4. IsFiniteSet(B) /\ y \notin B
  BY LostCount
<1>5. Cardinality(B \cup {y}) = Cardinality(B) + 1
  BY <1>4, FS_AddElement
<1> QED
  BY <1>1, <1>2, <1>3, <1>5 DEF LostBefore

\* A message is sent and is under way.
LEMMA QueueSend ==
    ASSUME NEW p \in Seq(Message), NEW a \in Int, NEW n \in Nat, NEW L,
           InFlight(p, a, n, L), NEW m \in Message, m.id = n + 1
    PROVE  InFlight(Append(p, m), a, n + 1, L)
<1> DEFINE q == Append(p, m)
<1>1. /\ Len(q) = Len(p) + 1 /\ q[Len(p) + 1] = m /\ \A i \in 1 .. Len(p) : q[i] = p[i]
  BY AppendProperties
<1>2. Len(p) \in Nat /\ L \subseteq 1 .. n
  BY DEF InFlight
<1>3. LostBefore(n + 1, L) = Cardinality(L) /\ Cardinality(L) \in Nat
  BY <1>2, LostAll, LostFinite
<1> HIDE DEF q
<1>4. n + 1 = a + Len(q) + Cardinality(L) /\ L \subseteq 1 .. (n + 1)
  BY <1>1, <1>2, <1>3 DEF InFlight
<1>5. ASSUME NEW i \in 1 .. Len(q)
      PROVE  /\ q[i].id \in 1 .. (n + 1) /\ q[i].id \notin L
             /\ q[i].id = a + i + LostBefore(q[i].id, L)
  <2>1. CASE i \in 1 .. Len(p)
    <3>1. q[i] = p[i]
      BY <1>1, <2>1
    <3>2. p[i].id \in 1 .. n /\ p[i].id \notin L /\ p[i].id = a + i + LostBefore(p[i].id, L)
      BY <2>1 DEF InFlight
    <3> QED
      BY <3>1, <3>2
  <2>2. CASE i = Len(p) + 1
    <3>1. q[i].id = n + 1 /\ n = a + Len(p) + Cardinality(L)
      BY <1>1, <2>2 DEF InFlight
    <3>2. n + 1 \notin L
      BY <1>2
    <3> QED
      BY <1>2, <1>3, <2>2, <3>1, <3>2
  <2> QED
    BY <1>1, <1>2, <2>1, <2>2
<1>6. ASSUME NEW i \in 1 .. Len(q), NEW j \in 1 .. Len(q), i < j
      PROVE  q[i].id < q[j].id
  <2>1. i \in 1 .. Len(p) /\ q[i] = p[i] /\ p[i].id \in 1 .. n
    BY <1>1, <1>2, <1>6 DEF InFlight
  <2>2. CASE j \in 1 .. Len(p)
    BY <1>1, <1>6, <2>1, <2>2 DEF InFlight
  <2>3. CASE j = Len(p) + 1
    BY <1>1, <2>1, <2>3
  <2> QED
    BY <1>1, <1>2, <2>2, <2>3
<1> QED
  BY <1>4, <1>5, <1>6 DEF InFlight, q

\* A datagram is lost as it is sent.
LEMMA QueueDrop ==
    ASSUME NEW p \in Seq(Message), NEW a \in Int, NEW n \in Nat, NEW L,
           InFlight(p, a, n, L)
    PROVE  InFlight(p, a, n + 1, L \cup {n + 1})
<1>1. Len(p) \in Nat /\ L \subseteq 1 .. n /\ n + 1 \notin L
  BY DEF InFlight
<1>2. Cardinality(L \cup {n + 1}) = Cardinality(L) + 1 /\ Cardinality(L) \in Nat
  BY <1>1, n + 1 \in Nat, LostMore, LostFinite
<1>3. \A x \in 1 .. n : LostBefore(x, L \cup {n + 1}) = LostBefore(x, L)
  BY <1>1, n + 1 \in Nat, \A x \in 1 .. n : x \in Nat /\ x <= n + 1, LostMore
<1>4. L \cup {n + 1} \subseteq 1 .. (n + 1)
  BY <1>1
<1>5. ASSUME NEW i \in 1 .. Len(p)
      PROVE  /\ p[i].id \in 1 .. (n + 1) /\ p[i].id \notin L \cup {n + 1}
             /\ p[i].id = a + i + LostBefore(p[i].id, L \cup {n + 1})
  <2>1. p[i].id \in 1 .. n /\ p[i].id \notin L /\ p[i].id = a + i + LostBefore(p[i].id, L)
    BY DEF InFlight
  <2>2. p[i].id # n + 1
    BY <2>1
  <2>3. LostBefore(p[i].id, L \cup {n + 1}) = LostBefore(p[i].id, L)
    BY <1>3, <2>1
  <2>4. p[i].id \in 1 .. (n + 1)
    BY <2>1
  <2> QED
    BY <2>1, <2>2, <2>3, <2>4
<1>6. n + 1 = a + Len(p) + Cardinality(L \cup {n + 1})
  BY <1>1, <1>2 DEF InFlight
<1>7. \A i, j \in 1 .. Len(p) : i < j => p[i].id < p[j].id
  BY DEF InFlight
<1> QED
  BY <1>4, <1>5, <1>6, <1>7 DEF InFlight

\* The client receives the message at the front.
LEMMA QueueTake ==
    ASSUME NEW p \in Seq(Message), NEW a \in Int, NEW n \in Nat, NEW L,
           InFlight(p, a, n, L), p # << >>
    PROVE  InFlight(Without(p, 1), a + 1, n, L)
<1> DEFINE q == Without(p, 1)
<1>1. Len(p) \in Nat \ {0} /\ L \subseteq 1 .. n /\ Cardinality(L) \in Nat
  <2>1. Len(p) \in Nat /\ Len(p) # 0
    BY EmptySeq
  <2>2. L \subseteq 1 .. n
    BY DEF InFlight
  <2> QED
    BY <2>1, <2>2, LostFinite
<1>2. Len(q) = Len(p) - 1 /\ \A i \in 1 .. (Len(p) - 1) : q[i] = p[i + 1]
  BY <1>1, WithoutIs
<1> HIDE DEF q
<1>3. n = (a + 1) + Len(q) + Cardinality(L)
  BY <1>1, <1>2 DEF InFlight
<1>4. ASSUME NEW i \in 1 .. Len(q)
      PROVE  /\ q[i].id \in 1 .. n /\ q[i].id \notin L
             /\ q[i].id = (a + 1) + i + LostBefore(q[i].id, L)
  <2>1. i + 1 \in 1 .. Len(p) /\ q[i] = p[i + 1]
    BY <1>1, <1>2
  <2>2. /\ p[i + 1].id \in 1 .. n /\ p[i + 1].id \notin L
        /\ p[i + 1].id = a + (i + 1) + LostBefore(p[i + 1].id, L)
    BY <2>1 DEF InFlight
  <2>3. LostBefore(p[i + 1].id, L) \in Nat
    BY <1>1, LostCount
  <2> QED
    BY <2>1, <2>2, <2>3
<1>5. ASSUME NEW i \in 1 .. Len(q), NEW j \in 1 .. Len(q), i < j
      PROVE  q[i].id < q[j].id
  <2>1. i + 1 \in 1 .. Len(p) /\ j + 1 \in 1 .. Len(p) /\ i + 1 < j + 1
    BY <1>1, <1>2, <1>5
  <2>2. p[i + 1].id < p[j + 1].id
    BY <2>1 DEF InFlight
  <2> QED
    BY <1>2, <2>1, <2>2
<1> QED
  BY <1>1, <1>3, <1>4, <1>5 DEF InFlight, q

\* The path loses a message from any place.
LEMMA QueueLose ==
    ASSUME NEW p \in Seq(Message), NEW a \in Int, NEW n \in Nat, NEW L,
           InFlight(p, a, n, L), NEW k \in 1 .. Len(p)
    PROVE  InFlight(Without(p, k), a, n, L \cup {p[k].id})
<1> DEFINE q == Without(p, k)
           x == p[k].id
           M == L \cup {x}
<1>1. Len(p) \in Nat /\ L \subseteq 1 .. n /\ x \in 1 .. n /\ x \notin L
  BY DEF InFlight
<1>2. Len(q) = Len(p) - 1 /\ \A i \in 1 .. (Len(p) - 1) : q[i] = IF i < k THEN p[i] ELSE p[i + 1]
  BY WithoutIs
<1>3. Cardinality(M) = Cardinality(L) + 1 /\ Cardinality(L) \in Nat
  BY <1>1, x \in Nat, LostMore, LostFinite
<1>4. \A y \in 1 .. n : /\ LostBefore(y, L) \in Nat
                        /\ y <= x => LostBefore(y, M) = LostBefore(y, L)
                        /\ y > x => LostBefore(y, M) = LostBefore(y, L) + 1
  BY <1>1, x \in Nat, \A y \in 1 .. n : y \in Nat, LostMore, LostCount
<1>5. \A i \in 1 .. Len(p) : i < k => p[i].id < x
  BY DEF InFlight
<1>6. \A i \in 1 .. Len(p) : k < i => p[i].id > x
  BY DEF InFlight
<1>7. \A i \in 1 .. Len(p) : /\ p[i].id \in 1 .. n /\ p[i].id \notin L
                             /\ p[i].id = a + i + LostBefore(p[i].id, L)
  BY DEF InFlight
<1>8. M \subseteq 1 .. n
  BY <1>1
<1>9. \A i, j \in 1 .. Len(p) : i < j => p[i].id < p[j].id
  BY DEF InFlight
<1>10. n = a + Len(q) + Cardinality(M)
  BY <1>1, <1>2, <1>3 DEF InFlight
<1> HIDE DEF q, M, x
<1>11. ASSUME NEW i \in 1 .. Len(q)
       PROVE  /\ q[i].id \in 1 .. n /\ q[i].id \notin M
              /\ q[i].id = a + i + LostBefore(q[i].id, M)
  <2>1. CASE i < k
    <3>1. i \in 1 .. Len(p) /\ q[i] = p[i] /\ p[i].id < x
      BY <1>1, <1>2, <1>5, <2>1
    <3>2. LostBefore(p[i].id, M) = LostBefore(p[i].id, L)
      BY <1>1, <1>4, <1>7, <3>1
    <3>3. p[i].id \notin M
      BY <1>1, <1>7, <3>1 DEF M
    <3> QED
      BY <1>7, <3>1, <3>2, <3>3
  <2>2. CASE ~(i < k)
    <3>1. i + 1 \in 1 .. Len(p) /\ q[i] = p[i + 1] /\ p[i + 1].id > x
      BY <1>1, <1>2, <1>6, <2>2
    <3>2. /\ LostBefore(p[i + 1].id, M) = LostBefore(p[i + 1].id, L) + 1
          /\ LostBefore(p[i + 1].id, L) \in Nat
      BY <1>1, <1>4, <1>7, <3>1
    <3>3. p[i + 1].id \notin M
      BY <1>1, <1>7, <3>1 DEF M
    <3>4. p[i + 1].id = a + (i + 1) + LostBefore(p[i + 1].id, L)
      BY <1>7, <3>1
    <3>5. p[i + 1].id = a + i + LostBefore(p[i + 1].id, M)
      <4> DEFINE y == p[i + 1].id
      <4> HIDE DEF y
      <4>1. y = a + (i + 1) + LostBefore(y, L) /\ LostBefore(y, M) = LostBefore(y, L) + 1
        BY <3>2, <3>4 DEF y
      <4>2. LostBefore(y, L) \in Nat /\ i \in Int
        BY <3>2 DEF y
      <4>3. y = a + i + LostBefore(y, M)
        BY <4>1, <4>2
      <4> QED
        BY <4>3 DEF y
    <3> QED
      BY <1>7, <3>1, <3>3, <3>5
  <2> QED
    BY <2>1, <2>2
<1>12. \A i, j \in 1 .. Len(q) : i < j => q[i].id < q[j].id
  BY <1>1, <1>2, <1>9
<1> QED
  BY <1>8, <1>10, <1>11, <1>12 DEF InFlight, q, M, x

-----------------------------------------------------------------------------
(***************************************************************************)
(* The three parts of the queue.                                           *)
(***************************************************************************)
\* Where a message of each part stands.
LEMMA PipeIs ==
    ASSUME NEW r \in Seq(Message), NEW h \in Seq(Message), NEW q \in Seq(Message)
    PROVE  /\ r \o h \o q \in Seq(Message)
           /\ Len(r \o h \o q) = Len(r) + Len(h) + Len(q)
           /\ \A i \in 1 .. Len(r) : (r \o h \o q)[i] = r[i]
           /\ \A i \in 1 .. Len(h) : (r \o h \o q)[Len(r) + i] = h[i]
           /\ \A i \in 1 .. Len(q) : (r \o h \o q)[Len(r) + Len(h) + i] = q[i]
<1> DEFINE p == r \o h
<1>0. p \in Seq(Message)
  BY ConcatProperties
<1>1. /\ Len(p) = Len(r) + Len(h)
      /\ \A i \in 1 .. Len(r) + Len(h) : p[i] = IF i <= Len(r) THEN r[i] ELSE h[i - Len(r)]
  BY ConcatProperties
<1> HIDE DEF p
<1>2. /\ p \o q \in Seq(Message) /\ Len(p \o q) = Len(p) + Len(q)
      /\ \A i \in 1 .. Len(p) + Len(q) : (p \o q)[i] = IF i <= Len(p) THEN p[i] ELSE q[i - Len(p)]
  BY <1>0, ConcatProperties
<1>3. Len(r) \in Nat /\ Len(h) \in Nat /\ Len(q) \in Nat
  OBVIOUS
<1>4. \A i \in 1 .. Len(r) : (p \o q)[i] = r[i]
  BY <1>1, <1>2, <1>3
<1>5. ASSUME NEW i \in 1 .. Len(h) PROVE (p \o q)[Len(r) + i] = h[i]
  <2>1. (p \o q)[Len(r) + i] = p[Len(r) + i]
    BY <1>1, <1>2, <1>3
  <2>2. p[Len(r) + i] = h[Len(r) + i - Len(r)]
    <3>1. Len(r) + i \in 1 .. Len(r) + Len(h) /\ ~(Len(r) + i <= Len(r))
      BY <1>3
    <3> QED
      BY <1>1, <3>1
  <2> QED
    BY <1>3, <2>1, <2>2
<1>6. ASSUME NEW i \in 1 .. Len(q) PROVE (p \o q)[Len(r) + Len(h) + i] = q[i]
  <2>1. (p \o q)[Len(p) + i] = q[Len(p) + i - Len(p)]
    BY <1>1, <1>2, <1>3
  <2> QED
    BY <1>1, <1>3, <2>1
<1>7. Len(p \o q) = Len(r) + Len(h) + Len(q)
  BY <1>1, <1>2
<1> QED
  BY <1>2, <1>4, <1>5, <1>6, <1>7 DEF p

\* Two queues whose messages stand alike are one.
LEMMA PipeEqual ==
    ASSUME NEW p \in Seq(Message), NEW q \in Seq(Message), Len(p) = Len(q),
           \A i \in 1 .. Len(p) : p[i] = q[i]
    PROVE  p = q
BY SeqEqual

\* A message moves on: into the hands of the echo thread, out of them, or past them.
LEMMA PipeMoves ==
    ASSUME NEW r \in Seq(Message), NEW q \in Seq(Message)
    PROVE  /\ q # << >> => /\ r \o <<Head(q)>> \o Tail(q) = r \o << >> \o q
                           /\ Append(r, Head(q)) \o << >> \o Tail(q) = r \o << >> \o q
           /\ \A h \in Seq(Message) : Len(h) = 1 => (r \o <<Head(h)>>) \o << >> \o q = r \o h \o q
<1>0. << >> \in Seq(Message) /\ Len(<< >>) = 0
  BY EmptySeq
<1>1. \A m \in Message : /\ <<m>> \in Seq(Message) /\ Len(<<m>>) = 1 /\ <<m>>[1] = m
  OBVIOUS
<1>2. ASSUME q # << >>
      PROVE  /\ r \o <<Head(q)>> \o Tail(q) = r \o << >> \o q
             /\ Append(r, Head(q)) \o << >> \o Tail(q) = r \o << >> \o q
  <2>1. /\ Head(q) \in Message /\ Tail(q) \in Seq(Message) /\ Len(Tail(q)) = Len(q) - 1
        /\ \A i \in 1 .. (Len(q) - 1) : Tail(q)[i] = q[i + 1]
        /\ Head(q) = q[1] /\ Len(q) \in Nat \ {0} /\ Len(r) \in Nat
    BY <1>2, HeadTailProperties, EmptySeq
  <2> DEFINE old == r \o << >> \o q
             new == r \o <<Head(q)>> \o Tail(q)
             rel == Append(r, Head(q)) \o << >> \o Tail(q)
  <2>2. /\ old \in Seq(Message) /\ Len(old) = Len(r) + Len(q)
        /\ \A i \in 1 .. Len(r) : old[i] = r[i]
        /\ \A i \in 1 .. Len(q) : old[Len(r) + i] = q[i]
    BY <1>0, <2>1, PipeIs
  <2>3. /\ new \in Seq(Message) /\ Len(new) = Len(r) + Len(q)
        /\ \A i \in 1 .. Len(r) : new[i] = r[i]
        /\ new[Len(r) + 1] = Head(q)
        /\ \A i \in 1 .. (Len(q) - 1) : new[Len(r) + 1 + i] = Tail(q)[i]
    BY <1>1, <2>1, PipeIs
  <2>4. /\ rel \in Seq(Message) /\ Len(rel) = Len(r) + Len(q)
        /\ \A i \in 1 .. Len(r) : rel[i] = r[i]
        /\ rel[Len(r) + 1] = Head(q)
        /\ \A i \in 1 .. (Len(q) - 1) : rel[Len(r) + 1 + i] = Tail(q)[i]
    <3> DEFINE s == Append(r, Head(q))
    <3>0. s \in Seq(Message)
      BY <2>1, AppendProperties
    <3>1. /\ Len(s) = Len(r) + 1 /\ s[Len(r) + 1] = Head(q)
          /\ \A i \in 1 .. Len(r) : s[i] = r[i]
      BY <2>1, AppendProperties
    <3>a. Tail(q) \in Seq(Message)
      BY <2>1
    <3> HIDE DEF s
    <3>2. /\ s \o << >> \o Tail(q) \in Seq(Message)
          /\ Len(s \o << >> \o Tail(q)) = Len(s) + Len(Tail(q))
          /\ \A i \in 1 .. Len(s) : (s \o << >> \o Tail(q))[i] = s[i]
          /\ \A i \in 1 .. Len(Tail(q)) : (s \o << >> \o Tail(q))[Len(s) + i] = Tail(q)[i]
      <4>1. Len(s) \in Nat /\ Len(Tail(q)) \in Nat
        BY <3>0, <3>a
      <4> QED
        BY <1>0, <3>0, <3>a, <4>1, PipeIs
    <3> QED
      BY <2>1, <3>1, <3>2 DEF s
  <2> HIDE DEF old, new, rel
  <2>5. ASSUME NEW i \in 1 .. Len(old) PROVE new[i] = old[i] /\ rel[i] = old[i]
    <3>1. CASE i \in 1 .. Len(r)
      BY <2>2, <2>3, <2>4, <3>1
    <3>2. CASE i = Len(r) + 1
      BY <2>1, <2>2, <2>3, <2>4, <3>2
    <3>3. CASE i > Len(r) + 1
      <4>1. PICK k \in 1 .. (Len(q) - 1) : i = Len(r) + 1 + k
        <5>1. i - Len(r) - 1 \in 1 .. (Len(q) - 1) /\ i = Len(r) + 1 + (i - Len(r) - 1)
          BY <2>1, <2>2, <3>3
        <5> QED
          BY <5>1
      <4>2. k + 1 \in 1 .. Len(q) /\ i = Len(r) + (k + 1)
        BY <2>1, <4>1
      <4>3. old[i] = q[k + 1]
        BY <2>2, <4>2
      <4>4. new[i] = Tail(q)[k] /\ rel[i] = Tail(q)[k]
        BY <2>3, <2>4, <4>1
      <4> QED
        BY <2>1, <4>3, <4>4
    <3> QED
      BY <2>1, <2>2, <3>1, <3>2, <3>3
  <2> QED
    BY <2>2, <2>3, <2>4, <2>5, PipeEqual DEF old, new, rel
<1>3. ASSUME NEW h \in Seq(Message), Len(h) = 1
      PROVE  (r \o <<Head(h)>>) \o << >> \o q = r \o h \o q
  <2>1. h = <<Head(h)>> /\ r \o h \in Seq(Message)
    BY <1>3, ConcatProperties
  <2>2. (r \o h) \o << >> = r \o h
    BY <2>1, ConcatEmptySeq
  <2> QED
    BY <2>1, <2>2
<1> QED
  BY <1>2, <1>3

\* A message joins the queue at its end.
LEMMA PipeGrows ==
    ASSUME NEW r \in Seq(Message), NEW h \in Seq(Message), NEW q \in Seq(Message),
           NEW m \in Message
    PROVE  r \o h \o Append(q, m) = Append(r \o h \o q, m)
<1> DEFINE p == r \o h
<1>1. p \in Seq(Message)
  BY ConcatProperties
<1>2. Append(q, m) \in Seq(Message) /\ p \o q \in Seq(Message)
  BY <1>1, AppendProperties, ConcatProperties
<1> DEFINE new == p \o Append(q, m)
           old == Append(p \o q, m)
<1> HIDE DEF p
<1>a. Len(Append(q, m)) = Len(q) + 1 /\ Len(p) \in Nat /\ Len(q) \in Nat
  BY <1>1, AppendProperties
<1>3. /\ new \in Seq(Message) /\ Len(new) = Len(p) + Len(q) + 1
      /\ \A i \in 1 .. Len(new) : new[i] = IF i <= Len(p) THEN p[i] ELSE Append(q, m)[i - Len(p)]
  <2>1. /\ new \in Seq(Message) /\ Len(new) = Len(p) + Len(Append(q, m))
        /\ \A i \in 1 .. Len(p) + Len(Append(q, m)) :
              new[i] = IF i <= Len(p) THEN p[i] ELSE Append(q, m)[i - Len(p)]
    BY <1>1, <1>2, ConcatProperties
  <2> HIDE DEF new
  <2> QED
    BY <1>a, <2>1
<1>4. /\ old \in Seq(Message) /\ Len(old) = Len(p) + Len(q) + 1
      /\ old[Len(p) + Len(q) + 1] = m
      /\ \A i \in 1 .. Len(p) + Len(q) : old[i] = IF i <= Len(p) THEN p[i] ELSE q[i - Len(p)]
  <2>1. /\ Len(p \o q) = Len(p) + Len(q)
        /\ \A i \in 1 .. Len(p) + Len(q) :
              (p \o q)[i] = IF i <= Len(p) THEN p[i] ELSE q[i - Len(p)]
    BY <1>1, ConcatProperties
  <2>2. /\ old \in Seq(Message) /\ Len(old) = Len(p \o q) + 1 /\ old[Len(p \o q) + 1] = m
        /\ \A i \in 1 .. Len(p \o q) : old[i] = (p \o q)[i]
    BY <1>2, AppendProperties
  <2> QED
    BY <2>1, <2>2
<1>5. \A i \in 1 .. Len(new) : new[i] = old[i]
  <2> SUFFICES ASSUME NEW i \in 1 .. Len(new) PROVE new[i] = old[i]
    OBVIOUS
  <2> HIDE DEF new, old
  <2>0. Len(p) \in Nat /\ Len(q) \in Nat
    BY <1>1
  <2>1. CASE i = Len(p) + Len(q) + 1
    BY <1>3, <1>4, <2>0, <2>1, AppendProperties
  <2>2. CASE i <= Len(p)
    <3>1. i \in 1 .. Len(p) + Len(q)
      BY <2>0, <2>2
    <3> QED
      BY <1>3, <1>4, <2>2, <3>1
  <2>3. CASE i > Len(p) /\ i <= Len(p) + Len(q)
    <3>1. i - Len(p) \in 1 .. Len(q)
      BY <2>0, <2>3
    <3>2. Append(q, m)[i - Len(p)] = q[i - Len(p)]
      BY <3>1, AppendProperties
    <3> QED
      BY <1>3, <1>4, <2>0, <2>3, <3>2
  <2>4. i \in Int /\ i <= Len(p) + Len(q) + 1
    BY <1>3, <2>0
  <2>5. \/ i = Len(p) + Len(q) + 1
        \/ i <= Len(p)
        \/ i > Len(p) /\ i <= Len(p) + Len(q)
    BY <2>0, <2>4
  <2> QED
    BY <2>1, <2>2, <2>3, <2>5
<1> HIDE DEF new, old
<1>6. new = old
  BY <1>3, <1>4, <1>5, PipeEqual
<1> QED
  BY <1>6 DEF new, old, p

\* A message leaves the queue from one of its parts.
LEMMA PipeLoses ==
    ASSUME NEW r \in Seq(Message), NEW h \in Seq(Message), NEW q \in Seq(Message)
    PROVE  /\ r # << >> => Tail(r) \o h \o q = Without(r \o h \o q, 1)
           /\ Len(h) = 1 => r \o << >> \o q = Without(r \o h \o q, Len(r) + 1)
           /\ q # << >> => r \o h \o Tail(q) = Without(r \o h \o q, Len(r) + Len(h) + 1)
<1> DEFINE p == r \o h \o q
<1>0. << >> \in Seq(Message) /\ Len(<< >>) = 0 /\ Len(r) \in Nat /\ Len(h) \in Nat /\ Len(q) \in Nat
  BY EmptySeq
<1>1. /\ p \in Seq(Message) /\ Len(p) = Len(r) + Len(h) + Len(q)
      /\ \A i \in 1 .. Len(r) : p[i] = r[i]
      /\ \A i \in 1 .. Len(h) : p[Len(r) + i] = h[i]
      /\ \A i \in 1 .. Len(q) : p[Len(r) + Len(h) + i] = q[i]
  BY PipeIs
<1> HIDE DEF p
<1>2. ASSUME r # << >> PROVE Tail(r) \o h \o q = Without(p, 1)
  <2> DEFINE new == Tail(r) \o h \o q
             w   == Without(p, 1)
  <2>1. /\ Tail(r) \in Seq(Message) /\ Len(Tail(r)) = Len(r) - 1 /\ Len(r) \in Nat \ {0}
        /\ \A i \in 1 .. (Len(r) - 1) : Tail(r)[i] = r[i + 1]
    BY <1>2, HeadTailProperties, EmptySeq
  <2>2. /\ new \in Seq(Message) /\ Len(new) = Len(r) - 1 + Len(h) + Len(q)
        /\ \A i \in 1 .. (Len(r) - 1) : new[i] = Tail(r)[i]
        /\ \A i \in 1 .. Len(h) : new[Len(r) - 1 + i] = h[i]
        /\ \A i \in 1 .. Len(q) : new[Len(r) - 1 + Len(h) + i] = q[i]
    BY <2>1, PipeIs
  <2>3. /\ w \in Seq(Message) /\ Len(w) = Len(p) - 1
        /\ \A i \in 1 .. (Len(p) - 1) : w[i] = p[i + 1]
    BY <1>0, <1>1, <2>1, WithoutIs
  <2> HIDE DEF new, w
  <2>4. ASSUME NEW i \in 1 .. Len(new) PROVE new[i] = w[i]
    <3>0. w[i] = p[i + 1]
      BY <1>0, <1>1, <2>1, <2>2, <2>3
    <3>1. CASE i <= Len(r) - 1
      <4>1. i \in 1 .. (Len(r) - 1) /\ i + 1 \in 1 .. Len(r)
        BY <1>0, <3>1
      <4> QED
        BY <1>1, <2>1, <2>2, <3>0, <4>1
    <3>2. CASE i > Len(r) - 1 /\ i <= Len(r) - 1 + Len(h)
      <4>1. PICK k \in 1 .. Len(h) : i = Len(r) - 1 + k
        <5>1. i - Len(r) + 1 \in 1 .. Len(h) /\ i = Len(r) - 1 + (i - Len(r) + 1)
          BY <1>0, <3>2
        <5> QED
          BY <5>1
      <4>2. new[i] = h[k] /\ i + 1 = Len(r) + k
        BY <1>0, <2>2, <4>1
      <4> QED
        BY <1>1, <3>0, <4>2
    <3>3. CASE i > Len(r) - 1 + Len(h)
      <4>1. PICK k \in 1 .. Len(q) : i = Len(r) - 1 + Len(h) + k
        <5>1. i - Len(r) + 1 - Len(h) \in 1 .. Len(q) /\ i = Len(r) - 1 + Len(h) + (i - Len(r) + 1 - Len(h))
          BY <1>0, <2>2, <3>3
        <5> QED
          BY <5>1
      <4>2. new[i] = q[k] /\ i + 1 = Len(r) + Len(h) + k
        BY <1>0, <2>2, <4>1
      <4> QED
        BY <1>1, <3>0, <4>2
    <3> QED
      BY <1>0, <3>1, <3>2, <3>3
  <2>5. Len(new) = Len(w)
    BY <1>0, <1>1, <2>1, <2>2, <2>3
  <2> QED
    BY <2>2, <2>3, <2>4, <2>5, PipeEqual DEF new, w
<1>3. ASSUME Len(h) = 1 PROVE r \o << >> \o q = Without(p, Len(r) + 1)
  <2> DEFINE new == r \o << >> \o q
             w   == Without(p, Len(r) + 1)
  <2>1. /\ new \in Seq(Message) /\ Len(new) = Len(r) + Len(q)
        /\ \A i \in 1 .. Len(r) : new[i] = r[i]
        /\ \A i \in 1 .. Len(q) : new[Len(r) + i] = q[i]
    BY <1>0, PipeIs
  <2>2. /\ w \in Seq(Message) /\ Len(w) = Len(p) - 1
        /\ \A i \in 1 .. (Len(p) - 1) : w[i] = IF i < Len(r) + 1 THEN p[i] ELSE p[i + 1]
    BY <1>0, <1>1, <1>3, WithoutIs
  <2> HIDE DEF new, w
  <2>3. ASSUME NEW i \in 1 .. Len(new) PROVE new[i] = w[i]
    <3>1. CASE i <= Len(r)
      <4>1. i \in 1 .. Len(r) /\ i \in 1 .. (Len(p) - 1) /\ i < Len(r) + 1
        BY <1>0, <1>1, <1>3, <3>1
      <4>2. w[i] = p[i]
        BY <2>2, <4>1
      <4> QED
        BY <1>1, <2>1, <4>1, <4>2
    <3>2. CASE i > Len(r)
      <4>1. PICK k \in 1 .. Len(q) : i = Len(r) + k
        <5>1. i - Len(r) \in 1 .. Len(q) /\ i = Len(r) + (i - Len(r))
          BY <1>0, <2>1, <3>2
        <5> QED
          BY <5>1
      <4>2. new[i] = q[k] /\ w[i] = p[i + 1] /\ i + 1 = Len(r) + Len(h) + k
        BY <1>0, <1>1, <1>3, <2>1, <2>2, <3>2, <4>1
      <4> QED
        BY <1>1, <4>2
    <3> QED
      BY <1>0, <3>1, <3>2
  <2>4. Len(new) = Len(w)
    <3>1. Len(p) = Len(r) + 1 + Len(q)
      BY <1>1, <1>3
    <3> QED
      BY <1>0, <2>1, <2>2, <3>1
  <2> QED
    BY <2>1, <2>2, <2>3, <2>4, PipeEqual DEF new, w
<1>4. ASSUME q # << >> PROVE r \o h \o Tail(q) = Without(p, Len(r) + Len(h) + 1)
  <2> DEFINE new == r \o h \o Tail(q)
             c   == Len(r) + Len(h)
             w   == Without(p, c + 1)
  <2>1. /\ Tail(q) \in Seq(Message) /\ Len(Tail(q)) = Len(q) - 1 /\ Len(q) \in Nat \ {0}
        /\ \A i \in 1 .. (Len(q) - 1) : Tail(q)[i] = q[i + 1]
    BY <1>4, HeadTailProperties, EmptySeq
  <2>2. /\ new \in Seq(Message) /\ Len(new) = Len(r) + Len(h) + Len(q) - 1
        /\ \A i \in 1 .. Len(r) : new[i] = r[i]
        /\ \A i \in 1 .. Len(h) : new[Len(r) + i] = h[i]
        /\ \A i \in 1 .. (Len(q) - 1) : new[Len(r) + Len(h) + i] = Tail(q)[i]
    BY <1>0, <2>1, PipeIs
  <2>3. /\ w \in Seq(Message) /\ Len(w) = Len(p) - 1
        /\ \A i \in 1 .. (Len(p) - 1) : w[i] = IF i < c + 1 THEN p[i] ELSE p[i + 1]
    <3>1. p \in Seq(Message) /\ c + 1 \in 1 .. Len(p)
      BY <1>0, <1>1, <2>1
    <3> QED
      BY <3>1, WithoutIs
  <2> HIDE DEF new, w
  <2>4. ASSUME NEW i \in 1 .. Len(new) PROVE new[i] = w[i]
    <3>1. CASE i <= Len(r)
      BY <1>0, <1>1, <2>1, <2>2, <2>3, <3>1
    <3>2. CASE i > Len(r) /\ i <= c
      <4>1. PICK k \in 1 .. Len(h) : i = Len(r) + k
        <5>1. i - Len(r) \in 1 .. Len(h) /\ i = Len(r) + (i - Len(r))
          BY <1>0, <3>2
        <5> QED
          BY <5>1
      <4>2. new[i] = h[k] /\ w[i] = p[i] /\ p[i] = h[k]
        BY <1>0, <1>1, <2>1, <2>2, <2>3, <3>2, <4>1
      <4> QED
        BY <4>2
    <3>3. CASE i > c
      <4>1. PICK k \in 1 .. (Len(q) - 1) : i = Len(r) + Len(h) + k
        <5>1. i - c \in 1 .. (Len(q) - 1) /\ i = Len(r) + Len(h) + (i - c)
          BY <1>0, <2>1, <2>2, <3>3
        <5> QED
          BY <5>1
      <4>2. new[i] = q[k + 1]
        BY <2>1, <2>2, <4>1
      <4>3. w[i] = p[i + 1] /\ i + 1 = Len(r) + Len(h) + (k + 1) /\ k + 1 \in 1 .. Len(q)
        BY <1>0, <1>1, <2>1, <2>2, <2>3, <3>3, <4>1
      <4> QED
        BY <1>1, <4>2, <4>3
    <3> QED
      BY <1>0, <3>1, <3>2, <3>3
  <2>5. Len(new) = Len(w)
    BY <1>0, <1>1, <2>1, <2>2, <2>3
  <2> QED
    BY <2>2, <2>3, <2>4, <2>5, PipeEqual DEF new, w
<1> QED
  BY <1>2, <1>3, <1>4 DEF p

-----------------------------------------------------------------------------
(***************************************************************************)
(* The steps.                                                              *)
(***************************************************************************)
\* What a step may do to the queue and the lost sends.
Kept     == Pipe' = Pipe /\ lost' = lost
Sent     == Pipe' = Append(Pipe, [seq |-> seq, id |-> sends + 1]) /\ lost' = lost
Received == Pipe # << >> /\ Pipe' = Without(Pipe, 1) /\ lost' = lost
Lost     == \E k \in 1 .. Len(Pipe) :
                Pipe' = Without(Pipe, k) /\ lost' = lost \cup {Pipe[k].id}
Dropped  == Pipe' = Pipe /\ lost' = lost \cup {sends + 1}

\* The whole way of a message is a sequence, and starts with the first echo that waits.
LEMMA PipeTyped ==
    ASSUME TypeOK
    PROVE  /\ Pipe \in Seq(Message) /\ Len(Pipe) \in Nat
           /\ resp # << >> => Pipe # << >> /\ Pipe[1] = Head(resp)
<1>1. resp \in Seq(Message) /\ held \in Seq(Message) /\ req \in Seq(Message)
  BY DEF TypeOK
<1>2. Pipe \in Seq(Message) /\ Len(Pipe) = Len(resp) + Len(held) + Len(req)
  BY <1>1, PipeIs DEF Pipe
<1>3. ASSUME resp # << >> PROVE Pipe # << >> /\ Pipe[1] = Head(resp)
  <2>1. Len(resp) \in Nat \ {0} /\ Len(held) \in Nat /\ Len(req) \in Nat
    BY <1>1, <1>3, EmptySeq
  <2>2. Pipe[1] = resp[1]
    BY <1>1, <2>1, PipeIs DEF Pipe
  <2>3. Pipe # << >>
    BY <1>2, <2>1, EmptySeq
  <2> QED
    BY <1>1, <1>3, <2>2, <2>3
<1> QED
  BY <1>2, <1>3

\* Every step of the threads and of the path does one of these.
LEMMA PipeSteps ==
    ASSUME TypeOK, InHand
    PROVE  /\ MainStep \/ GatewayFault \/ WatchdogKill \/ UNCHANGED vars => Kept
           /\ ClientTop \/ ClientLoad \/ ClientWouldBlock \/ ClientError \/ ClientTimeout => Kept
           /\ ClientSend => Sent \/ Dropped
           /\ ClientRecv => Received
           /\ ServerStep => Kept \/ Lost
           /\ Relay => Kept
           /\ Lose => Lost
<1>1. resp \in Seq(Message) /\ held \in Seq(Message) /\ req \in Seq(Message)
  BY DEF TypeOK
<1>2. MainStep \/ GatewayFault \/ WatchdogKill \/ UNCHANGED vars => Kept
  BY DEF MainStep, StoreMeasure, StoreCooldown, StoreDone, NextPhase, Join, GatewayFault,
         WatchdogKill, vars, pathVars, serverVars, Kept, Pipe
<1>3. ClientTop \/ ClientLoad \/ ClientWouldBlock \/ ClientError \/ ClientTimeout => Kept
  BY DEF ClientTop, ClientLoad, ClientWouldBlock, ClientError, ClientTimeout, pathVars,
         serverVars, Kept, Pipe
<1>4. ASSUME ClientSend PROVE Sent \/ Dropped
  <2> DEFINE m == [seq |-> seq, id |-> sends + 1]
  <2>1. m \in Message
    BY DEF TypeOK, Message
  <2>2. resp' = resp /\ held' = held
    BY <1>4 DEF ClientSend, serverVars
  <2>3. CASE req' = Append(req, m) /\ lost' = lost
    BY <1>1, <2>1, <2>2, <2>3, PipeGrows DEF Sent, Pipe
  <2>4. CASE req' = req /\ lost' = lost \cup {sends + 1}
    BY <2>2, <2>4 DEF Dropped, Pipe
  <2> QED
    BY <1>4, <2>3, <2>4 DEF ClientSend
<1>5. ASSUME ClientRecv PROVE Received
  <2>1. resp # << >> /\ resp' = Tail(resp) /\ held' = held /\ req' = req /\ lost' = lost
    BY <1>5 DEF ClientRecv, serverVars
  <2>2. Pipe' = Without(Pipe, 1)
    BY <1>1, <2>1, PipeLoses DEF Pipe
  <2> QED
    BY <2>1, <2>2, PipeTyped DEF Received
<1>6. ASSUME ServerStep PROVE Kept \/ Lost
  <2>1. CASE ServerRecv
    <3>1. /\ held = << >> /\ held' = <<Head(req)>> /\ req # << >> /\ req' = Tail(req)
          /\ resp' = resp /\ lost' = lost
      BY <2>1 DEF ServerRecv, InHand
    <3>2. resp \o <<Head(req)>> \o Tail(req) = resp \o << >> \o req
      BY <1>1, <3>1, PipeMoves
    <3> QED
      BY <3>1, <3>2 DEF Kept, Pipe
  <2>2. CASE ServerEcho
    <3>1. Len(held) = 1 /\ held' = << >> /\ req' = req
      BY <2>2 DEF ServerEcho, InHand
    <3>2. CASE resp' = resp \o <<Head(held)>> /\ lost' = lost
      <4>1. (resp \o <<Head(held)>>) \o << >> \o req = resp \o held \o req
        BY <1>1, <3>1, PipeMoves
      <4> QED
        BY <3>1, <3>2, <4>1 DEF Kept, Pipe
    <3>3. CASE resp' = resp /\ lost' = lost \cup {Head(held).id}
      <4> DEFINE k == Len(resp) + 1
      <4>1. Pipe' = Without(Pipe, k)
        BY <1>1, <3>1, <3>3, PipeLoses DEF Pipe
      <4>2. /\ Len(Pipe) = Len(resp) + Len(held) + Len(req)
            /\ \A i \in 1 .. Len(held) : Pipe[Len(resp) + i] = held[i]
        BY <1>1, PipeIs DEF Pipe
      <4>3. Len(resp) \in Nat /\ Len(req) \in Nat
        BY <1>1
      <4>4. k \in 1 .. Len(Pipe) /\ Pipe[k] = held[1]
        BY <3>1, <4>2, <4>3
      <4>5. Head(held) = held[1]
        BY <1>1, <3>1
      <4> QED
        BY <3>3, <4>1, <4>4, <4>5 DEF Lost
    <3> QED
      BY <2>2, <3>2, <3>3 DEF ServerEcho, Echo
  <2>3. CASE ServerExit
    BY <2>3 DEF ServerExit, pathVars, Kept, Pipe
  <2> QED
    BY <1>6, <2>1, <2>2, <2>3 DEF ServerStep
<1>7. ASSUME Relay PROVE Kept
  <2>1. /\ held = << >> /\ held' = held /\ req # << >> /\ req' = Tail(req)
        /\ resp' = Append(resp, Head(req)) /\ lost' = lost
    BY <1>7 DEF Relay, InHand, serverVars
  <2>2. Append(resp, Head(req)) \o << >> \o Tail(req) = resp \o << >> \o req
    BY <1>1, <2>1, PipeMoves
  <2> QED
    BY <2>1, <2>2 DEF Kept, Pipe
<1>8. ASSUME Lose PROVE Lost
  <2>1. held' = held
    BY <1>8 DEF Lose, serverVars
  <2>2. CASE req # << >> /\ lost' = lost \cup {Head(req).id} /\ req' = Tail(req) /\ resp' = resp
    <3> DEFINE k == Len(resp) + Len(held) + 1
    <3>1. Pipe' = Without(Pipe, k)
      BY <1>1, <2>1, <2>2, PipeLoses DEF Pipe
    <3>2. /\ Len(Pipe) = Len(resp) + Len(held) + Len(req)
          /\ \A i \in 1 .. Len(req) : Pipe[Len(resp) + Len(held) + i] = req[i]
      BY <1>1, PipeIs DEF Pipe
    <3>3. Len(resp) \in Nat /\ Len(held) \in Nat /\ Len(req) \in Nat \ {0} /\ Head(req) = req[1]
      BY <1>1, <2>2, EmptySeq
    <3>4. k \in 1 .. Len(Pipe) /\ Pipe[k] = Head(req)
      BY <3>2, <3>3
    <3> QED
      BY <2>2, <3>1, <3>4 DEF Lost
  <2>3. CASE resp # << >> /\ lost' = lost \cup {Head(resp).id} /\ resp' = Tail(resp) /\ req' = req
    <3>1. Pipe' = Without(Pipe, 1)
      BY <1>1, <2>1, <2>3, PipeLoses DEF Pipe
    <3>2. Pipe # << >> /\ Pipe[1] = Head(resp) /\ Pipe \in Seq(Message)
      BY <2>3, PipeTyped
    <3>3. 1 \in 1 .. Len(Pipe)
      BY <3>2, EmptySeq
    <3> QED
      BY <2>3, <3>1, <3>2, <3>3 DEF Lost
  <2> QED
    BY <1>8, <2>2, <2>3 DEF Lose
<1> QED
  BY <1>2, <1>3, <1>4, <1>5, <1>6, <1>7, <1>8

\* The queue after each kind of step, message by message.
LEMMA PipeAfter ==
    ASSUME TypeOK
    PROVE  /\ Kept => Pipe' = Pipe
           /\ Sent => /\ Len(Pipe') = Len(Pipe) + 1 /\ Pipe'[Len(Pipe) + 1].seq = seq
                      /\ \A i \in 1 .. Len(Pipe) : Pipe'[i] = Pipe[i]
           /\ Received => /\ Len(Pipe) >= 1 /\ Len(Pipe') = Len(Pipe) - 1
                          /\ \A i \in 1 .. Len(Pipe') : i + 1 \in 1 .. Len(Pipe) /\ Pipe'[i] = Pipe[i + 1]
           /\ Lost => /\ Len(Pipe') = Len(Pipe) - 1
                      /\ \E k \in 1 .. Len(Pipe) : \A i \in 1 .. Len(Pipe') :
                            Pipe'[i] = IF i < k THEN Pipe[i] ELSE Pipe[i + 1]
<1>1. Pipe \in Seq(Message) /\ Len(Pipe) \in Nat
  BY PipeTyped
<1>2. ASSUME Sent
      PROVE  /\ Len(Pipe') = Len(Pipe) + 1 /\ Pipe'[Len(Pipe) + 1].seq = seq
             /\ \A i \in 1 .. Len(Pipe) : Pipe'[i] = Pipe[i]
  <2> DEFINE m == [seq |-> seq, id |-> sends + 1]
  <2>1. m \in Message /\ m.seq = seq
    BY DEF TypeOK, Message
  <2> HIDE DEF m
  <2>2. Pipe' = Append(Pipe, m)
    BY <1>2 DEF Sent, m
  <2> QED
    BY <1>1, <2>1, <2>2, AppendProperties
<1>3. ASSUME Received
      PROVE  /\ Len(Pipe) >= 1 /\ Len(Pipe') = Len(Pipe) - 1
             /\ \A i \in 1 .. Len(Pipe') : i + 1 \in 1 .. Len(Pipe) /\ Pipe'[i] = Pipe[i + 1]
  <2>1. Len(Pipe) \in Nat \ {0} /\ Pipe' = Without(Pipe, 1)
    BY <1>1, <1>3, EmptySeq DEF Received
  <2>2. 1 \in 1 .. Len(Pipe)
    BY <2>1
  <2>3. Len(Pipe') = Len(Pipe) - 1 /\ \A i \in 1 .. (Len(Pipe) - 1) : Pipe'[i] = Pipe[i + 1]
    BY <1>1, <2>1, <2>2, WithoutIs
  <2> QED
    BY <2>1, <2>3
<1>4. ASSUME Lost
      PROVE  /\ Len(Pipe') = Len(Pipe) - 1
             /\ \E k \in 1 .. Len(Pipe) : \A i \in 1 .. Len(Pipe') :
                   Pipe'[i] = IF i < k THEN Pipe[i] ELSE Pipe[i + 1]
  <2>1. PICK k \in 1 .. Len(Pipe) : Pipe' = Without(Pipe, k)
    BY <1>4 DEF Lost
  <2>2. /\ Len(Pipe') = Len(Pipe) - 1
        /\ \A i \in 1 .. (Len(Pipe) - 1) : Pipe'[i] = IF i < k THEN Pipe[i] ELSE Pipe[i + 1]
    BY <1>1, <2>1, WithoutIs
  <2>3. \A i \in 1 .. Len(Pipe') : Pipe'[i] = IF i < k THEN Pipe[i] ELSE Pipe[i + 1]
    BY <2>2
  <2> QED
    BY <2>2, <2>3
<1> QED
  BY <1>2, <1>3, <1>4 DEF Kept

\* Every send is answered, timed out, under way or lost.
LEMMA QueuedStep ==
    ASSUME TypeOK, InHand, Queued, [Next]_vars
    PROVE  Queued'
<1> SUFFICES ASSUME client' # "exited"
             PROVE  InFlight(Pipe', Answered', sends', lost')
  BY DEF Queued
<1>1. Pipe \in Seq(Message) /\ sends \in Nat /\ timeouts \in Nat
  BY PipeTyped DEF TypeOK
<1>2. Answered \in Int
  BY <1>1 DEF Answered
<1>3. client \in {"top", "load", "send", "recv"} => InFlight(Pipe, Answered, sends, lost)
  BY DEF Queued
<1>4. CASE (MainStep \/ ServerStep \/ EnvStep \/ UNCHANGED vars)
  <2>1. UNCHANGED <<client, sends, timeouts>>
    BY <1>4 DEF MainStep, StoreMeasure, StoreCooldown, StoreDone, NextPhase, Join, ServerStep,
         ServerRecv, ServerEcho, ServerExit, EnvStep, Relay, Lose, GatewayFault, WatchdogKill,
         vars, clientVars
  <2>2. Kept \/ Lost
    BY <1>4, PipeSteps DEF EnvStep
  <2>3. InFlight(Pipe, Answered, sends, lost) /\ Answered' = Answered
    BY <2>1 DEF Queued, Answered
  <2>4. CASE Kept
    BY <2>1, <2>3, <2>4 DEF Kept
  <2>5. CASE Lost
    <3>1. PICK k \in 1 .. Len(Pipe) : Pipe' = Without(Pipe, k) /\ lost' = lost \cup {Pipe[k].id}
      BY <2>5 DEF Lost
    <3>2. InFlight(Without(Pipe, k), Answered, sends, lost \cup {Pipe[k].id})
      BY <1>1, <1>2, <2>3, QueueLose
    <3> QED
      BY <2>1, <2>3, <3>1, <3>2
  <2> QED
    BY <2>2, <2>4, <2>5
<1>5. CASE ClientTop \/ ClientLoad \/ ClientWouldBlock \/ ClientError \/ ClientTimeout
  <2>1. Kept
    BY <1>5, PipeSteps
  <2>2. Answered' = Answered /\ sends' = sends
    BY <1>1, <1>5 DEF ClientTop, ClientLoad, ClientWouldBlock, ClientError, ClientTimeout, Answered
  <2>3. client # "exited"
    BY <1>5 DEF ClientTop, ClientLoad, ClientWouldBlock, ClientError, ClientTimeout
  <2> QED
    BY <2>1, <2>2, <2>3 DEF Queued, Kept
<1>6. CASE ClientSend
  <2>1. client = "send" /\ client' = "recv" /\ sends' = sends + 1 /\ timeouts' = timeouts
    BY <1>6 DEF ClientSend
  <2>2. Answered' = Answered
    BY <1>1, <2>1 DEF Answered
  <2>3. InFlight(Pipe, Answered, sends, lost)
    BY <2>1 DEF Queued
  <2>4. CASE Sent
    <3> DEFINE m == [seq |-> seq, id |-> sends + 1]
    <3>1. m \in Message /\ m.id = sends + 1
      BY DEF TypeOK, Message
    <3> HIDE DEF m
    <3>2. Pipe' = Append(Pipe, m) /\ lost' = lost
      BY <2>4 DEF Sent, m
    <3>3. InFlight(Append(Pipe, m), Answered, sends + 1, lost)
      BY <1>1, <1>2, <2>3, <3>1, QueueSend
    <3> QED
      BY <2>1, <2>2, <3>2, <3>3
  <2>5. CASE Dropped
    <3>1. InFlight(Pipe, Answered, sends + 1, lost \cup {sends + 1})
      BY <1>1, <1>2, <2>3, QueueDrop
    <3> QED
      BY <2>1, <2>2, <2>5, <3>1 DEF Dropped
  <2> QED
    BY <1>6, <2>4, <2>5, PipeSteps
<1>7. CASE ClientRecv
  <2>1. client = "recv" /\ client' = "top" /\ UNCHANGED <<sends, timeouts>>
    BY <1>7 DEF ClientRecv
  <2>2. Answered' = Answered + 1
    BY <1>1, <2>1 DEF Answered
  <2>3. InFlight(Pipe, Answered, sends, lost)
    BY <2>1 DEF Queued
  <2>4. Pipe # << >> /\ Pipe' = Without(Pipe, 1) /\ lost' = lost
    BY <1>7, PipeSteps DEF Received
  <2>5. InFlight(Without(Pipe, 1), Answered + 1, sends, lost)
    BY <1>1, <1>2, <2>3, <2>4, QueueTake
  <2> QED
    BY <2>1, <2>2, <2>4, <2>5
<1> QED
  BY <1>4, <1>5, <1>6, <1>7 DEF Next, ClientStep, Finished

Sample == [seq : Nat, behind : Nat, timeouts : Nat, lostBefore : Nat, late : BOOLEAN]

\* What the client records of the echo at the front.
Entry ==
    [ seq |-> Head(resp).seq, behind |-> sends - Head(resp).id, timeouts |-> timeouts,
      lostBefore |-> Cardinality({l \in lost : l < Head(resp).id}),
      late |-> phase > PHASE_MEASURE ]

\* What receiving an echo records: the first of the pipe, with the debt the invariants give it.
LEMMA RecvIs ==
    ASSUME TypeOK, InHand, Queued, ClientRecv
    PROVE  /\ Entry \in Sample /\ Entry.behind = Entry.timeouts - Entry.lostBefore
           /\ Entry.seq = Pipe[1].seq /\ 1 \in 1 .. Len(Pipe)
           /\ Entry.late = (phase > PHASE_MEASURE)
           /\ \E good \in BOOLEAN :
                 /\ samples' = IF measuring /\ good THEN Append(samples, Entry) ELSE samples
                 /\ bad' = IF good THEN bad ELSE bad \cup {Pipe[1].seq}
           /\ client = "recv" /\ client' = "top" /\ seq' = seq + 1
           /\ UNCHANGED <<phase, main, measuring, sends, timeouts>>
<1> DEFINE m == Head(resp)
<1>1. client = "recv" /\ resp # << >>
  BY DEF ClientRecv
<1>2. Pipe # << >> /\ Pipe[1] = m /\ Pipe \in Seq(Message)
  BY <1>1, PipeTyped
<1>3. 1 \in 1 .. Len(Pipe) /\ m \in Message
  BY <1>2, EmptySeq
<1>4. InFlight(Pipe, Answered, sends, lost)
  BY <1>1 DEF Queued
<1>5. /\ m.id \in 1 .. sends /\ m.id = Answered + 1 + LostBefore(m.id, lost)
      /\ lost \subseteq 1 .. sends
  BY <1>2, <1>3, <1>4 DEF InFlight
<1>6. sends \in Nat /\ timeouts \in Nat /\ m.seq \in Nat /\ phase \in Nat
  BY <1>3 DEF TypeOK, Message, PHASE_WARMUP, PHASE_DONE
<1>7. LostBefore(m.id, lost) \in Nat
  BY <1>5, <1>6, LostCount
<1>8. Answered = sends - timeouts - 1
  BY <1>1, <1>6 DEF Answered
<1>9. sends - m.id \in Nat /\ sends - m.id = timeouts - LostBefore(m.id, lost)
  BY <1>5, <1>6, <1>7, <1>8
<1>10. /\ Entry.seq = m.seq /\ Entry.behind = sends - m.id /\ Entry.timeouts = timeouts
       /\ Entry.lostBefore = LostBefore(m.id, lost) /\ Entry.late = (phase > PHASE_MEASURE)
  BY DEF Entry, LostBefore
<1>11. Entry \in Sample
  BY <1>6, <1>7, <1>9 DEF Entry, Sample, LostBefore
<1>12. \E good \in BOOLEAN :
          /\ samples' = IF measuring /\ good THEN Append(samples, Entry) ELSE samples
          /\ bad' = IF good THEN bad ELSE bad \cup {m.seq}
  BY DEF ClientRecv, Recordable, Entry
<1>13. client' = "top" /\ seq' = seq + 1 /\ UNCHANGED <<phase, main, measuring, sends, timeouts>>
  BY DEF ClientRecv, NextSeq, mainVars
<1> QED
  BY <1>1, <1>2, <1>3, <1>9, <1>10, <1>11, <1>12, <1>13

\* Everything keeps its type, and the echo thread and the phase follow their threads.
LEMMA TypeStep ==
    ASSUME TypeOK, PhaseOfMain, InHand, Queued, [Next]_vars
    PROVE  TypeOK' /\ PhaseOfMain' /\ InHand'
<1>1. resp \in Seq(Message) /\ held \in Seq(Message) /\ req \in Seq(Message) /\ samples \in Seq(Sample)
  BY DEF TypeOK, Sample
<1>2. CASE MainStep
  <2>1. /\ UNCHANGED <<mode, client, seq, measuring, sends, timeouts, samples, req, resp, lost, bad,
                       net, server, held>>
    BY <1>2 DEF MainStep, StoreMeasure, StoreCooldown, StoreDone, NextPhase, Join, clientVars,
                pathVars, serverVars
  <2>2. /\ phase' \in PHASE_WARMUP .. PHASE_DONE
        /\ main' \in {"warmup", "measure", "cooldown", "join_clients", "join_servers", "returned"}
        /\ PhaseOfMain'
    BY <1>2 DEF MainStep, StoreMeasure, StoreCooldown, StoreDone, NextPhase, Join, TypeOK,
                PhaseOfMain, PHASE_WARMUP, PHASE_MEASURE, PHASE_COOLDOWN, PHASE_DONE
  <2> QED
    BY <2>1, <2>2 DEF TypeOK, InHand
<1>3. CASE ClientTop \/ ClientLoad \/ ClientWouldBlock \/ ClientError \/ ClientTimeout
  <2>1. /\ UNCHANGED <<mode, phase, main, seq, sends, samples, req, resp, lost, bad, net, server, held>>
        /\ client' \in {"top", "load", "send", "recv", "exited"}
    BY <1>3 DEF ClientTop, ClientLoad, ClientWouldBlock, ClientError, ClientTimeout, TypeOK,
                mainVars, pathVars, serverVars
  <2>2. timeouts' = timeouts \/ timeouts' = timeouts + 1
    BY <1>3 DEF ClientTop, ClientLoad, ClientWouldBlock, ClientError, ClientTimeout
  <2>3. timeouts' \in Nat
    BY <2>2 DEF TypeOK
  <2>4. measuring' = measuring \/ measuring' = (phase = PHASE_MEASURE)
    BY <1>3 DEF ClientTop, ClientLoad, ClientWouldBlock, ClientError, ClientTimeout
  <2>5. measuring' \in BOOLEAN
    BY <2>4 DEF TypeOK
  <2> QED
    BY <2>1, <2>3, <2>5 DEF TypeOK, InHand, PhaseOfMain
<1>4. CASE ClientSend
  <2> DEFINE m == [seq |-> seq, id |-> sends + 1]
  <2>1. /\ UNCHANGED <<mode, phase, main, seq, measuring, timeouts, samples, resp, bad, net, server, held>>
        /\ client' = "recv" /\ sends' = sends + 1
    BY <1>4 DEF ClientSend, mainVars, serverVars
  <2>2. m \in Message
    BY DEF TypeOK, Message
  <2>3. req' \in Seq(Message) /\ Len(req') <= Capacity /\ lost' \subseteq Nat
    <3>1. CASE Len(req) < Capacity /\ req' = Append(req, m) /\ lost' = lost
      <4>1. req' \in Seq(Message) /\ Len(req') = Len(req) + 1
        BY <1>1, <2>2, <3>1, AppendProperties
      <4>2. Len(req) \in Nat /\ Capacity \in Nat
        BY <1>1, BoundsAssumption
      <4> QED
        BY <3>1, <4>1, <4>2 DEF TypeOK
    <3>2. CASE req' = req /\ lost' = lost \cup {sends + 1}
      BY <3>2 DEF TypeOK
    <3> QED
      BY <1>4, <3>1, <3>2 DEF ClientSend
  <2> QED
    BY <2>1, <2>3 DEF TypeOK, InHand, PhaseOfMain
<1>5. CASE ClientRecv
  <2>1. /\ UNCHANGED <<mode, phase, main, measuring, sends, timeouts, req, lost, net, server, held>>
        /\ client' = "top" /\ resp # << >> /\ resp' = Tail(resp)
    BY <1>5 DEF ClientRecv, mainVars, serverVars
  <2>2. /\ Entry \in Sample /\ seq' = seq + 1 /\ 1 \in 1 .. Len(Pipe)
        /\ \E good \in BOOLEAN :
              /\ samples' = IF measuring /\ good THEN Append(samples, Entry) ELSE samples
              /\ bad' = IF good THEN bad ELSE bad \cup {Pipe[1].seq}
    BY <1>5, RecvIs
  <2>3. resp' \in Seq(Message) /\ Len(resp') <= Capacity
    <3>1. resp' \in Seq(Message) /\ Len(resp') = Len(resp) - 1 /\ Len(resp) \in Nat
      BY <1>1, <2>1, HeadTailProperties
    <3> QED
      BY <3>1, BoundsAssumption DEF TypeOK
  <2>4. samples' \in Seq(Sample)
    BY <1>1, <2>2, AppendProperties
  <2>5. bad' \subseteq Nat
    <3>1. Pipe[1].seq \in Nat
      <4>1. Pipe[1] \in Message
        BY <2>2, PipeTyped
      <4> QED
        BY <4>1 DEF Message
    <3> QED
      BY <2>2, <3>1 DEF TypeOK
  <2>6. seq' \in Nat
    BY <2>2 DEF TypeOK
  <2> QED
    BY <2>1, <2>3, <2>4, <2>5, <2>6 DEF TypeOK, InHand, PhaseOfMain, Sample
<1>6. CASE ServerStep
  <2>1. UNCHANGED <<mode, phase, main, client, seq, measuring, sends, timeouts, samples, bad, net>>
    BY <1>6 DEF ServerStep, ServerRecv, ServerEcho, ServerExit, mainVars, clientVars, pathVars
  <2>2. CASE ServerRecv
    <3>1. /\ req # << >> /\ req' = Tail(req) /\ held' = <<Head(req)>> /\ server' = "echo"
          /\ UNCHANGED <<resp, lost>> /\ mode.kind # "ring"
      BY <2>2 DEF ServerRecv
    <3>2. /\ req' \in Seq(Message) /\ Len(req') = Len(req) - 1 /\ Len(req) \in Nat
          /\ held' \in Seq(Message) /\ Len(held') = 1
      BY <1>1, <3>1, HeadTailProperties
    <3>3. Len(req') <= Capacity
      BY <3>2, BoundsAssumption DEF TypeOK
    <3> QED
      BY <2>1, <3>1, <3>2, <3>3 DEF TypeOK, InHand, PhaseOfMain
  <2>3. CASE ServerEcho
    <3>1. /\ server = "echo" /\ held' = << >> /\ server' = "recv" /\ UNCHANGED req
      BY <2>3 DEF ServerEcho
    <3>2. Len(held) = 1 /\ Head(held) \in Message
      <4>1. Len(held) = 1
        BY <3>1 DEF InHand
      <4>2. held # << >>
        BY <4>1, EmptySeq
      <4> QED
        BY <1>1, <4>1, <4>2, HeadTailProperties
    <3>3. resp' \in Seq(Message) /\ Len(resp') <= Capacity /\ lost' \subseteq Nat
      <4>1. CASE Len(resp) < Capacity /\ resp' = resp \o <<Head(held)>> /\ lost' = lost
        <5>1. <<Head(held)>> \in Seq(Message) /\ Len(<<Head(held)>>) = 1
          BY <3>2
        <5>2. resp' \in Seq(Message) /\ Len(resp') = Len(resp) + 1
          BY <1>1, <4>1, <5>1, ConcatProperties
        <5>3. Len(resp) \in Nat /\ Capacity \in Nat
          BY <1>1, BoundsAssumption
        <5> QED
          BY <4>1, <5>2, <5>3 DEF TypeOK
      <4>2. CASE resp' = resp /\ lost' = lost \cup {Head(held).id}
        BY <3>2, <4>2 DEF TypeOK, Message
      <4> QED
        BY <2>3, <4>1, <4>2 DEF ServerEcho, Echo
    <3>4. held' \in Seq(Message) /\ Len(held') = 0
      BY <3>1, EmptySeq
    <3> QED
      BY <2>1, <3>1, <3>3, <3>4 DEF TypeOK, InHand, PhaseOfMain
  <2>4. CASE ServerExit
    <3>1. server' = "exited" /\ UNCHANGED <<req, resp, lost, held>>
      BY <2>4 DEF ServerExit, pathVars
    <3> QED
      BY <2>1, <3>1 DEF TypeOK, InHand, PhaseOfMain
  <2> QED
    BY <1>6, <2>2, <2>3, <2>4 DEF ServerStep
<1>7. CASE EnvStep
  <2>1. /\ UNCHANGED <<mode, phase, main, client, seq, measuring, sends, timeouts, samples, bad, server, held>>
        /\ net' \in {"up", "stalled", "broken"}
    BY <1>7 DEF EnvStep, Relay, Lose, GatewayFault, WatchdogKill, mainVars, clientVars, serverVars,
                TypeOK
  <2>2. /\ req' \in Seq(Message) /\ resp' \in Seq(Message) /\ Len(req') <= Capacity
        /\ Len(resp') <= Capacity /\ lost' \subseteq Nat
    <3>0. Len(req) \in Nat /\ Len(resp) \in Nat /\ Capacity \in Nat /\ Len(req) <= Capacity /\ Len(resp) <= Capacity
      BY <1>1, BoundsAssumption DEF TypeOK
    <3>1. \A q \in Seq(Message) : q # << >> =>
             Tail(q) \in Seq(Message) /\ Len(Tail(q)) = Len(q) - 1 /\ Head(q) \in Message
      BY HeadTailProperties
    <3>2. CASE Relay
      <4>1. /\ req # << >> /\ Len(resp) < Capacity /\ lost' = lost
            /\ resp' = Append(resp, Head(req)) /\ req' = Tail(req)
        BY <3>2 DEF Relay
      <4>2. resp' \in Seq(Message) /\ Len(resp') = Len(resp) + 1
        BY <1>1, <3>1, <4>1, AppendProperties
      <4> QED
        BY <1>1, <3>0, <3>1, <4>1, <4>2 DEF TypeOK
    <3>3. CASE Lose
      <4>1. CASE req # << >> /\ lost' = lost \cup {Head(req).id} /\ req' = Tail(req) /\ resp' = resp
        <5>1. Head(req) \in Message /\ Tail(req) \in Seq(Message) /\ Len(Tail(req)) = Len(req) - 1
          BY <1>1, <3>1, <4>1
        <5>2. Head(req).id \in Nat
          BY <5>1 DEF Message
        <5>3. lost' \subseteq Nat
          BY <4>1, <5>2 DEF TypeOK
        <5>4. Len(req') <= Capacity
          BY <3>0, <4>1, <5>1
        <5> QED
          BY <1>1, <3>0, <4>1, <5>1, <5>3, <5>4
      <4>2. CASE resp # << >> /\ lost' = lost \cup {Head(resp).id} /\ resp' = Tail(resp) /\ req' = req
        <5>1. Head(resp) \in Message /\ Tail(resp) \in Seq(Message) /\ Len(Tail(resp)) = Len(resp) - 1
          BY <1>1, <3>1, <4>2
        <5>2. Head(resp).id \in Nat
          BY <5>1 DEF Message
        <5>3. lost' \subseteq Nat
          BY <4>2, <5>2 DEF TypeOK
        <5>4. Len(resp') <= Capacity
          BY <3>0, <4>2, <5>1
        <5> QED
          BY <1>1, <3>0, <4>2, <5>1, <5>3, <5>4
      <4> QED
        BY <3>3, <4>1, <4>2 DEF Lose
    <3>4. CASE GatewayFault \/ WatchdogKill
      BY <3>4 DEF GatewayFault, WatchdogKill, TypeOK
    <3> QED
      BY <1>7, <3>2, <3>3, <3>4 DEF EnvStep
  <2> QED
    BY <2>1, <2>2 DEF TypeOK, InHand, PhaseOfMain
<1>8. CASE UNCHANGED vars
  BY <1>8 DEF vars, mainVars, clientVars, pathVars, serverVars, TypeOK, InHand, PhaseOfMain
<1> QED
  BY <1>2, <1>3, <1>4, <1>5, <1>6, <1>7, <1>8 DEF Next, ClientStep, Finished

\* The samples after a step: as before, or one more.
LEMMA SamplesAfter ==
    ASSUME TypeOK, InHand, Queued, [Next]_vars
    PROVE  \/ samples' = samples
           \/ /\ ClientRecv /\ measuring
              /\ Len(samples') = Len(samples) + 1 /\ samples'[Len(samples) + 1] = Entry
              /\ DOMAIN samples' = 1 .. Len(samples) + 1 /\ DOMAIN samples = 1 .. Len(samples)
              /\ \A i \in 1 .. Len(samples) : samples'[i] = samples[i]
<1>1. CASE ClientRecv
  <2>1. Entry \in Sample /\ (samples' = samples \/ (measuring /\ samples' = Append(samples, Entry)))
    BY <1>1, RecvIs
  <2>2. samples \in Seq(Sample)
    BY DEF TypeOK, Sample
  <2> HIDE DEF Sample
  <2>3. CASE measuring /\ samples' = Append(samples, Entry)
    <3>1. /\ samples' \in Seq(Sample) /\ Len(samples') = Len(samples) + 1
          /\ samples'[Len(samples) + 1] = Entry
          /\ \A i \in 1 .. Len(samples) : samples'[i] = samples[i]
      BY <2>1, <2>2, <2>3, AppendProperties
    <3>2. DOMAIN samples = 1 .. Len(samples) /\ DOMAIN samples' = 1 .. Len(samples')
      BY <2>2, <3>1, LenProperties
    <3> QED
      BY <1>1, <2>3, <3>1, <3>2
  <2> QED
    BY <2>1, <2>3
<1>2. CASE ~ClientRecv
  BY <1>2 DEF Next, MainStep, StoreMeasure, StoreCooldown, StoreDone, NextPhase, Join, ClientStep,
     ClientTop, ClientLoad, ClientSend, ClientWouldBlock, ClientError, ClientTimeout, ServerStep,
     ServerRecv, ServerEcho, ServerExit, EnvStep, Relay, Lose, GatewayFault, WatchdogKill, Finished,
     vars, clientVars
<1> QED
  BY <1>1, <1>2

\* What the argument needs to know of the samples and the counters.
LEMMA SamplesTyped ==
    ASSUME TypeOK
    PROVE  /\ Len(samples) \in Nat /\ DOMAIN samples = 1 .. Len(samples)
           /\ \A i \in DOMAIN samples : samples[i].seq \in Nat /\ samples[i].late \in BOOLEAN
           /\ samples = << >> <=> Len(samples) = 0
           /\ phase \in Nat /\ seq \in Nat /\ timeouts \in Nat
<1>1. samples \in Seq(Sample)
  BY DEF TypeOK, Sample
<1>2. Len(samples) \in Nat /\ DOMAIN samples = 1 .. Len(samples)
  BY <1>1, LenProperties
<1>3. \A i \in DOMAIN samples : samples[i] \in Sample
  BY <1>1, <1>2
<1>4. \A i \in DOMAIN samples : samples[i].seq \in Nat /\ samples[i].late \in BOOLEAN
  BY <1>3 DEF Sample
<1>5. samples = << >> <=> Len(samples) = 0
  BY <1>1, EmptySeq
<1> QED
  BY <1>2, <1>4, <1>5 DEF TypeOK, PHASE_WARMUP, PHASE_DONE

\* Every sample is behind by the timeouts that no loss made up for.
LEMMA DebtStep ==
    ASSUME TypeOK, InHand, Queued, EchoDebt, [Next]_vars
    PROVE  EchoDebt'
<1>1. CASE samples' = samples
  BY <1>1 DEF EchoDebt
<1>2. CASE ClientRecv /\ samples' # samples
  <2>1. Entry.behind = Entry.timeouts - Entry.lostBefore
    BY <1>2, RecvIs
  <2>2. /\ samples'[Len(samples) + 1] = Entry
        /\ DOMAIN samples' = 1 .. Len(samples) + 1 /\ DOMAIN samples = 1 .. Len(samples)
        /\ \A i \in 1 .. Len(samples) : samples'[i] = samples[i]
    BY <1>2, SamplesAfter
  <2>3. Len(samples) \in Nat
    BY SamplesTyped
  <2> QED
    BY <2>1, <2>2, <2>3 DEF EchoDebt
<1> QED
  BY <1>1, <1>2, SamplesAfter

\* The phase never goes back, and is past MEASURE only after the client could load it.
LEMMA LateStep ==
    ASSUME TypeOK, PhaseOfMain, InHand, Queued, LateIsLast, [Next]_vars
    PROVE  LateIsLast'
<1>0. /\ Len(samples) \in Nat /\ DOMAIN samples = 1 .. Len(samples) /\ phase \in Nat
      /\ \A i \in DOMAIN samples : samples[i].late \in BOOLEAN
  BY SamplesTyped
<1>1. phase > PHASE_MEASURE => phase' > PHASE_MEASURE
  BY DEF PhaseOfMain, Next, MainStep, StoreMeasure, StoreCooldown, StoreDone, NextPhase, Join, ClientStep,
     ClientTop, ClientLoad, ClientSend, ClientWouldBlock, ClientError, ClientTimeout, ClientRecv, ServerStep,
     ServerRecv, ServerEcho, ServerExit, EnvStep, Relay, Lose, GatewayFault, WatchdogKill, Finished,
     vars, mainVars, PHASE_WARMUP, PHASE_MEASURE, PHASE_COOLDOWN, PHASE_DONE
<1>2. client' \in {"send", "recv"} =>
         \/ client \in {"send", "recv"} /\ measuring' = measuring
         \/ measuring' = (phase = PHASE_MEASURE)
  BY DEF Next, MainStep, StoreMeasure, StoreCooldown, StoreDone, NextPhase, Join, ClientStep,
     ClientTop, ClientLoad, ClientSend, ClientWouldBlock, ClientError, ClientTimeout, ClientRecv, ServerStep,
     ServerRecv, ServerEcho, ServerExit, EnvStep, Relay, Lose, GatewayFault, WatchdogKill, Finished,
     vars, clientVars
<1>3. phase > PHASE_MEASURE => phase # PHASE_MEASURE
  BY <1>0 DEF PHASE_MEASURE
<1>4. CASE samples' = samples
  BY <1>1, <1>2, <1>3, <1>4 DEF LateIsLast
<1>5. CASE ClientRecv /\ samples' # samples
  <2>1. /\ Len(samples') = Len(samples) + 1 /\ samples'[Len(samples) + 1] = Entry /\ measuring
        /\ DOMAIN samples' = 1 .. Len(samples) + 1
        /\ \A i \in 1 .. Len(samples) : samples'[i] = samples[i]
    BY <1>5, SamplesAfter
  <2>2. /\ client = "recv" /\ client' = "top" /\ phase' = phase
        /\ Entry.late = (phase > PHASE_MEASURE)
    BY <1>5, RecvIs
  <2>3. \A i \in DOMAIN samples : ~samples[i].late
    BY <2>1, <2>2 DEF LateIsLast
  <2>4. ASSUME NEW i \in DOMAIN samples', samples'[i].late
        PROVE  i = Len(samples') /\ phase' > PHASE_MEASURE
    <3>1. i = Len(samples) + 1
      BY <1>0, <2>1, <2>3, <2>4
    <3> QED
      BY <2>1, <2>2, <2>4, <3>1
  <2> QED
    BY <2>2, <2>4 DEF LateIsLast
<1> QED
  BY <1>4, <1>5, SamplesAfter

\* The numbers of the queue rise, whatever is lost from it.
LEMMA RiseStep ==
    ASSUME TypeOK, InHand, Queued, NumbersRise, [Next]_vars
    PROVE  NumbersRise'
<1>0. /\ Len(samples) \in Nat /\ DOMAIN samples = 1 .. Len(samples) /\ seq \in Nat
      /\ \A i \in DOMAIN samples : samples[i].seq \in Nat
  BY SamplesTyped
<1>1. Len(Pipe) \in Nat /\ \A i \in 1 .. Len(Pipe) : Pipe[i].seq \in Nat
  <2>1. \A i \in 1 .. Len(Pipe) : Pipe[i] \in Message
    BY PipeTyped
  <2> QED
    BY <2>1, PipeTyped DEF Message
<1>2. CASE ClientRecv
  <2>1. /\ Entry.seq = Pipe[1].seq /\ seq' = seq + 1
    BY <1>2, RecvIs
  <2>2. /\ Len(Pipe) >= 1 /\ Len(Pipe') = Len(Pipe) - 1
        /\ \A i \in 1 .. Len(Pipe') : i + 1 \in 1 .. Len(Pipe) /\ Pipe'[i] = Pipe[i + 1]
    BY <1>2, PipeSteps, PipeAfter
  <2>3. \A i \in 1 .. Len(Pipe') :
          /\ Pipe'[i].seq <= seq' /\ Pipe[1].seq <= Pipe'[i].seq
          /\ \A j \in 1 .. Len(Pipe') : i < j => Pipe'[i].seq <= Pipe'[j].seq
    <3> SUFFICES ASSUME NEW i \in 1 .. Len(Pipe')
                 PROVE  /\ Pipe'[i].seq <= seq' /\ Pipe[1].seq <= Pipe'[i].seq
                        /\ \A j \in 1 .. Len(Pipe') : i < j => Pipe'[i].seq <= Pipe'[j].seq
      OBVIOUS
    <3>1. i + 1 \in 1 .. Len(Pipe) /\ Pipe'[i] = Pipe[i + 1] /\ 1 \in 1 .. Len(Pipe) /\ 1 < i + 1
      BY <1>1, <2>2
    <3>2. Pipe[1].seq <= Pipe[i + 1].seq /\ Pipe[i + 1].seq <= seq
      BY <3>1 DEF NumbersRise
    <3>3. ASSUME NEW j \in 1 .. Len(Pipe'), i < j PROVE Pipe'[i].seq <= Pipe'[j].seq
      <4>1. j + 1 \in 1 .. Len(Pipe) /\ Pipe'[j] = Pipe[j + 1] /\ i + 1 < j + 1
        BY <1>1, <2>2, <3>3
      <4> QED
        BY <3>1, <4>1 DEF NumbersRise
    <3> QED
      BY <1>0, <1>1, <2>1, <3>1, <3>2, <3>3
  <2>4. 1 \in 1 .. Len(Pipe) /\ Pipe[1].seq <= seq
    BY <1>1, <2>2 DEF NumbersRise
  <2>5. CASE samples' = samples
    <3>1. ASSUME NEW i \in DOMAIN samples, NEW j \in 1 .. Len(Pipe')
          PROVE  samples[i].seq <= Pipe'[j].seq
      BY <2>2 DEF NumbersRise
    <3>2. \A i \in DOMAIN samples : samples[i].seq <= seq'
      BY <1>0, <2>1 DEF NumbersRise
    <3> QED
      BY <2>3, <2>5, <3>1, <3>2 DEF NumbersRise
  <2>6. CASE samples' # samples
    <3>1. /\ samples'[Len(samples) + 1] = Entry
          /\ DOMAIN samples' = 1 .. Len(samples) + 1
          /\ \A i \in 1 .. Len(samples) : samples'[i] = samples[i]
      BY <2>6, SamplesAfter
    <3>2. ASSUME NEW i \in DOMAIN samples'
          PROVE  /\ samples'[i].seq <= Pipe[1].seq /\ samples'[i].seq \in Nat
                 /\ \A j \in DOMAIN samples' : i < j => samples'[i].seq <= samples'[j].seq
      <4>1. CASE i \in DOMAIN samples
        <5>1. samples'[i] = samples[i] /\ samples[i].seq <= Pipe[1].seq
          BY <1>0, <2>4, <3>1, <4>1 DEF NumbersRise
        <5>2. ASSUME NEW j \in DOMAIN samples', i < j PROVE samples'[i].seq <= samples'[j].seq
          <6>1. CASE j \in DOMAIN samples
            BY <1>0, <3>1, <4>1, <5>1, <5>2, <6>1 DEF NumbersRise
          <6>2. CASE j = Len(samples) + 1
            BY <2>1, <3>1, <5>1, <6>2
          <6> QED
            BY <1>0, <3>1, <6>1, <6>2
        <5> QED
          BY <1>0, <4>1, <5>1, <5>2
      <4>2. CASE i = Len(samples) + 1
        <5>1. samples'[i].seq = Pipe[1].seq
          BY <2>1, <3>1, <4>2
        <5>2. \A j \in DOMAIN samples' : ~(i < j)
          BY <1>0, <3>1, <4>2
        <5> QED
          BY <1>1, <2>4, <5>1, <5>2
      <4> QED
        BY <1>0, <3>1, <4>1, <4>2
    <3>3. ASSUME NEW i \in DOMAIN samples', NEW j \in 1 .. Len(Pipe')
          PROVE  samples'[i].seq <= Pipe'[j].seq
      <4>1. Pipe'[j].seq \in Nat /\ Pipe[1].seq \in Nat
        BY <1>1, <2>2, <2>4
      <4>2. samples'[i].seq \in Nat /\ samples'[i].seq <= Pipe[1].seq /\ Pipe[1].seq <= Pipe'[j].seq
        BY <2>3, <3>2
      <4> QED
        BY <4>1, <4>2
    <3>4. ASSUME NEW i \in DOMAIN samples' PROVE samples'[i].seq <= seq'
      <4>1. samples'[i].seq \in Nat /\ samples'[i].seq <= Pipe[1].seq /\ Pipe[1].seq \in Nat
        BY <1>1, <2>4, <3>2
      <4> QED
        BY <1>0, <2>1, <2>4, <4>1
    <3> QED
      BY <2>3, <3>2, <3>3, <3>4 DEF NumbersRise
  <2> QED
    BY <2>5, <2>6
<1>3. CASE ~ClientRecv
  <2>1. samples' = samples
    BY <1>3, SamplesAfter
  <2>2. seq' = seq
    BY <1>3 DEF Next, MainStep, StoreMeasure, StoreCooldown, StoreDone, NextPhase, Join, ClientStep,
     ClientTop, ClientLoad, ClientSend, ClientWouldBlock, ClientError, ClientTimeout, ServerStep,
     ServerRecv, ServerEcho, ServerExit, EnvStep, Relay, Lose, GatewayFault, WatchdogKill, Finished,
     vars, clientVars
  <2>3. Kept \/ Sent \/ Lost \/ Dropped
    BY <1>3, PipeSteps DEF Next, ClientStep, EnvStep, Finished
  <2>4. CASE Kept \/ Dropped
    BY <2>1, <2>2, <2>4 DEF Kept, Dropped, NumbersRise
  <2>5. CASE Sent
    <3>1. /\ Len(Pipe') = Len(Pipe) + 1 /\ Pipe'[Len(Pipe) + 1].seq = seq
          /\ \A i \in 1 .. Len(Pipe) : Pipe'[i] = Pipe[i]
      BY <2>5, PipeAfter
    <3>2. ASSUME NEW j \in 1 .. Len(Pipe')
          PROVE  /\ Pipe'[j].seq <= seq
                 /\ \A i \in DOMAIN samples : samples[i].seq <= Pipe'[j].seq
                 /\ \A i \in 1 .. Len(Pipe') : i < j => Pipe'[i].seq <= Pipe'[j].seq
      <4>1. CASE j \in 1 .. Len(Pipe)
        <5>1. \A i \in 1 .. Len(Pipe') : i < j => i \in 1 .. Len(Pipe)
          BY <1>1, <3>1, <4>1
        <5> QED
          BY <3>1, <4>1, <5>1 DEF NumbersRise
      <4>2. CASE j = Len(Pipe) + 1
        <5>1. Pipe'[j].seq = seq
          BY <3>1, <4>2
        <5>2. \A i \in 1 .. Len(Pipe') : i < j => i \in 1 .. Len(Pipe)
          BY <1>1, <3>1, <4>2
        <5> QED
          BY <1>0, <3>1, <5>1, <5>2 DEF NumbersRise
      <4> QED
        BY <1>1, <3>1, <4>1, <4>2
    <3> QED
      BY <2>1, <2>2, <3>2 DEF NumbersRise
  <2>6. CASE Lost
    <3>1. Len(Pipe') = Len(Pipe) - 1
      BY <2>6, PipeAfter
    <3>2. PICK k \in 1 .. Len(Pipe) :
             \A i \in 1 .. Len(Pipe') : Pipe'[i] = IF i < k THEN Pipe[i] ELSE Pipe[i + 1]
      BY <2>6, PipeAfter
    <3> DEFINE At(i) == IF i < k THEN i ELSE i + 1
    <3>3. \A i \in 1 .. Len(Pipe') : At(i) \in 1 .. Len(Pipe) /\ Pipe'[i] = Pipe[At(i)]
      BY <1>1, <3>1, <3>2
    <3>4. \A i, j \in 1 .. Len(Pipe') : i < j => At(i) < At(j)
      BY <1>1, <3>1
    <3> HIDE DEF At
    <3> QED
      BY <2>1, <2>2, <3>3, <3>4 DEF NumbersRise
  <2> QED
    BY <2>3, <2>4, <2>5, <2>6
<1> QED
  BY <1>2, <1>3

\* Steps that touch neither the samples nor the numbers.
LEMMA OneByOneQuiet ==
    ASSUME TypeOK, OneByOne, UNCHANGED <<samples, bad, seq>>,
           timeouts' = 0 => timeouts = 0,
           Open' => Open,
           client' \in {"send", "recv"} /\ measuring' => phase' >= PHASE_MEASURE,
           samples # << >> => phase' >= PHASE_MEASURE,
           samples # << >> /\ phase' = PHASE_MEASURE /\ client' \in {"send", "recv"} => measuring',
           timeouts' = 0 /\ client' = "recv" => \A i \in 1 .. Len(Pipe') : Pipe'[i].seq = seq
    PROVE  OneByOne'
<1>1. \A n : Covered(n)' <=> Covered(n)
  BY DEF Covered
<1> QED
  BY <1>1 DEF OneByOne

\* The phase never goes back.
LEMMA PhaseForward ==
    ASSUME TypeOK, PhaseOfMain, MainStep
    PROVE  /\ phase' \in Nat /\ phase' >= phase
           /\ phase' = PHASE_MEASURE => phase = PHASE_WARMUP \/ phase = PHASE_MEASURE
           /\ phase' = PHASE_MEASURE /\ phase # PHASE_MEASURE => phase = PHASE_WARMUP
<1>1. phase \in Nat
  BY SamplesTyped
<1> QED
  BY <1>1 DEF PhaseOfMain, MainStep, StoreMeasure, StoreCooldown, StoreDone, NextPhase, Join,
     PHASE_WARMUP, PHASE_MEASURE, PHASE_COOLDOWN, PHASE_DONE

\* The main thread, the echo server and the gateway leave the samples alone.
LEMMA OneByOneOthers ==
    ASSUME TypeOK, PhaseOfMain, InHand, OneByOne,
           MainStep \/ ServerStep \/ EnvStep \/ UNCHANGED vars
    PROVE  OneByOne'
<1>1. UNCHANGED <<client, seq, measuring, timeouts, samples, bad>>
  BY DEF MainStep, StoreMeasure, StoreCooldown, StoreDone, NextPhase, Join, ServerStep,
         ServerRecv, ServerEcho, ServerExit, EnvStep, Relay, Lose, GatewayFault, WatchdogKill,
         vars, clientVars
<1>2. MainStep \/ phase' = phase
  BY DEF ServerStep, ServerRecv, ServerEcho, ServerExit, EnvStep, Relay, Lose, GatewayFault,
         WatchdogKill, vars, mainVars
<1>3. Kept \/ Lost
  BY PipeSteps DEF EnvStep
<1>4. ASSUME timeouts = 0, client = "recv"
      PROVE  \A i \in 1 .. Len(Pipe') : Pipe'[i].seq = seq
  <2>1. Len(Pipe) \in Nat /\ \A i \in 1 .. Len(Pipe) : Pipe[i].seq = seq
    BY <1>4, PipeTyped DEF OneByOne
  <2>2. CASE Kept
    BY <2>1, <2>2 DEF Kept
  <2>3. CASE Lost
    <3>1. Len(Pipe') = Len(Pipe) - 1
      BY <2>3, PipeAfter
    <3>2. PICK k \in 1 .. Len(Pipe) :
             \A i \in 1 .. Len(Pipe') : Pipe'[i] = IF i < k THEN Pipe[i] ELSE Pipe[i + 1]
      BY <2>3, PipeAfter
    <3>3. \A i \in 1 .. Len(Pipe') : i \in 1 .. Len(Pipe) /\ i + 1 \in 1 .. Len(Pipe)
      BY <2>1, <3>1
    <3> QED
      BY <2>1, <3>2, <3>3
  <2> QED
    BY <1>3, <2>2, <2>3
<1>5. phase \in Nat /\ phase' \in Nat /\ phase' >= phase
  BY <1>2, PhaseForward, SamplesTyped
<1>6. phase' = PHASE_MEASURE /\ samples # << >> => phase = PHASE_MEASURE
  BY <1>2, PhaseForward, SamplesTyped DEF OneByOne, PHASE_WARMUP, PHASE_MEASURE
<1>7. CASE samples # << >>
  <2>1. Open' => Open
    BY <1>1, <1>6, <1>7 DEF Open
  <2>2. phase' >= PHASE_MEASURE
    BY <1>5, <1>7 DEF OneByOne, PHASE_MEASURE
  <2>3. phase' = PHASE_MEASURE /\ client' \in {"send", "recv"} => measuring'
    BY <1>1, <1>6, <1>7 DEF OneByOne
  <2> QED
    BY <1>1, <1>4, <2>1, <2>2, <2>3, OneByOneQuiet
<1>8. CASE samples = << >>
  <2>1. client' \in {"send", "recv"} /\ measuring' => phase' >= PHASE_MEASURE
    BY <1>1, <1>5 DEF OneByOne, PHASE_MEASURE
  <2>2. DOMAIN samples = {}
    BY <1>8
  <2> QED
    BY <1>1, <1>4, <1>8, <2>1, <2>2 DEF OneByOne
<1> QED
  BY <1>7, <1>8

\* The client before it receives: with no timeout behind it the queue is empty when it sends.
LEMMA OneByOneClient ==
    ASSUME TypeOK, InHand, Queued, OneByOne, ClientStep, ~ClientRecv
    PROVE  OneByOne'
<1>0. phase \in Nat /\ timeouts \in Nat /\ sends \in Nat /\ Len(Pipe) \in Nat
  BY SamplesTyped, PipeTyped DEF TypeOK
<1>1. UNCHANGED <<phase, seq, samples, bad>>
  BY DEF ClientStep, ClientTop, ClientLoad, ClientSend, ClientWouldBlock, ClientError, ClientTimeout,
         mainVars
<1>2. CASE ClientTop \/ ClientWouldBlock \/ ClientError \/ ClientTimeout
  <2>1. client' \notin {"send", "recv"}
    BY <1>2 DEF ClientTop, ClientWouldBlock, ClientError, ClientTimeout
  <2>2. timeouts' = 0 => timeouts = 0
    BY <1>0, <1>2 DEF ClientTop, ClientWouldBlock, ClientError, ClientTimeout
  <2>3. Open' => Open
    BY <1>1, <2>1 DEF Open
  <2> QED
    BY <1>1, <2>1, <2>2, <2>3, OneByOneQuiet DEF OneByOne
<1>3. CASE ClientLoad
  <2>1. /\ client' = "send" /\ measuring' = (phase = PHASE_MEASURE) /\ timeouts' = timeouts
    BY <1>3 DEF ClientLoad
  <2>2. Open' => Open
    BY <1>1, <2>1 DEF Open
  <2>3. measuring' => phase' >= PHASE_MEASURE
    <3>1. measuring' => phase' = PHASE_MEASURE
      BY <1>1, <2>1
    <3> QED
      BY <3>1 DEF PHASE_MEASURE
  <2> QED
    BY <1>1, <2>1, <2>2, <2>3, OneByOneQuiet DEF OneByOne
<1>4. CASE ClientSend
  <2>1. client = "send" /\ client' = "recv" /\ UNCHANGED <<measuring, timeouts>>
    BY <1>4 DEF ClientSend
  <2>2. ASSUME timeouts = 0 PROVE \A i \in 1 .. Len(Pipe') : Pipe'[i].seq = seq
    <3>1. InFlight(Pipe, sends, sends, lost)
      BY <1>0, <2>1, <2>2 DEF Queued, Answered
    <3>2. lost \subseteq 1 .. sends /\ sends = sends + Len(Pipe) + Cardinality(lost)
      BY <3>1 DEF InFlight
    <3>3. Cardinality(lost) \in Nat
      BY <1>0, <3>2, LostFinite
    <3>4. Len(Pipe) = 0
      BY <1>0, <3>2, <3>3
    <3>5. CASE Sent
      <4>1. Len(Pipe') = 1 /\ Pipe'[1].seq = seq
        BY <3>4, <3>5, PipeAfter
      <4> QED
        BY <4>1
    <3>6. CASE Dropped
      BY <3>4, <3>6 DEF Dropped
    <3> QED
      BY <1>4, <3>5, <3>6, PipeSteps
  <2>3. Open' => Open
    BY <1>1, <2>1 DEF Open
  <2> QED
    BY <1>1, <2>1, <2>2, <2>3, OneByOneQuiet DEF OneByOne
<1> QED
  BY <1>2, <1>3, <1>4 DEF ClientStep

\* Covered after the step.
CoveredNext(n) ==
    \A k \in samples'[1].seq .. n : k \in bad' \/ \E i \in DOMAIN samples' : samples'[i].seq = k

\* What the recorded and the damaged numbers cover, in the next state.
LEMMA CoveredPrimed ==
    /\ Covered(seq - 1)' <=> CoveredNext(seq' - 1)
    /\ Covered(samples[Len(samples)].seq)' <=> CoveredNext(samples'[Len(samples')].seq)
BY DEF Covered, CoveredNext

\* The client receives: without a timeout it is the echo of the current number.
LEMMA OneByOneRecv ==
    ASSUME TypeOK, InHand, Queued, OneByOne, ClientRecv, [Next]_vars
    PROVE  OneByOne'
<1>0. /\ Len(samples) \in Nat /\ DOMAIN samples = 1 .. Len(samples) /\ seq \in Nat /\ phase \in Nat
      /\ \A i \in DOMAIN samples : samples[i].seq \in Nat
      /\ samples = << >> <=> Len(samples) = 0
  BY SamplesTyped
<1>1. /\ client = "recv" /\ client' = "top" /\ seq' = seq + 1
      /\ UNCHANGED <<phase, measuring, timeouts>> /\ Entry.seq = Pipe[1].seq
      /\ 1 \in 1 .. Len(Pipe)
  BY RecvIs
<1>2. timeouts = 0 => Pipe[1].seq = seq
  BY <1>1 DEF OneByOne
<1>3. \E good \in BOOLEAN :
         /\ samples' = IF measuring /\ good THEN Append(samples, Entry) ELSE samples
         /\ bad' = IF good THEN bad ELSE bad \cup {Pipe[1].seq}
  BY RecvIs
<1>4. Open' => phase = PHASE_MEASURE
  BY <1>1 DEF Open
<1>5. \A b \in bad : b \in Nat
  BY DEF TypeOK
<1>6. CASE samples' = samples /\ bad' = bad /\ ~measuring
  <2>1. samples # << >> => ~Open'
    BY <1>1, <1>4, <1>6 DEF OneByOne
  <2>2. Covered(samples[Len(samples)].seq)' <=> Covered(samples[Len(samples)].seq)
    BY <1>6 DEF Covered
  <2>3. timeouts = 0 => /\ \A i \in DOMAIN samples : samples[i].seq < seq'
                        /\ \A b \in bad : b < seq'
    BY <1>0, <1>1, <1>5 DEF OneByOne
  <2> QED
    BY <1>1, <1>6, <2>1, <2>2, <2>3 DEF OneByOne
<1>7. CASE samples' = samples /\ bad' = bad \cup {Pipe[1].seq}
  <2>1. ASSUME timeouts = 0, samples # << >> PROVE CoveredNext(samples'[Len(samples')].seq)
    BY <1>7, <2>1 DEF OneByOne, Covered, CoveredNext
  <2>2. ASSUME timeouts = 0, samples # << >>, Open' PROVE CoveredNext(seq' - 1)
    <3>1. Covered(seq - 1)
      BY <1>4, <2>2 DEF OneByOne, Open
    <3>2. samples[1].seq \in Nat
      BY <1>0, <2>2
    <3>3. seq' - 1 = seq /\ samples'[1].seq = samples[1].seq
      BY <1>0, <1>1, <1>7
    <3>4. ASSUME NEW k \in samples[1].seq .. seq
          PROVE  k \in bad' \/ \E i \in DOMAIN samples' : samples'[i].seq = k
      <4>1. CASE k = seq
        BY <1>2, <1>7, <2>2, <4>1
      <4>2. CASE k \in samples[1].seq .. (seq - 1)
        BY <1>7, <3>1, <4>2 DEF Covered
      <4> QED
        BY <1>0, <3>2, <4>1, <4>2
    <3> QED
      BY <3>3, <3>4 DEF CoveredNext
  <2>3. ASSUME timeouts = 0
        PROVE  /\ \A i \in DOMAIN samples : samples[i].seq < seq' /\ samples[i].seq \notin bad'
               /\ \A b \in bad' : b < seq'
    <3>1. \A i \in DOMAIN samples : samples[i].seq < seq /\ samples[i].seq \notin bad
      BY <2>3 DEF OneByOne
    <3>2. \A b \in bad : b < seq
      BY <2>3 DEF OneByOne
    <3> QED
      BY <1>0, <1>1, <1>2, <1>5, <1>7, <2>3, <3>1, <3>2
  <2>4. samples # << >> => phase >= PHASE_MEASURE
    BY DEF OneByOne
  <2>5. timeouts = 0 => \A i, j \in DOMAIN samples : i < j => samples[i].seq < samples[j].seq
    BY DEF OneByOne
  <2> QED
    BY <1>1, <1>7, <2>1, <2>2, <2>3, <2>4, <2>5, CoveredPrimed DEF OneByOne
<1>8. CASE samples' = Append(samples, Entry) /\ bad' = bad /\ measuring
  <2>0. samples' # samples
    <3>1. samples \in Seq(Sample) /\ Entry \in Sample
      BY RecvIs DEF TypeOK, Sample
    <3>2. Len(samples') = Len(samples) + 1
      BY <1>8, <3>1, AppendProperties
    <3> QED
      BY <1>0, <3>2
  <2>1. /\ Len(samples') = Len(samples) + 1 /\ samples'[Len(samples) + 1] = Entry
        /\ DOMAIN samples' = 1 .. Len(samples) + 1
        /\ \A i \in 1 .. Len(samples) : samples'[i] = samples[i]
    BY <2>0, SamplesAfter
  <2>2. phase' >= PHASE_MEASURE
    BY <1>1, <1>8 DEF OneByOne
  <2>3. CASE timeouts # 0
    BY <1>1, <2>2, <2>3 DEF OneByOne
  <2>4. CASE timeouts = 0
    <3>1. samples'[Len(samples) + 1].seq = seq
      BY <1>1, <1>2, <2>1, <2>4
    <3>2. \A i \in DOMAIN samples : samples'[i] = samples[i] /\ samples[i].seq < seq /\ samples[i].seq \notin bad
      BY <1>0, <2>1, <2>4 DEF OneByOne
    <3>3. \A b \in bad : b < seq
      BY <2>4 DEF OneByOne
    <3>4. ASSUME NEW i \in DOMAIN samples'
          PROVE  /\ samples'[i].seq < seq' /\ samples'[i].seq \notin bad'
                 /\ \A j \in DOMAIN samples' : i < j => samples'[i].seq < samples'[j].seq
      <4>1. CASE i \in DOMAIN samples
        <5>1. ASSUME NEW j \in DOMAIN samples', i < j PROVE samples'[i].seq < samples'[j].seq
          <6>1. CASE j \in DOMAIN samples
            BY <2>4, <3>2, <4>1, <5>1, <6>1 DEF OneByOne
          <6>2. CASE j = Len(samples) + 1
            BY <3>1, <3>2, <4>1, <6>2
          <6> QED
            BY <1>0, <2>1, <6>1, <6>2
        <5>2. samples'[i].seq < seq'
          BY <1>0, <1>1, <3>2, <4>1
        <5> QED
          BY <1>8, <3>2, <4>1, <5>1, <5>2
      <4>2. CASE i = Len(samples) + 1
        <5>1. \A j \in DOMAIN samples' : ~(i < j)
          BY <1>0, <2>1, <4>2
        <5>2. seq \notin bad
          BY <1>0, <3>3
        <5> QED
          BY <1>0, <1>1, <1>8, <3>1, <4>2, <5>1, <5>2
      <4> QED
        BY <1>0, <2>1, <4>1, <4>2
    <3>5. \A b \in bad' : b < seq'
      BY <1>0, <1>1, <1>5, <1>8, <3>3
    <3>6. \A k \in samples'[1].seq .. seq : k \in bad' \/ \E i \in DOMAIN samples' : samples'[i].seq = k
      <4>1. Len(samples) + 1 \in DOMAIN samples'
        BY <1>0, <2>1
      <4>2. CASE samples = << >>
        <5>1. samples'[1].seq = seq
          BY <1>0, <3>1, <4>2
        <5> QED
          BY <1>0, <3>1, <4>1, <5>1
      <4>3. CASE samples # << >>
        <5>1. 1 \in DOMAIN samples /\ samples'[1] = samples[1] /\ samples[1].seq \in Nat
          BY <1>0, <3>2, <4>3
        <5>2. Covered(seq - 1)
          BY <1>1, <1>8, <2>4, <4>3 DEF OneByOne, Open
        <5>3. ASSUME NEW k \in samples[1].seq .. seq
              PROVE  k \in bad' \/ \E i \in DOMAIN samples' : samples'[i].seq = k
          <6>1. CASE k = seq
            BY <3>1, <4>1, <6>1
          <6>2. CASE k \in samples[1].seq .. (seq - 1)
            <7>1. k \in bad \/ \E i \in DOMAIN samples : samples[i].seq = k
              BY <5>2, <6>2 DEF Covered
            <7>2. \A i \in DOMAIN samples : i \in DOMAIN samples'
              BY <1>0, <2>1
            <7> QED
              BY <1>8, <3>2, <7>1, <7>2
          <6> QED
            BY <1>0, <5>1, <6>1, <6>2
        <5> QED
          BY <5>1, <5>3
      <4> QED
        BY <4>2, <4>3
    <3>7. CoveredNext(seq' - 1) /\ CoveredNext(samples'[Len(samples')].seq)
      <4>1. samples'[Len(samples')].seq = seq /\ seq' - 1 = seq
        BY <1>0, <1>1, <2>1, <3>1
      <4> QED
        BY <3>6, <4>1 DEF CoveredNext
    <3> QED
      BY <1>1, <2>2, <2>4, <3>4, <3>5, <3>7, CoveredPrimed DEF OneByOne
  <2> QED
    BY <2>3, <2>4
<1> QED
  BY <1>3, <1>6, <1>7, <1>8

-----------------------------------------------------------------------------
(***************************************************************************)
(* What holds throughout, and what follows from it.                        *)
(***************************************************************************)
LEMMA Always == Spec => []IInv
<1>1. Init => IInv
  <2> SUFFICES ASSUME Init PROVE IInv
    OBVIOUS
  <2>1. /\ phase = PHASE_WARMUP /\ main = "warmup" /\ client = "top" /\ seq = 0
        /\ measuring = FALSE /\ sends = 0 /\ timeouts = 0 /\ samples = << >>
        /\ req = << >> /\ resp = << >> /\ lost = {} /\ bad = {} /\ net = "up"
        /\ server = "recv" /\ held = << >>
    BY DEF Init
  <2>2. << >> \in Seq(Message) /\ << >> \in Seq(Sample) /\ Len(<< >>) = 0 /\ DOMAIN << >> = {}
    BY EmptySeq
  <2>3. TypeOK
    <3>1. phase \in PHASE_WARMUP .. PHASE_DONE
      BY <2>1 DEF PHASE_WARMUP, PHASE_DONE
    <3>2. Len(req) <= Capacity /\ Len(resp) <= Capacity /\ Len(held) <= 1
      BY <2>1, <2>2, BoundsAssumption
    <3>3. req \in Seq(Message) /\ resp \in Seq(Message) /\ held \in Seq(Message)
      BY <2>1, <2>2
    <3>4. samples \in Seq(Sample)
      BY <2>1, <2>2
    <3> QED
      BY <2>1, <3>1, <3>2, <3>3, <3>4 DEF TypeOK, Sample
  <2>4. PhaseOfMain /\ InHand
    BY <2>1, <2>2 DEF PhaseOfMain, InHand
  <2>5. Pipe = << >>
    BY <2>1, <2>2, ConcatEmptySeq DEF Pipe
  <2>6. Queued
    <3>1. Cardinality({}) = 0
      BY FS_EmptySet
    <3>2. Answered = 0
      BY <2>1 DEF Answered
    <3>3. 1 .. Len(Pipe) = {}
      BY <2>2, <2>5
    <3> QED
      BY <2>1, <2>2, <2>5, <3>1, <3>2, <3>3 DEF Queued, InFlight
  <2>7. EchoDebt /\ LateIsLast
    BY <2>1, <2>2 DEF EchoDebt, LateIsLast
  <2>8. NumbersRise
    BY <2>1, <2>2, <2>5 DEF NumbersRise
  <2>9. OneByOne
    BY <2>1, <2>2, <2>5 DEF OneByOne
  <2> QED
    BY <2>3, <2>4, <2>6, <2>7, <2>8, <2>9 DEF IInv
<1>2. IInv /\ [Next]_vars => IInv'
  <2> SUFFICES ASSUME IInv, [Next]_vars PROVE IInv'
    OBVIOUS
  <2>0. TypeOK /\ PhaseOfMain /\ InHand /\ Queued /\ EchoDebt /\ LateIsLast /\ NumbersRise /\ OneByOne
    BY DEF IInv
  <2>1. TypeOK' /\ PhaseOfMain' /\ InHand'
    BY <2>0, TypeStep
  <2>2. Queued' /\ EchoDebt' /\ LateIsLast' /\ NumbersRise'
    BY <2>0, QueuedStep, DebtStep, LateStep, RiseStep
  <2>3. OneByOne'
    BY <2>0, OneByOneOthers, OneByOneClient, OneByOneRecv DEF Next, Finished
  <2> QED
    BY <2>1, <2>2, <2>3 DEF IInv
<1> QED
  BY <1>1, <1>2, PTL DEF Spec

\* Every reachable state of a closed-loop run is well typed: neither direction holds more
\* than its capacity, the echo thread at most one message, and no sample is ahead of its send.
THEOREM TypeCorrect == Spec => []TypeOK
BY Always, PTL DEF IInv

\* What a sample measures: its echo answers a send made exactly as many sends before the one
\* it is timed against as there were timeouts that no loss made up for, on every transport
\* and whatever the path delays, loses or cuts.
THEOREM DebtIsExact == Spec => []EchoDebt
BY Always, PTL DEF IInv

\* At most one round trip is recorded after COOLDOWN was stored, although the phase is
\* loaded before the send and used after the echo.
THEOREM OneLateAtMost == Spec => []OneLateSample
<1>1. IInv => OneLateSample
  <2> SUFFICES ASSUME IInv PROVE OneLateSample
    OBVIOUS
  <2> DEFINE late == {i \in DOMAIN samples : samples[i].late}
  <2>1. late \in SUBSET {Len(samples)}
    BY DEF IInv, LateIsLast
  <2>2. IsFiniteSet({Len(samples)}) /\ Cardinality({Len(samples)}) = 1
    BY FS_Singleton
  <2>3. Cardinality(late) <= 1
    BY <2>1, <2>2, FS_Subset
  <2> QED
    BY <2>3 DEF OneLateSample
<1> QED
  BY <1>1, Always, PTL

\* The least and the greatest of a set of numbers.
LEMMA Extremes ==
    ASSUME NEW T, T \subseteq Nat, NEW a \in T, NEW b \in T,
           \A x \in T : a <= x /\ x <= b
    PROVE  Min(T) = a /\ Max(T) = b
<1>1. Min(T) \in T /\ \A y \in T : Min(T) <= y
  BY DEF Min
<1>2. Max(T) \in T /\ \A y \in T : Max(T) >= y
  BY DEF Max
<1>3. Min(T) \in Nat /\ Max(T) \in Nat /\ a \in Nat /\ b \in Nat
  BY <1>1, <1>2
<1>4. Min(T) <= a /\ a <= Min(T)
  BY <1>1
<1>5. Max(T) >= b /\ Max(T) <= b
  BY <1>2
<1>6. Min(T) = a
  BY <1>3, <1>4
<1>7. Max(T) = b
  BY <1>3, <1>5
<1> QED
  BY <1>6, <1>7

\* Distinct numbers are as many as their positions.
LEMMA AsManyAsPlaces ==
    ASSUME NEW n \in Nat, NEW f \in [1 .. n -> Nat],
           \A i, j \in 1 .. n : i < j => f[i] < f[j]
    PROVE  IsFiniteSet(Range(f)) /\ Cardinality(Range(f)) = n
<1>1. DOMAIN f = 1 .. n
  OBVIOUS
<1>2. f \in [1 .. n -> Range(f)]
  BY <1>1 DEF Range
<1>3. \A i, j \in 1 .. n : f[i] = f[j] => i = j
  <2> SUFFICES ASSUME NEW i \in 1 .. n, NEW j \in 1 .. n, i # j PROVE f[i] # f[j]
    OBVIOUS
  <2>1. i < j \/ j < i
    OBVIOUS
  <2>2. f[i] \in Nat /\ f[j] \in Nat
    OBVIOUS
  <2> QED
    BY <2>1, <2>2
<1>4. f \in Bijection(1 .. n, Range(f))
  BY <1>1, <1>2, <1>3 DEF Bijection, Injection, Surjection, IsInjective, Range
<1>5. ExistsBijection(1 .. n, Range(f))
  BY <1>4 DEF ExistsBijection
<1> QED
  BY <1>5, FS_CountingElements, FS_NatBijection

\* The integrity counters: never a reordering, and as long as no receive timed out no
\* duplicate and exactly the damaged echoes lost.
THEOREM IntegrityIsExact == Spec => []IntegrityExactWithoutTimeouts
<1>1. IInv => IntegrityExactWithoutTimeouts
  <2> SUFFICES ASSUME IInv PROVE IntegrityExactWithoutTimeouts
    OBVIOUS
  <2> DEFINE n    == Len(samples)
             nums == [i \in DOMAIN samples |-> samples[i].seq]
             T    == Range(nums)
  <2>0. TypeOK /\ NumbersRise /\ OneByOne
    BY DEF IInv
  <2>1. /\ n \in Nat /\ DOMAIN samples = 1 .. n /\ \A i \in 1 .. n : samples[i].seq \in Nat
        /\ samples = << >> <=> n = 0
    BY <2>0, SamplesTyped
  <2>2. nums \in [1 .. n -> Nat] /\ \A i \in 1 .. n : nums[i] = samples[i].seq
    BY <2>1
  <2>3. nums \in Seq(Nat) /\ Len(nums) = n
    <3>1. nums \in Seq(Nat)
      BY <2>1, <2>2, SeqDef
    <3> QED
      BY <2>1, <2>2, <3>1, LenProperties
  <2>4. T = {samples[i].seq : i \in 1 .. n} /\ T \subseteq Nat
    BY <2>1, <2>2 DEF Range
  <2> HIDE DEF nums, n
  <2>5. {i \in 2 .. Len(nums) : nums[i] < nums[i - 1]} = {}
    <3> SUFFICES ASSUME NEW i \in 2 .. n PROVE ~(nums[i] < nums[i - 1])
      BY <2>3
    <3>1. i \in 1 .. n /\ i - 1 \in 1 .. n /\ i - 1 < i
      BY <2>1
    <3>2. nums[i - 1] <= nums[i] /\ nums[i] \in Nat /\ nums[i - 1] \in Nat
      BY <2>0, <2>1, <2>2, <3>1 DEF NumbersRise
    <3> QED
      BY <3>2
  <2>6. integrity(nums).reordered = 0
    BY <2>5, FS_EmptySet DEF integrity
  <2>7. ASSUME timeouts = 0
        PROVE  /\ integrity(nums).duplicate = 0
               /\ nums # << >> => integrity(nums).lost = Cardinality(bad \cap (Min(T) .. Max(T)))
    <3>1. \A i, j \in 1 .. n : i < j => nums[i] < nums[j]
      BY <2>0, <2>1, <2>2, <2>7 DEF OneByOne
    <3>2. IsFiniteSet(T) /\ Cardinality(T) = n
      BY <2>1, <2>2, <3>1, AsManyAsPlaces
    <3>3. integrity(nums).duplicate = 0
      <4>1. integrity(nums).duplicate = Len(nums) - Cardinality(T)
        BY DEF integrity
      <4> QED
        BY <2>1, <2>3, <3>2, <4>1
    <3>4. ASSUME nums # << >> PROVE integrity(nums).lost = Cardinality(bad \cap (Min(T) .. Max(T)))
      <4>1. n \in Nat \ {0} /\ samples # << >>
        BY <2>1, <2>3, <3>4, EmptySeq
      <4> DEFINE a == nums[1]
                 b == nums[n]
                 D == bad \cap (a .. b)
      <4>2. a \in T /\ b \in T /\ a \in Nat /\ b \in Nat
        BY <2>2, <4>1 DEF Range
      <4>3. \A i \in 1 .. n : a <= nums[i] /\ nums[i] <= b
        <5> SUFFICES ASSUME NEW i \in 1 .. n PROVE a <= nums[i] /\ nums[i] <= b
          OBVIOUS
        <5>1. i = 1 \/ 1 < i
          BY <2>1
        <5>2. i = n \/ i < n
          BY <2>1
        <5>3. nums[i] \in Nat /\ 1 \in 1 .. n /\ n \in 1 .. n
          BY <2>2, <4>1
        <5> QED
          BY <3>1, <4>2, <5>1, <5>2, <5>3
      <4>4. \A x \in T : a <= x /\ x <= b
        BY <2>2, <4>3 DEF Range
      <4>5. Min(T) = a /\ Max(T) = b
        BY <2>4, <4>2, <4>4, Extremes
      <4>6. a .. b = T \cup D
        <5>1. \A k \in a .. b : k \in bad \/ \E i \in 1 .. n : nums[i] = k
          BY <2>0, <2>1, <2>2, <2>7, <4>1 DEF OneByOne, Covered, n
        <5>2. \A k \in a .. b : k \in T \/ k \in D
          BY <2>2, <5>1 DEF Range
        <5>3. \A x \in T : x \in a .. b
          BY <2>4, <4>2, <4>4
        <5> QED
          BY <5>2, <5>3
      <4>7. T \cap D = {}
        <5>1. \A i \in 1 .. n : nums[i] \notin bad
          BY <2>0, <2>1, <2>2, <2>7 DEF OneByOne
        <5> QED
          BY <2>2, <5>1 DEF Range
      <4>8. IsFiniteSet(a .. b) /\ Cardinality(a .. b) = b - a + 1 /\ a <= b
        <5>1. a <= b
          BY <4>2, <4>4
        <5>2. a \in Int /\ b \in Int /\ ~(a > b)
          BY <4>2, <5>1
        <5> HIDE DEF a, b
        <5> QED
          BY <5>1, <5>2, FS_Interval
      <4>9. IsFiniteSet(D) /\ Cardinality(D) \in Nat
        BY <4>8, FS_Intersection, FS_CardinalityType
      <4>10. Cardinality(a .. b) = Cardinality(T) + Cardinality(D)
        <5>1. Cardinality(T \cup D) = Cardinality(T) + Cardinality(D) - Cardinality(T \cap D)
          BY <3>2, <4>9, FS_Union
        <5>2. Cardinality(T \cap D) = 0
          BY <4>7, FS_EmptySet
        <5>3. Cardinality(a .. b) = Cardinality(T \cup D)
          BY <4>6
        <5>4. Cardinality(T) \in Nat
          BY <2>1, <3>2
        <5> HIDE DEF a, b, D, T
        <5> QED
          BY <4>9, <5>1, <5>2, <5>3, <5>4
      <4>11. integrity(nums).lost = Max(T) - Min(T) + 1 - Cardinality(T)
        BY <3>4 DEF integrity
      <4> HIDE DEF a, b, D, T
      <4>12. integrity(nums).lost = Cardinality(D)
        BY <2>1, <3>2, <4>2, <4>5, <4>8, <4>9, <4>10, <4>11
      <4> QED
        BY <4>5, <4>12 DEF D
    <3> QED
      BY <3>3, <3>4
  <2> QED
    BY <2>6, <2>7 DEF IntegrityExactWithoutTimeouts, nums
<1> QED
  BY <1>1, Always, PTL
=============================================================================
