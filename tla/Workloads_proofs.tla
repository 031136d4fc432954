--------------------------- MODULE Workloads_proofs ---------------------------
(***************************************************************************)
(* Proofs about two workloads with threads of their own, which share no    *)
(* state: the multi-stream workload and the distributed mode.              *)
(***************************************************************************)
EXTENDS MultiStream, Distributed, FiniteSetTheorems, TLAPS

(***************************************************************************)
(* Multi-stream.  SafetyVerdictExact compares the record of a stream with  *)
(* what its path lost or damaged: the invariant keeps one account per      *)
(* stream, of what is on the path, what was missed and what was recorded,  *)
(* through the edges of the measurement, which every receiver sees at a    *)
(* moment of its own.                                                      *)
(***************************************************************************)
\* What the argument needs to know of the threads, the path and the records.
StreamPhases == {"spawning", "warmup", "measuring", "stopping", "over", "failed"}

StreamsTyped ==
    /\ clock \in StreamPhases /\ joined \in Nat
    /\ rx \in [Streams -> {"none", "checked", "looping", "finished"}]
    /\ next_seq \in [Streams -> Nat] /\ inflight \in [Streams -> Seq(Nat)]
    /\ missed \in [Streams -> SUBSET Nat] /\ metrics \in [Streams -> Seq(Nat)]

\* One stream: its next number, what is on the path, what was missed and what was recorded.
\* The path holds the latest numbers; every earlier one, from the first recorded on, is
\* either missed or recorded, and the record rises.
Account(q, f, L, m) ==
    /\ q - Len(f) >= 0
    /\ \A i \in 1 .. Len(f) : f[i] = q - Len(f) + i - 1
    /\ \A n \in L : n < q - Len(f)
    /\ \A i \in 1 .. Len(m) : m[i] < q - Len(f) /\ m[i] \notin L
    /\ \A i, j \in 1 .. Len(m) : i < j => m[i] < m[j]
    /\ m # << >> => \A n \in Nat : m[1] <= n /\ n < q - Len(f) =>
                                     n \in L \/ \E i \in 1 .. Len(m) : m[i] = n

Accounts == \A s \in Streams : Account(next_seq[s], inflight[s], missed[s], metrics[s])

\* Only a measurement records.
RecordedLate == \A s \in Streams : metrics[s] # << >> => clock \in {"measuring", "stopping", "over"}

\* A receiver that was joined records no more.
JoinedStopped ==
    /\ joined # 0 => clock \in {"stopping", "over"}
    /\ \A s \in Streams : s <= joined => rx[s] = "finished"
    /\ clock = "over" => \A s \in Streams : rx[s] = "finished"

\* The verdict was taken from the records as they are.
VerdictKept == clock = "over" => (outcome.loss_free <=> safety_loss_free)

StreamsInv == StreamsTyped /\ Accounts /\ RecordedLate /\ JoinedStopped /\ VerdictKept

\* A message is sent: it is the latest on the path.
LEMMA AccountSent ==
    ASSUME NEW q \in Nat, NEW f \in Seq(Nat), NEW L, L \subseteq Nat, NEW m \in Seq(Nat),
           Account(q, f, L, m)
    PROVE  Account(q + 1, Append(f, q), L, m)
<1> DEFINE g == Append(f, q)
<1>1. Len(f) \in Nat /\ Len(g) = Len(f) + 1 /\ (\A i \in 1 .. Len(f) : g[i] = f[i]) /\ g[Len(f) + 1] = q
  OBVIOUS
<1>2. q + 1 - Len(g) = q - Len(f)
  BY <1>1
<1>3. \A i \in 1 .. Len(g) : g[i] = q + 1 - Len(g) + i - 1
  <2> SUFFICES ASSUME NEW i \in 1 .. Len(g) PROVE g[i] = q + 1 - Len(g) + i - 1
    OBVIOUS
  <2>1. i \in 1 .. Len(f) \/ i = Len(f) + 1
    BY <1>1
  <2> HIDE DEF g
  <2>2. CASE i \in 1 .. Len(f)
    BY <1>1, <2>2 DEF Account
  <2>3. CASE i = Len(f) + 1
    BY <1>1, <2>3
  <2> QED
    BY <2>1, <2>2, <2>3
<1> HIDE DEF g
<1> QED
  BY <1>2, <1>3 DEF Account, g

\* The first message of the path leaves it: the others move up.
LEMMA PathMovesUp ==
    ASSUME NEW q \in Nat, NEW f \in Seq(Nat), f # << >>, q - Len(f) >= 0,
           \A i \in 1 .. Len(f) : f[i] = q - Len(f) + i - 1
    PROVE  /\ Tail(f) \in Seq(Nat) /\ Head(f) = q - Len(f)
           /\ q - Len(Tail(f)) = q - Len(f) + 1
           /\ \A i \in 1 .. Len(Tail(f)) : Tail(f)[i] = q - Len(Tail(f)) + i - 1
<1>1. /\ Len(f) \in Nat \ {0} /\ Len(Tail(f)) = Len(f) - 1 /\ Head(f) = f[1]
      /\ Tail(f) \in Seq(Nat) /\ \A i \in 1 .. Len(Tail(f)) : Tail(f)[i] = f[i + 1]
  OBVIOUS
<1>2. \A i \in 1 .. Len(Tail(f)) : Tail(f)[i] = q - Len(Tail(f)) + i - 1
  BY <1>1
<1> QED
  BY <1>1, <1>2

\* The first message of the path is lost.
LEMMA AccountLost ==
    ASSUME NEW q \in Nat, NEW f \in Seq(Nat), NEW L, L \subseteq Nat, NEW m \in Seq(Nat),
           Account(q, f, L, m), f # << >>
    PROVE  Account(q, Tail(f), L \cup {Head(f)}, m)
<1> DEFINE p == q - Len(f)
           r == q - Len(Tail(f))
           K == L \cup {Head(f)}
<1>1. Head(f) = p /\ r = p + 1 /\ p \in Nat /\ \A i \in 1 .. Len(Tail(f)) : Tail(f)[i] = r + i - 1
  BY PathMovesUp DEF Account
<1>2. /\ \A n \in L : n < p
      /\ \A i \in 1 .. Len(m) : m[i] < p /\ m[i] \notin L
      /\ \A i, j \in 1 .. Len(m) : i < j => m[i] < m[j]
      /\ m # << >> => \A n \in Nat : m[1] <= n /\ n < p => n \in L \/ \E i \in 1 .. Len(m) : m[i] = n
  BY DEF Account
<1>3. \A i \in 1 .. Len(m) : m[i] \in Nat
  OBVIOUS
<1> HIDE DEF p, r
<1>4. \A n \in K : n < r
  BY <1>1, <1>2
<1>5. \A i \in 1 .. Len(m) : m[i] < r /\ m[i] \notin K
  BY <1>1, <1>2, <1>3
<1>6. m # << >> => \A n \in Nat : m[1] <= n /\ n < r => n \in K \/ \E i \in 1 .. Len(m) : m[i] = n
  <2> SUFFICES ASSUME m # << >>, NEW n \in Nat, m[1] <= n, n < r
               PROVE  n \in K \/ \E i \in 1 .. Len(m) : m[i] = n
    OBVIOUS
  <2>1. n < p \/ n = p
    BY <1>1
  <2> QED
    BY <1>1, <1>2, <2>1
<1> QED
  BY <1>1, <1>2, <1>4, <1>5, <1>6 DEF Account, p, r

\* The first message of the path is recorded.
LEMMA AccountRecorded ==
    ASSUME NEW q \in Nat, NEW f \in Seq(Nat), NEW L, L \subseteq Nat, NEW m \in Seq(Nat),
           Account(q, f, L, m), f # << >>
    PROVE  Account(q, Tail(f), L, Append(m, Head(f)))
<1> DEFINE p == q - Len(f)
           r == q - Len(Tail(f))
           w == Append(m, Head(f))
<1>1. Head(f) = p /\ r = p + 1 /\ p \in Nat /\ \A i \in 1 .. Len(Tail(f)) : Tail(f)[i] = r + i - 1
  BY PathMovesUp DEF Account
<1>2. /\ \A n \in L : n < p
      /\ \A i \in 1 .. Len(m) : m[i] < p /\ m[i] \notin L
      /\ \A i, j \in 1 .. Len(m) : i < j => m[i] < m[j]
      /\ m # << >> => \A n \in Nat : m[1] <= n /\ n < p => n \in L \/ \E i \in 1 .. Len(m) : m[i] = n
  BY DEF Account
<1>3. Len(m) \in Nat /\ \A i \in 1 .. Len(m) : m[i] \in Nat
  OBVIOUS
<1>4. Len(w) = Len(m) + 1 /\ (\A i \in 1 .. Len(m) : w[i] = m[i]) /\ w[Len(m) + 1] = p
  <2>1. Head(f) \in Nat
    BY <1>1
  <2> QED
    BY <1>1, <2>1
<1> HIDE DEF p, r, w
<1>5. \A i \in 1 .. Len(w) : i \in 1 .. Len(m) \/ i = Len(m) + 1
  BY <1>3, <1>4
<1>6. \A n \in L : n < r
  <2> SUFFICES ASSUME NEW n \in L PROVE n < r
    OBVIOUS
  <2>1. n \in Nat /\ n < p
    BY <1>2
  <2> QED
    BY <1>1, <2>1
<1>7. \A i \in 1 .. Len(w) : w[i] < r /\ w[i] \notin L
  <2> SUFFICES ASSUME NEW i \in 1 .. Len(w) PROVE w[i] < r /\ w[i] \notin L
    OBVIOUS
  <2>1. CASE i \in 1 .. Len(m)
    <3>1. w[i] = m[i] /\ m[i] \in Nat /\ m[i] < p /\ m[i] \notin L
      BY <1>2, <1>3, <1>4, <2>1
    <3> QED
      BY <1>1, <3>1
  <2>2. CASE i = Len(m) + 1
    <3>1. w[i] = p
      BY <1>4, <2>2
    <3>2. p \notin L
      BY <1>1, <1>2
    <3> QED
      BY <1>1, <3>1, <3>2
  <2> QED
    BY <1>5, <2>1, <2>2
<1>8. \A i, j \in 1 .. Len(w) : i < j => w[i] < w[j]
  <2> SUFFICES ASSUME NEW i \in 1 .. Len(w), NEW j \in 1 .. Len(w), i < j PROVE w[i] < w[j]
    OBVIOUS
  <2>1. i \in 1 .. Len(m)
    BY <1>3, <1>4
  <2>2. w[i] = m[i] /\ m[i] < p
    BY <1>2, <1>4, <2>1
  <2>3. CASE j \in 1 .. Len(m)
    BY <1>2, <1>4, <2>1, <2>3
  <2>4. CASE j = Len(m) + 1
    BY <1>4, <2>2, <2>4
  <2> QED
    BY <1>5, <2>3, <2>4
<1>9. w # << >> => \A n \in Nat : w[1] <= n /\ n < r => n \in L \/ \E i \in 1 .. Len(w) : w[i] = n
  <2> SUFFICES ASSUME NEW n \in Nat, w[1] <= n, n < r
               PROVE  n \in L \/ \E i \in 1 .. Len(w) : w[i] = n
    OBVIOUS
  <2>1. n < p \/ n = p
    BY <1>1
  <2>2. CASE n = p
    <3>1. Len(m) + 1 \in 1 .. Len(w)
      BY <1>3, <1>4
    <3> QED
      BY <1>4, <2>2, <3>1
  <2>3. CASE n < p
    <3>1. CASE m = << >>
      <4>1. w[1] = p
        BY <1>4, <3>1
      <4> QED
        BY <1>1, <2>3, <4>1
    <3>2. CASE m # << >>
      <4>1. 1 \in 1 .. Len(m)
        BY <3>2
      <4>2. w[1] = m[1]
        BY <1>4, <4>1
      <4>3. n \in L \/ \E i \in 1 .. Len(m) : m[i] = n
        BY <1>2, <2>3, <3>2, <4>2
      <4>4. \A i \in 1 .. Len(m) : i \in 1 .. Len(w) /\ w[i] = m[i]
        BY <1>3, <1>4
      <4> QED
        BY <4>3, <4>4
    <3> QED
      BY <3>1, <3>2
  <2> QED
    BY <2>1, <2>2, <2>3
<1> QED
  <2>1. Account(q, Tail(f), L, w)
    BY <1>1, <1>6, <1>7, <1>8, <1>9 DEF Account, p, r
  <2> QED
    BY <2>1 DEF w

\* The first message of the path arrives before the measurement: nothing was recorded yet.
LEMMA AccountPassed ==
    ASSUME NEW q \in Nat, NEW f \in Seq(Nat), NEW L, L \subseteq Nat,
           Account(q, f, L, << >>), f # << >>
    PROVE  Account(q, Tail(f), L, << >>)
<1> DEFINE p == q - Len(f)
           r == q - Len(Tail(f))
<1>1. Head(f) = p /\ r = p + 1 /\ p \in Nat /\ \A i \in 1 .. Len(Tail(f)) : Tail(f)[i] = r + i - 1
  BY PathMovesUp DEF Account
<1>2. \A n \in L : n \in Nat /\ n < p
  BY DEF Account
<1> HIDE DEF p, r
<1>3. \A n \in L : n < r
  BY <1>1, <1>2
<1> QED
  BY <1>1, <1>3 DEF Account, p, r

\* The least and the greatest of a set of numbers.
LEMMA Extremes ==
    ASSUME NEW T, T \subseteq Nat, NEW a \in T, NEW b \in T,
           \A x \in T : a <= x /\ x <= b
    PROVE  Min(T) = a /\ Max(T) = b
<1>1. Min(T) \in T /\ \A y \in T : Min(T) <= y
  BY DEF Min
<1>2. Max(T) \in T /\ \A y \in T : Max(T) >= y
  BY DEF Max
<1>3. Min(T) \in Nat /\ Max(T) \in Nat /\ a \in Nat /\ b \in Nat
  BY <1>1, <1>2
<1>4. Min(T) <= a /\ a <= Min(T) /\ Max(T) >= b /\ Max(T) <= b
  BY <1>1, <1>2
<1> QED
  BY <1>3, <1>4

\* integrity(m).lost of a record is 0 exactly when the path lost nothing between its first
\* and its last message.
LEMMA LossFree ==
    ASSUME NEW q \in Nat, NEW f \in Seq(Nat), NEW L, L \subseteq Nat, NEW m \in Seq(Nat),
           Account(q, f, L, m)
    PROVE  integrity(m).lost = 0 <=>
             {n \in L : Range(m) # {} /\ Min(Range(m)) < n /\ n < Max(Range(m))} = {}
<1> DEFINE T == Range(m)
           W == {n \in L : T # {} /\ Min(T) < n /\ n < Max(T)}
<1>1. Len(m) \in Nat /\ DOMAIN m = 1 .. Len(m) /\ m \in [1 .. Len(m) -> Nat]
  OBVIOUS
<1>2. T = {m[i] : i \in 1 .. Len(m)} /\ T \subseteq Nat
  BY <1>1 DEF Range
<1>3. CASE m = << >>
  <2>1. T = {}
    BY <1>2, <1>3
  <2>2. integrity(m).lost = 0
    BY <1>3 DEF integrity
  <2> QED
    BY <2>1, <2>2
<1>4. CASE m # << >>
  <2> DEFINE k == Len(m)
             a == m[1]
             b == m[k]
  <2>1. k \in Nat \ {0} /\ 1 \in 1 .. k /\ k \in 1 .. k
    BY <1>1, <1>4
  <2>2. a \in T /\ b \in T /\ a \in Nat /\ b \in Nat
    BY <1>1, <1>2, <2>1
  <2>3. \A i, j \in 1 .. Len(m) : i < j => m[i] < m[j]
    BY DEF Account
  <2>4. \A i \in 1 .. k : a <= m[i] /\ m[i] <= b
    <3> SUFFICES ASSUME NEW i \in 1 .. k PROVE a <= m[i] /\ m[i] <= b
      OBVIOUS
    <3>0. k \in Nat /\ i \in Nat /\ 1 <= i /\ i <= k
      BY <1>1
    <3>1. (i = 1 \/ 1 < i) /\ (i = k \/ i < k)
      <4> HIDE DEF k
      <4> QED BY <3>0
    <3>2. m[i] \in Nat
      BY <1>1
    <3>3. (1 < i => a < m[i]) /\ (i < k => m[i] < b)
      BY <2>1, <2>3
    <3> HIDE DEF k
    <3> QED
      BY <2>2, <3>1, <3>2, <3>3
  <2>5. \A x \in T : x \in Nat /\ a <= x /\ x <= b
    BY <1>2, <2>4
  <2>6. Min(T) = a /\ Max(T) = b
    BY <1>2, <2>2, <2>5, Extremes
  <2>7. b < q - Len(f)
    BY <2>1 DEF Account
  <2>8. \A x \in Nat : a <= x /\ x <= b => x \in L \/ x \in T
    <3> SUFFICES ASSUME NEW x \in Nat, a <= x, x <= b PROVE x \in L \/ x \in T
      OBVIOUS
    <3>1. x < q - Len(f)
      BY <2>2, <2>7
    <3>2. x \in L \/ \E i \in 1 .. Len(m) : m[i] = x
      BY <1>4, <3>1 DEF Account
    <3> QED
      BY <1>2, <3>2
  <2>9. \A x \in T : x \notin L
    BY <1>2 DEF Account
  <2>10. T \subseteq a .. b /\ (a .. b) \ T = W
    <3> HIDE DEF T, a, b
    <3>1. T \subseteq a .. b
      BY <2>2, <2>5
    <3>2. ASSUME NEW x \in (a .. b) \ T PROVE x \in W
      <4>1. x \in L /\ x \in Nat /\ a <= x /\ x <= b
        BY <2>2, <2>8, <3>2
      <4>2. x # a /\ x # b
        BY <2>2, <3>2
      <4>3. a < x /\ x < b
        BY <2>2, <4>1, <4>2
      <4> QED
        BY <2>2, <2>6, <4>1, <4>3
    <3>3. ASSUME NEW x \in W PROVE x \in (a .. b) \ T
      <4>1. x \in L /\ x \in Nat /\ a < x /\ x < b
        BY <2>6, <3>3
      <4> QED
        BY <2>2, <2>9, <4>1
    <3> QED
      BY <3>1, <3>2, <3>3
  <2>11. IsFiniteSet(a .. b) /\ Cardinality(a .. b) = b - a + 1
    <3>1. a <= b /\ a \in Int /\ b \in Int
      BY <2>2, <2>5
    <3> HIDE DEF a, b
    <3> QED
      BY <3>1, FS_Interval
  <2>12. /\ Cardinality(T) \in Nat
         /\ Cardinality(a .. b) = Cardinality(T) <=> a .. b = T
    <3> HIDE DEF T, a, b
    <3> QED
      BY <2>10, <2>11, FS_Subset, FS_CardinalityType
  <2>13. integrity(m).lost = b - a + 1 - Cardinality(T)
    BY <1>4, <2>6 DEF integrity
  <2> HIDE DEF T, W, a, b
  <2>14. integrity(m).lost = 0 <=> Cardinality(a .. b) = Cardinality(T)
    BY <2>2, <2>11, <2>12, <2>13
  <2>15. a .. b = T <=> W = {}
    BY <2>10
  <2> QED
    BY <2>12, <2>14, <2>15 DEF T, W
<1> QED
  BY <1>3, <1>4

\* Before the threads of the first stream are spawned.
LEMMA InitStreams == StreamsInit => StreamsInv
<1> SUFFICES ASSUME StreamsInit PROVE StreamsInv
  OBVIOUS
<1>1. << >> \in Seq(Nat) /\ Len(<< >>) = 0
  OBVIOUS
<1>2. StreamsTyped
  BY <1>1 DEF StreamsInit, StreamsTyped, StreamPhases
<1>3. Accounts
  BY <1>1 DEF StreamsInit, Accounts, Account
<1>4. \A s \in Streams : s \in 1 .. Cardinality(Streams)
  BY StreamsAssumption
<1>5. JoinedStopped
  BY <1>4 DEF StreamsInit, JoinedStopped
<1> QED
  BY <1>2, <1>3, <1>5 DEF StreamsInit, StreamsInv, RecordedLate, VerdictKept

\* The main thread.
LEMMA MainStreams == StreamsInv /\ StreamsMain => StreamsInv'
<1> SUFFICES ASSUME StreamsInv, StreamsMain PROVE StreamsInv'
  OBVIOUS
<1> USE DEF StreamsInv
<1>0. /\ UNCHANGED <<next_seq, inflight, missed, metrics>>
      /\ clock \in {"spawning", "warmup", "measuring", "stopping"}
  BY DEF StreamsMain, SpawnStream, SpawnFails, Tick, JoinStream
<1>1. Accounts'
  BY <1>0 DEF Accounts
<1>2. CASE SpawnStream
  <2>1. /\ clock = "spawning" /\ UNCHANGED <<clock, joined>>
        /\ rx' = [rx EXCEPT ![spawned + 1] = "looping"]
    BY <1>2 DEF SpawnStream
  <2>2. joined = 0
    BY <2>1 DEF JoinedStopped
  <2>3. \A s \in Streams : ~(s <= 0)
    <3>1. \A s \in Streams : s \in 1 .. Cardinality(Streams)
      BY StreamsAssumption
    <3> QED
      BY <3>1
  <2> QED
    BY <1>0, <1>1, <2>1, <2>2, <2>3
       DEF StreamsTyped, StreamPhases, RecordedLate, JoinedStopped, VerdictKept
<1>3. CASE SpawnFails \/ Tick
  <2>1. /\ UNCHANGED <<joined, rx>> /\ clock' \in StreamPhases \ {"spawning", "over"}
        /\ clock = "spawning" => clock' \in {"failed", "warmup"}
        /\ clock = "warmup" => clock' = "measuring"
        /\ clock = "measuring" => clock' = "stopping"
        /\ clock # "stopping"
    BY <1>3 DEF SpawnFails, Tick, StreamPhases
  <2> QED
    BY <1>0, <1>1, <2>1 DEF StreamsTyped, StreamPhases, RecordedLate, JoinedStopped, VerdictKept
<1>4. CASE JoinStream
  <2> DEFINE s == joined + 1
  <2>1. /\ clock = "stopping" /\ s \in Streams /\ rx[s] = "finished" /\ joined' = s /\ rx' = rx
    BY <1>4 DEF JoinStream
  <2>2. /\ Cardinality(Streams) \in Nat /\ Streams = 1 .. Cardinality(Streams)
        /\ \A t \in Streams : t \in Int
    BY StreamsAssumption, FS_CardinalityType
  <2>3. \A t \in Streams : t <= s => rx[t] = "finished"
    <3> SUFFICES ASSUME NEW t \in Streams, t <= s PROVE rx[t] = "finished"
      OBVIOUS
    <3>1. t <= joined \/ t = s
      BY <2>2 DEF StreamsTyped
    <3> QED
      BY <2>1, <3>1 DEF JoinedStopped
  <2>4. CASE s = Cardinality(Streams)
    <3>1. clock' = "over" /\ outcome'.loss_free = safety_loss_free
      BY <1>4, <2>4 DEF JoinStream
    <3>2. \A t \in Streams : t <= s
      BY <2>2, <2>4
    <3>3. safety_loss_free' = safety_loss_free
      BY <1>0 DEF safety_loss_free, Summary, Safety
    <3>4. joined' \in Nat
      BY <2>1 DEF StreamsTyped
    <3> QED
      BY <1>0, <1>1, <2>1, <2>3, <3>1, <3>2, <3>3, <3>4
         DEF StreamsTyped, StreamPhases, RecordedLate, JoinedStopped, VerdictKept
  <2>5. CASE s # Cardinality(Streams)
    <3>1. UNCHANGED <<clock, outcome>>
      BY <1>4, <2>5 DEF JoinStream
    <3>2. joined' \in Nat
      BY <2>1 DEF StreamsTyped
    <3> QED
      BY <1>0, <1>1, <2>1, <2>3, <3>1, <3>2
         DEF StreamsTyped, StreamPhases, RecordedLate, JoinedStopped, VerdictKept
  <2> QED
    BY <2>4, <2>5
<1> QED
  BY <1>2, <1>3, <1>4 DEF StreamsMain

\* A thread moves without touching the path: a receiver that has ended stays so.
LEMMA ThreadStreams ==
    ASSUME NEW s \in Streams, StreamsInv,
           TxChecks(s) \/ SendFails(s) \/ RxChecks(s) \/ RecvNothing(s) \/ RecvEnds(s)
           \/ RelaySourceClose(s)
    PROVE  StreamsInv'
<1> USE DEF StreamsInv
<1>1. UNCHANGED <<clock, joined, next_seq, inflight, missed, metrics, outcome>>
  BY DEF TxChecks, SendFails, RxChecks, RecvNothing, RecvEnds, RelaySourceClose
<1>2. /\ \/ rx' = rx
         \/ /\ rx[s] # "finished"
            /\ \E v \in {"checked", "looping", "finished"} : rx' = [rx EXCEPT ![s] = v]
  BY DEF TxChecks, SendFails, RxChecks, RecvNothing, RecvEnds, RelaySourceClose
<1>3. safety_loss_free' = safety_loss_free
  BY <1>1 DEF safety_loss_free, Summary, Safety
<1>4. Accounts'
  BY <1>1 DEF Accounts
<1>5. StreamsTyped'
  BY <1>1, <1>2 DEF StreamsTyped
<1>6. \A t \in Streams : rx[t] = "finished" => rx'[t] = "finished"
  BY <1>2 DEF StreamsTyped
<1> QED
  BY <1>1, <1>3, <1>4, <1>5, <1>6 DEF RecordedLate, JoinedStopped, VerdictKept

\* A message enters the path or is lost on it.
LEMMA PathStreams ==
    ASSUME NEW s \in Streams, StreamsInv, SendMsg(s) \/ LoseMsg(s)
    PROVE  StreamsInv'
<1> USE DEF StreamsInv
<1>1. UNCHANGED <<clock, joined, rx, metrics, outcome>>
  BY DEF SendMsg, LoseMsg
<1>2. /\ next_seq[s] \in Nat /\ inflight[s] \in Seq(Nat) /\ metrics[s] \in Seq(Nat)
      /\ missed[s] \subseteq Nat /\ Account(next_seq[s], inflight[s], missed[s], metrics[s])
  BY DEF StreamsTyped, Accounts
<1>3. safety_loss_free' = safety_loss_free
  BY <1>1 DEF safety_loss_free, Summary, Safety
<1>4. StreamsTyped' /\ Accounts'
  <2>1. CASE SendMsg(s)
    <3>1. /\ next_seq' = [next_seq EXCEPT ![s] = next_seq[s] + 1] /\ missed' = missed
          /\ inflight' = [inflight EXCEPT ![s] = Append(inflight[s], next_seq[s])]
      BY <2>1 DEF SendMsg
    <3>2. Account(next_seq[s] + 1, Append(inflight[s], next_seq[s]), missed[s], metrics[s])
      BY <1>2, AccountSent
    <3>3. Append(inflight[s], next_seq[s]) \in Seq(Nat) /\ next_seq[s] + 1 \in Nat
      BY <1>2
    <3> QED
      BY <1>1, <3>1, <3>2, <3>3 DEF StreamsTyped, Accounts
  <2>2. CASE LoseMsg(s)
    <3>1. /\ missed' = [missed EXCEPT ![s] = missed[s] \cup {Head(inflight[s])}] /\ next_seq' = next_seq
          /\ inflight' = [inflight EXCEPT ![s] = Tail(inflight[s])] /\ inflight[s] # << >>
      BY <2>2 DEF LoseMsg
    <3>2. Account(next_seq[s], Tail(inflight[s]), missed[s] \cup {Head(inflight[s])}, metrics[s])
      BY <1>2, <3>1, AccountLost
    <3>3. Tail(inflight[s]) \in Seq(Nat) /\ missed[s] \cup {Head(inflight[s])} \in SUBSET Nat
      BY <1>2, <3>1
    <3> QED
      BY <1>1, <3>1, <3>2, <3>3 DEF StreamsTyped, Accounts
  <2> QED
    BY <2>1, <2>2
<1> QED
  BY <1>1, <1>3, <1>4 DEF RecordedLate, JoinedStopped, VerdictKept

\* A receiver takes a message: a damaged one is as good as lost, before the measurement
\* nothing was recorded, and a receiver that has been joined takes none.
LEMMA RecvStreams ==
    ASSUME NEW s \in Streams, StreamsInv, RecvMsg(s)
    PROVE  StreamsInv'
<1> USE DEF StreamsInv
<1>1. /\ UNCHANGED <<clock, joined, next_seq, outcome>> /\ rx[s] = "checked"
      /\ rx' = [rx EXCEPT ![s] = "looping"] /\ inflight[s] # << >>
      /\ inflight' = [inflight EXCEPT ![s] = Tail(inflight[s])]
  BY DEF RecvMsg
<1>2. /\ next_seq[s] \in Nat /\ inflight[s] \in Seq(Nat) /\ metrics[s] \in Seq(Nat)
      /\ missed[s] \subseteq Nat /\ Account(next_seq[s], inflight[s], missed[s], metrics[s])
  BY DEF StreamsTyped, Accounts
<1>3. clock # "over"
  BY <1>1 DEF JoinedStopped
<1>4. Tail(inflight[s]) \in Seq(Nat) /\ Head(inflight[s]) \in Nat
  BY <1>1, <1>2
<1>5. JoinedStopped'
  BY <1>1, <1>3 DEF JoinedStopped, StreamsTyped
<1>8. CASE missed' = [missed EXCEPT ![s] = missed[s] \cup {Head(inflight[s])}] /\ UNCHANGED metrics
  <2>1. Account(next_seq[s], Tail(inflight[s]), missed[s] \cup {Head(inflight[s])}, metrics[s])
    BY <1>1, <1>2, AccountLost
  <2>2. missed[s] \cup {Head(inflight[s])} \in SUBSET Nat
    BY <1>2, <1>4
  <2>3. StreamsTyped' /\ Accounts'
    BY <1>1, <1>4, <1>8, <2>1, <2>2 DEF StreamsTyped, Accounts
  <2> QED
    BY <1>1, <1>3, <1>5, <1>8, <2>3 DEF RecordedLate, VerdictKept
<1>9. \/ missed' = [missed EXCEPT ![s] = missed[s] \cup {Head(inflight[s])}] /\ UNCHANGED metrics
      \/ /\ UNCHANGED missed
         /\ metrics' = IF recv_measuring THEN [metrics EXCEPT ![s] = Append(metrics[s], Head(inflight[s]))]
                       ELSE metrics
  BY DEF RecvMsg
<1>6. CASE missed' = missed /\ recv_measuring /\ metrics' = [metrics EXCEPT ![s] = Append(metrics[s], Head(inflight[s]))]
  <2>1. metrics' = [metrics EXCEPT ![s] = Append(metrics[s], Head(inflight[s]))]
    BY <1>6
  <2>2. Account(next_seq[s], Tail(inflight[s]), missed[s], Append(metrics[s], Head(inflight[s])))
    BY <1>1, <1>2, AccountRecorded
  <2>3. Append(metrics[s], Head(inflight[s])) \in Seq(Nat)
    BY <1>2, <1>4
  <2>4. StreamsTyped' /\ Accounts'
    BY <1>1, <1>4, <1>6, <2>1, <2>2, <2>3 DEF StreamsTyped, Accounts
  <2> QED
    BY <1>1, <1>3, <1>5, <1>6, <2>4 DEF RecordedLate, VerdictKept, recv_measuring
<1>7. CASE UNCHANGED missed /\ ~recv_measuring
  <2>1. metrics' = metrics
    BY <1>7, <1>9
  <2>2. metrics[s] = << >>
    BY <1>3, <1>7 DEF RecordedLate, recv_measuring
  <2>3. Account(next_seq[s], Tail(inflight[s]), missed[s], metrics[s])
    BY <1>1, <1>2, <2>2, AccountPassed
  <2>4. StreamsTyped' /\ Accounts'
    BY <1>1, <1>4, <1>7, <2>1, <2>3 DEF StreamsTyped, Accounts
  <2> QED
    BY <1>1, <1>3, <1>5, <2>1, <2>4 DEF RecordedLate, VerdictKept
<1> QED
  BY <1>6, <1>7, <1>8, <1>9

\* Every step keeps the invariant: the main thread, a thread of a stream, or its path.
LEMMA NextStreams == StreamsInv /\ [StreamsNext]_streamVars => StreamsInv'
<1> SUFFICES ASSUME StreamsInv, [StreamsNext]_streamVars PROVE StreamsInv'
  OBVIOUS
<1>1. CASE UNCHANGED streamVars
  BY <1>1 DEF streamVars, StreamsInv, StreamsTyped, Accounts, RecordedLate, JoinedStopped,
              VerdictKept, safety_loss_free, Summary, Safety
<1>2. CASE StreamsMain
  BY <1>2, MainStreams
<1>3. ASSUME NEW s \in Streams,
             \/ TxChecks(s) \/ SendMsg(s) \/ SendFails(s) \/ RxChecks(s) \/ RecvMsg(s)
             \/ RecvNothing(s) \/ RecvEnds(s) \/ LoseMsg(s) \/ RelaySourceClose(s)
      PROVE  StreamsInv'
  BY <1>3, ThreadStreams, PathStreams, RecvStreams
<1> QED
  BY <1>1, <1>2, <1>3 DEF StreamsNext

\* MultiStreamResult::from_streams calls the safety streams loss-free exactly when the
\* path lost or damaged none of what lies between the first and the last message each recorded,
\* for every number of streams, every capacity and however the threads are scheduled.
THEOREM VerdictIsExact == StreamsSpec => []SafetyVerdictExact
<1>1. StreamsInv => SafetyVerdictExact
  <2> SUFFICES ASSUME StreamsInv, clock = "over"
               PROVE  outcome.loss_free <=> \A s \in Safety : MissedWithin(s) = {}
    BY DEF SafetyVerdictExact
  <2>1. \A s \in Safety : Summary(s).lost = 0 <=> MissedWithin(s) = {}
    <3> SUFFICES ASSUME NEW s \in Safety PROVE Summary(s).lost = 0 <=> MissedWithin(s) = {}
      OBVIOUS
    <3>1. /\ next_seq[s] \in Nat /\ inflight[s] \in Seq(Nat) /\ metrics[s] \in Seq(Nat)
          /\ missed[s] \subseteq Nat /\ Account(next_seq[s], inflight[s], missed[s], metrics[s])
      BY DEF Safety, StreamsInv, StreamsTyped, Accounts
    <3>2. integrity(metrics[s]).lost = 0 <=>
            {n \in missed[s] : Range(metrics[s]) # {} /\ Min(Range(metrics[s])) < n /\ n < Max(Range(metrics[s]))} = {}
      BY <3>1, LossFree
    <3> QED
      BY <3>2 DEF Summary, MissedWithin
  <2>2. outcome.loss_free <=> safety_loss_free
    BY DEF StreamsInv, VerdictKept
  <2> QED
    BY <2>1, <2>2 DEF safety_loss_free
<1> QED
  BY <1>1, InitStreams, NextStreams, PTL DEF StreamsSpec

-----------------------------------------------------------------------------
(***************************************************************************)
(* Distributed mode.  ReportComplete speaks of the end; the invariant      *)
(* follows a connection to it: opened in order, waiting or accepted but    *)
(* not both, read in the order of acceptance, and closed for good.         *)
(***************************************************************************)
\* The threads, the connections and the records.
DistTyped ==
    /\ writer \in [Links -> {"none", "running", "writing", "counting", "finished"}]
    /\ written \in [Links -> Nat] /\ counted \in Nat
    /\ queue \in Seq(Links) /\ conns \in Seq(Links) /\ reading \in Nat \ {0}
    /\ buffered \in [Links -> Seq(Nat)] /\ report \in [Links -> Seq(Nat)]
    /\ dropped \subseteq Links

\* One connection: what was recorded and what is buffered follow one another, and unless
\* the connection is closed they are all that was written.
Carried(w, r, b, open) ==
    /\ \A i \in 1 .. Len(r) : r[i] = i - 1
    /\ \A i \in 1 .. Len(b) : b[i] = Len(r) + i - 1
    /\ Len(r) + Len(b) <= w
    /\ open => w = Len(r) + Len(b)

AllCarried == \A l \in Links : Carried(written[l], report[l], buffered[l], l \notin dropped)

\* The connections are opened in order.
OpenedLinks == {l \in Links : writer[l] # "none"}
OpenedInOrder == \E k \in Nat : OpenedLinks = 1 .. k

\* What the receiver knows of has been opened, waits once, and is accepted once.
Known ==
    /\ \A i \in 1 .. Len(queue) : writer[queue[i]] # "none"
    /\ \A i \in 1 .. Len(conns) : writer[conns[i]] # "none"
    /\ \A l \in dropped : writer[l] # "none"

WaitsOnce ==
    /\ \A i, j \in 1 .. Len(queue) : queue[i] = queue[j] => i = j
    /\ \A i \in 1 .. Len(queue), j \in 1 .. Len(conns) : queue[i] # conns[j]
    /\ \A i \in 1 .. Len(queue) : queue[i] \notin dropped

\* The receiver closes the connections in the order it accepted them, and returns after
\* the last.
ReadInOrder ==
    /\ reading <= Len(conns) + 1
    /\ \A i \in 1 .. Len(conns) : i < reading => conns[i] \in dropped
    /\ receiver = "over" => reading > Len(conns)

\* A connection closed after its writer had ended was read to its end.
ReadToTheEnd ==
    \A i \in 1 .. Len(conns) : conns[i] \in dropped /\ conns[i] \notin early =>
        writer[conns[i]] = "finished" /\ written[conns[i]] = Len(report[conns[i]])

\* Every message counted was written.
WrittenMsgs == {p \in Links \X Nat : 1 <= p[2] /\ p[2] <= written[p[1]]}
CountedWritten == IsFiniteSet(WrittenMsgs) /\ counted <= Cardinality(WrittenMsgs)

DistInv ==
    DistTyped /\ AllCarried /\ OpenedInOrder /\ Known /\ WaitsOnce /\ ReadInOrder
    /\ ReadToTheEnd /\ CountedWritten

\* Both programs have started and nothing is connected.
LEMMA InitDist == DistInit => DistInv
<1> SUFFICES ASSUME DistInit PROVE DistInv
  OBVIOUS
<1> USE DEF DistInit
<1>1. << >> \in Seq(Nat) /\ << >> \in Seq(Links) /\ Len(<< >>) = 0
  OBVIOUS
<1>2. DistTyped
  BY <1>1 DEF DistTyped
<1>3. AllCarried
  BY <1>1 DEF AllCarried, Carried
<1>4. OpenedInOrder
  <2>1. OpenedLinks = {}
    BY DEF OpenedLinks
  <2>2. 1 .. 0 = {} /\ 0 \in Nat
    OBVIOUS
  <2> QED
    BY <2>1, <2>2 DEF OpenedInOrder
<1>5. CountedWritten
  <2>1. WrittenMsgs = {}
    BY DEF WrittenMsgs
  <2> QED
    BY <2>1, FS_EmptySet DEF CountedWritten
<1>6. Known /\ WaitsOnce /\ ReadToTheEnd
  BY <1>1 DEF Known, WaitsOnce, ReadToTheEnd
<1>7. ReadInOrder
  BY <1>1 DEF ReadInOrder
<1> QED
  BY <1>2, <1>3, <1>4, <1>5, <1>6, <1>7 DEF DistInv

\* The clocks and the failure of the sender program leave the connections alone.
LEMMA ClockDist ==
    ASSUME DistInv, receiver' = "over" => receiver = "over" \/ reading > Len(conns),
           UNCHANGED <<writer, written, counted, queue, conns, reading, buffered, dropped, early, report>>
    PROVE  DistInv'
<1> USE DEF DistInv
<1>1. DistTyped' /\ AllCarried'
  BY DEF DistTyped, AllCarried
<1>2. OpenedInOrder' /\ CountedWritten'
  BY DEF OpenedInOrder, OpenedLinks, CountedWritten, WrittenMsgs
<1>3. Known' /\ WaitsOnce'
  BY DEF Known, WaitsOnce
<1>4. ReadToTheEnd'
  BY DEF ReadToTheEnd
<1>5. ReadInOrder'
  BY DEF ReadInOrder
<1> QED
  BY <1>1, <1>2, <1>3, <1>4, <1>5

\* A connection is opened: it is one the receiver does not know yet.
LEMMA OpenDist ==
    ASSUME DistInv, OpenLink, listening
    PROVE  DistInv'
<1> USE DEF DistInv
<1> DEFINE p == Pending
<1>1. /\ p \in Links /\ queue' = Append(queue, p) /\ writer' = [writer EXCEPT ![p] = "running"]
      /\ UNCHANGED <<written, counted, receiver, conns, reading, buffered, dropped, early, report>>
  BY DEF OpenLink
<1>2. PICK k \in Nat : OpenedLinks = 1 .. k
  BY DEF OpenedInOrder
<1>3. p = k + 1
  <2>1. Cardinality(1 .. k) = k
    BY FS_Interval
  <2> QED
    BY <1>2, <2>1 DEF Pending, OpenedLinks
<1>4. writer[p] = "none"
  <2>1. p \notin OpenedLinks
    BY <1>2, <1>3
  <2> QED
    BY <1>1, <2>1 DEF OpenedLinks
<1> HIDE DEF p
<1>5. DistTyped'
  BY <1>1 DEF DistTyped
<1>6. AllCarried' /\ CountedWritten' /\ ReadInOrder'
  BY <1>1 DEF AllCarried, CountedWritten, WrittenMsgs, ReadInOrder
<1>7. OpenedInOrder'
  <2>1. OpenedLinks' = OpenedLinks \cup {p}
    BY <1>1, <1>4 DEF OpenedLinks, DistTyped
  <2>2. OpenedLinks' = 1 .. (k + 1)
    BY <1>2, <1>3, <2>1
  <2> QED
    BY <2>2 DEF OpenedInOrder
<1>8. \A l \in Links : writer[l] # "none" => l # p /\ writer'[l] = writer[l]
  BY <1>1, <1>4 DEF DistTyped
<1>9. /\ Len(queue) \in Nat /\ Len(queue') = Len(queue) + 1 /\ queue'[Len(queue) + 1] = p
      /\ \A i \in 1 .. Len(queue) : queue'[i] = queue[i] /\ queue[i] \in Links
      /\ \A i \in 1 .. Len(queue') : i \in 1 .. Len(queue) \/ i = Len(queue) + 1
  <2>1. queue \in Seq(Links) /\ queue' = Append(queue, p) /\ p \in Links
    BY <1>1 DEF DistTyped
  <2> QED
    BY <2>1
<1>10. writer'[p] = "running"
  BY <1>1 DEF DistTyped
<1>11. Len(conns) \in Nat /\ \A i \in 1 .. Len(conns) : conns[i] \in Links
  BY DEF DistTyped
<1>12. Known'
  <2>1. \A i \in 1 .. Len(queue') : writer'[queue'[i]] # "none"
    BY <1>8, <1>9, <1>10 DEF Known
  <2>2. \A i \in 1 .. Len(conns) : writer'[conns[i]] # "none"
    BY <1>8, <1>11 DEF Known
  <2>3. \A l \in dropped : writer'[l] # "none"
    BY <1>8 DEF Known, DistTyped
  <2> QED
    BY <1>1, <2>1, <2>2, <2>3 DEF Known
<1>13. WaitsOnce'
  <2>1. \A i, j \in 1 .. Len(queue') : queue'[i] = queue'[j] => i = j
    BY <1>8, <1>9 DEF Known, WaitsOnce
  <2>2. \A i \in 1 .. Len(queue'), j \in 1 .. Len(conns) : queue'[i] # conns[j]
    BY <1>8, <1>9, <1>11 DEF Known, WaitsOnce
  <2>3. \A i \in 1 .. Len(queue') : queue'[i] \notin dropped
    BY <1>8, <1>9 DEF Known, WaitsOnce, DistTyped
  <2> QED
    BY <1>1, <2>1, <2>2, <2>3 DEF WaitsOnce
<1>14. ReadToTheEnd'
  BY <1>1, <1>8, <1>11 DEF ReadToTheEnd
<1> QED
  BY <1>5, <1>6, <1>7, <1>12, <1>13, <1>14

\* A writer moves without writing: opened links stay opened, finished ones finished.
LEMMA WriterDist ==
    ASSUME NEW l \in Links, DistInv, LoadPhase(l) \/ WriterEnds(l)
    PROVE  DistInv'
<1> USE DEF DistInv
<1>1. /\ UNCHANGED <<written, counted, receiver, queue, conns, reading, buffered, dropped, early, report>>
      /\ writer[l] # "none"
      /\ \E v \in {"counting", "writing", "finished"} : 
            writer' = [writer EXCEPT ![l] = v] /\ (writer[l] = "finished" => v = "finished")
  BY DEF LoadPhase, WriterEnds, Writing
<1>2. DistTyped'
  BY <1>1 DEF DistTyped
<1>3. \A m \in Links : /\ writer[m] = "none" <=> writer'[m] = "none"
                       /\ writer[m] = "finished" => writer'[m] = "finished"
  BY <1>1 DEF DistTyped
<1>4. AllCarried' /\ CountedWritten' /\ ReadInOrder' /\ WaitsOnce'
  BY <1>1 DEF AllCarried, CountedWritten, WrittenMsgs, ReadInOrder, WaitsOnce
<1>5. OpenedInOrder'
  BY <1>3 DEF OpenedInOrder, OpenedLinks
<1>6. /\ \A i \in 1 .. Len(queue) : queue[i] \in Links
      /\ \A i \in 1 .. Len(conns) : conns[i] \in Links
  BY DEF DistTyped
<1>7. Known'
  BY <1>1, <1>3, <1>6 DEF Known, DistTyped
<1>8. ReadToTheEnd'
  BY <1>1, <1>3, <1>6 DEF ReadToTheEnd
<1> QED
  BY <1>2, <1>4, <1>5, <1>7, <1>8

\* A message is written: it is buffered behind the others, or nobody will read it.
LEMMA CarriedMore ==
    ASSUME NEW w \in Nat, NEW r \in Seq(Nat), NEW b \in Seq(Nat), Carried(w, r, b, TRUE)
    PROVE  Carried(w + 1, r, Append(b, w), TRUE)
<1> DEFINE c == Append(b, w)
<1>1. /\ Len(r) \in Nat /\ Len(b) \in Nat /\ Len(c) = Len(b) + 1 /\ c[Len(b) + 1] = w
      /\ \A i \in 1 .. Len(b) : c[i] = b[i]
      /\ \A i \in 1 .. Len(c) : i \in 1 .. Len(b) \/ i = Len(b) + 1
  OBVIOUS
<1>2. w = Len(r) + Len(b) /\ \A i \in 1 .. Len(b) : b[i] = Len(r) + i - 1
  BY DEF Carried
<1> HIDE DEF c
<1>3. \A i \in 1 .. Len(c) : c[i] = Len(r) + i - 1
  <2> SUFFICES ASSUME NEW i \in 1 .. Len(c) PROVE c[i] = Len(r) + i - 1
    OBVIOUS
  <2>1. CASE i \in 1 .. Len(b)
    BY <1>1, <1>2, <2>1
  <2>2. CASE i = Len(b) + 1
    BY <1>1, <1>2, <2>2
  <2> QED
    BY <1>1, <2>1, <2>2
<1>4. Carried(w + 1, r, c, TRUE)
  BY <1>1, <1>2, <1>3 DEF Carried
<1> QED
  BY <1>4 DEF c

\* A write, counted or not, keeps the invariant.
LEMMA WriteDist ==
    ASSUME NEW l \in Links, DistInv, Write(l)
    PROVE  DistInv'
<1> USE DEF DistInv
<1>1. /\ UNCHANGED <<receiver, queue, conns, reading, dropped, early, report>>
      /\ writer[l] \in {"writing", "counting"} /\ writer' = [writer EXCEPT ![l] = "running"]
      /\ written' = [written EXCEPT ![l] = written[l] + 1]
      /\ buffered' = IF l \in dropped THEN buffered
                     ELSE [buffered EXCEPT ![l] = Append(buffered[l], written[l])]
      /\ counted' \in {counted, counted + 1}
  BY DEF Write, Writing
<1>2. written[l] \in Nat /\ buffered[l] \in Seq(Nat) /\ report[l] \in Seq(Nat) /\ counted \in Nat
  BY DEF DistTyped
<1>3. DistTyped'
  <2>1. Append(buffered[l], written[l]) \in Seq(Nat) /\ written[l] + 1 \in Nat /\ counted' \in Nat
    BY <1>1, <1>2
  <2> QED
    BY <1>1, <2>1 DEF DistTyped
<1>4. AllCarried'
  <2>1. Carried(written[l], report[l], buffered[l], l \notin dropped)
    BY DEF AllCarried
  <2>2. CASE l \in dropped
    <3>0. Len(report[l]) \in Nat /\ Len(buffered[l]) \in Nat
      BY <1>2
    <3> DEFINE a == Len(report[l])
               b == Len(buffered[l])
               w == written[l]
    <3>1. a + b <= w + 1
      <4>1. a \in Nat /\ b \in Nat /\ w \in Nat /\ a + b <= w
        BY <1>2, <2>1, <3>0 DEF Carried
      <4> HIDE DEF a, b, w
      <4> QED
        BY <4>1
    <3>2. Carried(written[l] + 1, report[l], buffered[l], FALSE)
      BY <2>1, <3>1 DEF Carried
    <3> QED
      BY <1>1, <2>2, <3>2 DEF AllCarried, DistTyped
  <2>3. CASE l \notin dropped
    <3>1. Carried(written[l] + 1, report[l], Append(buffered[l], written[l]), TRUE)
      BY <1>2, <2>1, <2>3, CarriedMore
    <3> QED
      BY <1>1, <2>3, <3>1 DEF AllCarried, DistTyped
  <2> QED
    BY <2>2, <2>3
<1>5. \A m \in Links : /\ writer[m] = "none" <=> writer'[m] = "none"
                       /\ writer[m] = "finished" => writer'[m] = "finished" /\ written'[m] = written[m]
  BY <1>1 DEF DistTyped
<1>6. /\ \A i \in 1 .. Len(queue) : queue[i] \in Links
      /\ \A i \in 1 .. Len(conns) : conns[i] \in Links
  BY DEF DistTyped
<1>7. OpenedInOrder'
  BY <1>5 DEF OpenedInOrder, OpenedLinks
<1>8. Known'
  BY <1>1, <1>5, <1>6 DEF Known, DistTyped
<1>9. ReadInOrder' /\ WaitsOnce'
  BY <1>1 DEF ReadInOrder, WaitsOnce
<1>10. ReadToTheEnd'
  BY <1>1, <1>5, <1>6 DEF ReadToTheEnd
<1>11. CountedWritten'
  <2> DEFINE new == <<l, written[l] + 1>>
  <2>1. new \in Links \X Nat /\ new \notin WrittenMsgs
    BY <1>2 DEF WrittenMsgs
  <2>2. WrittenMsgs' = WrittenMsgs \cup {new}
    <3>1. \A p \in Links \X Nat : p[1] \in Links /\ p[2] \in Nat /\ p = <<p[1], p[2]>>
      OBVIOUS
    <3>2. \A m \in Links : written'[m] = IF m = l THEN written[l] + 1 ELSE written[m]
      BY <1>1 DEF DistTyped
    <3>3. ASSUME NEW p \in Links \X Nat
          PROVE  (1 <= p[2] /\ p[2] <= written'[p[1]]) <=> (1 <= p[2] /\ p[2] <= written[p[1]]) \/ p = new
      <4> DEFINE x == p[1]
                 n == p[2]
      <4>1. x \in Links /\ n \in Nat /\ p = <<x, n>>
        BY <3>1
      <4>2. (1 <= n /\ n <= written'[x]) <=> (1 <= n /\ n <= written[x]) \/ (x = l /\ n = written[l] + 1)
        <5> HIDE DEF x, n
        <5> QED BY <1>2, <3>2, <4>1
      <4>3. (x = l /\ n = written[l] + 1) <=> p = new
        <5> HIDE DEF x, n
        <5> QED BY <4>1
      <4> QED
        BY <4>2, <4>3
    <3> HIDE DEF new
    <3> QED
      BY <2>1, <3>3 DEF WrittenMsgs
  <2> HIDE DEF new
  <2>3. /\ IsFiniteSet(WrittenMsgs) /\ Cardinality(WrittenMsgs) \in Nat
        /\ IsFiniteSet(WrittenMsgs \cup {new})
        /\ Cardinality(WrittenMsgs \cup {new}) = Cardinality(WrittenMsgs) + 1
    BY <2>1, FS_AddElement, FS_CardinalityType DEF CountedWritten
  <2> QED
    BY <1>1, <1>2, <2>2, <2>3 DEF CountedWritten
<1> QED
  BY <1>3, <1>4, <1>7, <1>8, <1>9, <1>10, <1>11

\* The first message buffered is recorded.
LEMMA CarriedOn ==
    ASSUME NEW w \in Nat, NEW r \in Seq(Nat), NEW b \in Seq(Nat), NEW open \in BOOLEAN,
           Carried(w, r, b, open), b # << >>
    PROVE  Carried(w, Append(r, Head(b)), Tail(b), open)
<1> DEFINE q == Append(r, Head(b))
           t == Tail(b)
<1>1. Len(r) \in Nat /\ Len(b) \in Nat /\ Len(b) >= 1
  OBVIOUS
<1>2. Len(t) = Len(b) - 1 /\ Head(b) = b[1] /\ \A i \in 1 .. Len(t) : t[i] = b[i + 1]
  OBVIOUS
<1>3. /\ Len(q) = Len(r) + 1 /\ q[Len(r) + 1] = Head(b) /\ \A i \in 1 .. Len(r) : q[i] = r[i]
      /\ \A i \in 1 .. Len(q) : i \in 1 .. Len(r) \/ i = Len(r) + 1
  OBVIOUS
<1> HIDE DEF q, t
<1>4. \A i \in 1 .. Len(q) : q[i] = i - 1
  <2> SUFFICES ASSUME NEW i \in 1 .. Len(q) PROVE q[i] = i - 1
    OBVIOUS
  <2>1. CASE i \in 1 .. Len(r)
    BY <1>3, <2>1 DEF Carried
  <2>2. CASE i = Len(r) + 1
    <3>1. b[1] = Len(r)
      BY <1>1 DEF Carried
    <3> QED
      BY <1>1, <1>2, <1>3, <2>2, <3>1
  <2> QED
    BY <1>3, <2>1, <2>2
<1>5. \A i \in 1 .. Len(t) : t[i] = Len(q) + i - 1
  <2> SUFFICES ASSUME NEW i \in 1 .. Len(t) PROVE t[i] = Len(q) + i - 1
    OBVIOUS
  <2>1. i \in Nat /\ i + 1 \in 1 .. Len(b)
    BY <1>1, <1>2
  <2>2. b[i + 1] = Len(r) + (i + 1) - 1
    BY <2>1 DEF Carried
  <2>3. t[i] = Len(r) + (i + 1) - 1
    BY <1>2, <2>2
  <2>4. Len(q) = Len(r) + 1
    BY <1>3
  <2> QED
    BY <1>1, <2>1, <2>3, <2>4
<1>6. Len(q) + Len(t) = Len(r) + Len(b)
  BY <1>1, <1>2, <1>3
<1>7. Carried(w, q, t, open)
  BY <1>4, <1>5, <1>6 DEF Carried
<1> QED
  BY <1>7 DEF q, t

\* The receiver accepts the connection that has waited longest.
LEMMA AcceptDist ==
    ASSUME DistInv, AcceptLink
    PROVE  DistInv'
<1> USE DEF DistInv
<1>1. /\ UNCHANGED <<writer, written, counted, receiver, reading, buffered, dropped, early, report>>
      /\ conns' = Append(conns, Head(queue)) /\ queue' = Tail(queue) /\ queue # << >>
      /\ receiver # "over"
  BY DEF AcceptLink
<1> DEFINE h == Head(queue)
<1>2. /\ Len(queue) \in Nat /\ Len(queue) >= 1 /\ h = queue[1] /\ h \in Links
      /\ Len(queue') = Len(queue) - 1 /\ queue' \in Seq(Links)
      /\ \A i \in 1 .. Len(queue') : queue'[i] = queue[i + 1] /\ i + 1 \in 1 .. Len(queue) /\ i \in Nat
  BY <1>1 DEF DistTyped
<1>3. /\ Len(conns) \in Nat /\ Len(conns') = Len(conns) + 1 /\ conns' \in Seq(Links)
      /\ conns'[Len(conns) + 1] = h /\ \A i \in 1 .. Len(conns) : conns'[i] = conns[i]
      /\ \A i \in 1 .. Len(conns') : i \in 1 .. Len(conns) \/ i = Len(conns) + 1
  <2>1. conns \in Seq(Links) /\ conns' = Append(conns, h)
    BY <1>1 DEF DistTyped
  <2> HIDE DEF h
  <2> QED
    BY <1>2, <2>1
<1>4. 1 \in 1 .. Len(queue) /\ h \notin dropped /\ writer[h] # "none"
  BY <1>2 DEF WaitsOnce, Known
<1> HIDE DEF h
<1>5. DistTyped'
  BY <1>1, <1>2, <1>3 DEF DistTyped
<1>6. AllCarried' /\ OpenedInOrder' /\ CountedWritten'
  BY <1>1 DEF AllCarried, OpenedInOrder, OpenedLinks, CountedWritten, WrittenMsgs
<1>7. Known'
  <2>1. \A i \in 1 .. Len(queue') : writer[queue'[i]] # "none"
    BY <1>2 DEF Known
  <2>2. \A i \in 1 .. Len(conns') : writer[conns'[i]] # "none"
    BY <1>3, <1>4 DEF Known
  <2> QED
    BY <1>1, <2>1, <2>2 DEF Known
<1>8. WaitsOnce'
  <2>1. ASSUME NEW i \in 1 .. Len(queue'), NEW j \in 1 .. Len(queue'), queue'[i] = queue'[j]
        PROVE  i = j
    <3>1. i + 1 = j + 1
      BY <1>2, <2>1 DEF WaitsOnce
    <3> QED
      BY <1>2, <3>1
  <2>2. ASSUME NEW i \in 1 .. Len(queue') PROVE queue'[i] # h
    <3>1. i + 1 # 1
      BY <1>2
    <3> QED
      BY <1>2, <1>4, <3>1 DEF WaitsOnce
  <2>3. ASSUME NEW i \in 1 .. Len(queue'), NEW j \in 1 .. Len(conns') PROVE queue'[i] # conns'[j]
    <3>1. CASE j \in 1 .. Len(conns)
      BY <1>2, <1>3, <3>1 DEF WaitsOnce
    <3>2. CASE j = Len(conns) + 1
      BY <1>3, <2>2, <3>2
    <3> QED
      BY <1>3, <3>1, <3>2
  <2>4. \A i \in 1 .. Len(queue') : queue'[i] \notin dropped
    BY <1>2 DEF WaitsOnce
  <2> QED
    BY <1>1, <2>1, <2>3, <2>4 DEF WaitsOnce
<1>9. ReadInOrder'
  <2>1. reading \in Nat /\ reading <= Len(conns) + 1
    BY DEF DistTyped, ReadInOrder
  <2>2. \A i \in 1 .. Len(conns') : i < reading => i \in 1 .. Len(conns)
    BY <1>3, <2>1
  <2>3. \A i \in 1 .. Len(conns') : i < reading => conns'[i] \in dropped
    BY <1>3, <2>2 DEF ReadInOrder
  <2>4. reading <= Len(conns') + 1
    BY <1>3, <2>1
  <2> QED
    BY <1>1, <2>3, <2>4 DEF ReadInOrder
<1>10. ReadToTheEnd'
  <2>1. ASSUME NEW i \in 1 .. Len(conns'), conns'[i] \in dropped, conns'[i] \notin early
        PROVE  writer[conns'[i]] = "finished" /\ written[conns'[i]] = Len(report[conns'[i]])
    <3>1. i \in 1 .. Len(conns)
      BY <1>3, <1>4, <2>1
    <3> QED
      BY <1>3, <2>1, <3>1 DEF ReadToTheEnd
  <2> QED
    BY <1>1, <2>1 DEF ReadToTheEnd
<1> QED
  BY <1>5, <1>6, <1>7, <1>8, <1>9, <1>10

\* The listener is closed, with the connections that wait: none of them was accepted.
LEMMA AcceptorDist ==
    ASSUME DistInv, AcceptorEnds
    PROVE  DistInv'
<1> USE DEF DistInv
<1> DEFINE U == Unaccepted
<1>1. /\ UNCHANGED <<writer, written, counted, receiver, conns, reading, buffered, report>>
      /\ queue' = << >> /\ dropped' = dropped \cup U /\ early \subseteq early'
  BY DEF AcceptorEnds, DropLinks
<1>2. U = {queue[i] : i \in 1 .. Len(queue)}
  <2>1. DOMAIN queue = 1 .. Len(queue)
    BY DEF DistTyped
  <2> QED
    BY <2>1 DEF Unaccepted, Range
<1>3. U \subseteq Links /\ \A l \in U : writer[l] # "none"
  <2>1. \A i \in 1 .. Len(queue) : queue[i] \in Links
    BY DEF DistTyped
  <2> HIDE DEF U
  <2> QED
    BY <1>2, <2>1 DEF Known
<1>4. \A i \in 1 .. Len(conns) : conns[i] \notin U
  BY <1>2 DEF WaitsOnce
<1>5. \A l \in U : l \notin dropped
  BY <1>2 DEF WaitsOnce
<1> HIDE DEF U
<1>6. DistTyped'
  <2>1. << >> \in Seq(Links)
    OBVIOUS
  <2> QED
    BY <1>1, <1>3, <2>1 DEF DistTyped
<1>7. AllCarried'
  BY <1>1 DEF AllCarried, Carried
<1>8. OpenedInOrder' /\ CountedWritten'
  BY <1>1 DEF OpenedInOrder, OpenedLinks, CountedWritten, WrittenMsgs
<1>9. Known' /\ WaitsOnce'
  <2>1. Len(queue') = 0
    BY <1>1
  <2> QED
    BY <1>1, <1>3, <2>1 DEF Known, WaitsOnce
<1>10. ReadInOrder'
  BY <1>1 DEF ReadInOrder
<1>11. ReadToTheEnd'
  BY <1>1, <1>4 DEF ReadToTheEnd
<1> QED
  BY <1>6, <1>7, <1>8, <1>9, <1>10, <1>11

\* The receiver records a message: its connection has not been read to its end.
LEMMA ReadDist ==
    ASSUME DistInv, ReadMsg
    PROVE  DistInv'
<1> USE DEF DistInv
<1> DEFINE l == Source
<1>1. /\ UNCHANGED <<writer, written, counted, receiver, queue, conns, reading, dropped, early>>
      /\ reading <= Len(conns) /\ buffered[l] # << >>
      /\ report' = [report EXCEPT ![l] = Append(report[l], Head(buffered[l]))]
      /\ buffered' = [buffered EXCEPT ![l] = Tail(buffered[l])]
  BY DEF ReadMsg
<1>2. reading \in 1 .. Len(conns) /\ l = conns[reading] /\ l \in Links
  BY <1>1 DEF Source, DistTyped
<1> HIDE DEF l
<1>3. written[l] \in Nat /\ report[l] \in Seq(Nat) /\ buffered[l] \in Seq(Nat)
  BY <1>2 DEF DistTyped
<1>4. Head(buffered[l]) \in Nat /\ Tail(buffered[l]) \in Seq(Nat)
  BY <1>1, <1>3
<1>5. Append(report[l], Head(buffered[l])) \in Seq(Nat)
  BY <1>3, <1>4
<1>6. DistTyped'
  BY <1>1, <1>2, <1>4, <1>5 DEF DistTyped
<1>7. Carried(written[l], report[l], buffered[l], l \notin dropped)
  BY <1>2 DEF AllCarried
<1>8. AllCarried'
  <2>1. Carried(written[l], Append(report[l], Head(buffered[l])), Tail(buffered[l]), l \notin dropped)
    BY <1>1, <1>3, <1>7, CarriedOn
  <2> QED
    BY <1>1, <1>2, <2>1 DEF AllCarried, DistTyped
<1>9. OpenedInOrder' /\ CountedWritten' /\ Known' /\ WaitsOnce' /\ ReadInOrder'
  BY <1>1 DEF OpenedInOrder, OpenedLinks, CountedWritten, WrittenMsgs, Known, WaitsOnce, ReadInOrder
<1>10. written[l] # Len(report[l])
  <2> DEFINE a == Len(report[l])
             b == Len(buffered[l])
             w == written[l]
  <2>1. a \in Nat /\ b \in Nat /\ b >= 1 /\ w \in Nat
    BY <1>1, <1>3
  <2>2. a + b <= w
    BY <1>7 DEF Carried
  <2>3. w # a
    <3> HIDE DEF a, b, w
    <3> QED
      BY <2>1, <2>2
  <2> QED
    BY <2>3
<1>11. ReadToTheEnd'
  <2>1. \A m \in Links : m # l => report'[m] = report[m]
    BY <1>1 DEF DistTyped
  <2>2. \A i \in 1 .. Len(conns) : conns[i] \in Links
    BY DEF DistTyped
  <2>3. l \notin dropped \/ l \in early
    BY <1>2, <1>10 DEF ReadToTheEnd
  <2> QED
    BY <1>1, <2>1, <2>2, <2>3 DEF ReadToTheEnd
<1> QED
  BY <1>6, <1>8, <1>9, <1>11

\* The receiver closes the connection it reads: when nobody writes on it any more, all that
\* was written on it has been recorded.
LEMMA CloseDist ==
    ASSUME DistInv, ReadEnds
    PROVE  DistInv'
<1> USE DEF DistInv
<1> DEFINE l == Source
<1>1. /\ UNCHANGED <<writer, written, counted, receiver, queue, conns, buffered, report>>
      /\ reading <= Len(conns) /\ buffered[l] = << >> /\ reading' = reading + 1
      /\ dropped' = dropped \cup {l} /\ receiver = "reading"
      /\ early' = early \cup {m \in {l} : writer[m] \notin {"none", "finished"}}
  BY DEF ReadEnds, NothingToRead, DropLinks
<1>2. reading \in 1 .. Len(conns) /\ l = conns[reading] /\ l \in Links /\ reading \in Nat
  BY <1>1 DEF Source, DistTyped
<1>3. writer[l] # "none"
  BY <1>2 DEF Known
<1> HIDE DEF l
<1>4. written[l] \in Nat /\ report[l] \in Seq(Nat) /\ buffered[l] \in Seq(Nat)
  BY <1>2 DEF DistTyped
<1>5. DistTyped'
  <2>1. reading + 1 \in Nat \ {0}
    BY <1>2
  <2> QED
    BY <1>1, <1>2, <2>1 DEF DistTyped
<1>6. AllCarried'
  BY <1>1 DEF AllCarried, Carried
<1>7. OpenedInOrder' /\ CountedWritten'
  BY <1>1 DEF OpenedInOrder, OpenedLinks, CountedWritten, WrittenMsgs
<1>8. Known'
  BY <1>1, <1>3 DEF Known
<1>9. WaitsOnce'
  <2>1. \A i \in 1 .. Len(queue) : queue[i] # l
    BY <1>2 DEF WaitsOnce
  <2> QED
    BY <1>1, <2>1 DEF WaitsOnce
<1>10. ReadInOrder'
  <2>1. Len(conns) \in Nat
    BY DEF DistTyped
  <2>2. reading' <= Len(conns) + 1
    BY <1>1, <1>2, <2>1
  <2>3. \A i \in 1 .. Len(conns) : i < reading' => i < reading \/ i = reading
    BY <1>1, <1>2
  <2>4. \A i \in 1 .. Len(conns) : i < reading' => conns[i] \in dropped'
    BY <1>1, <1>2, <2>3 DEF ReadInOrder
  <2> QED
    BY <1>1, <2>2, <2>4 DEF ReadInOrder
<1>11. ReadToTheEnd'
  <2>1. ASSUME writer[l] = "finished", l \notin dropped PROVE written[l] = Len(report[l])
    <3>1. written[l] = Len(report[l]) + Len(buffered[l])
      BY <1>2, <2>1 DEF AllCarried, Carried
    <3>2. Len(buffered[l]) = 0 /\ Len(report[l]) \in Nat
      BY <1>1, <1>4
    <3> QED
      BY <3>1, <3>2
  <2>2. writer[l] # "finished" => l \in early'
    BY <1>1, <1>3
  <2>3. ASSUME NEW i \in 1 .. Len(conns), conns[i] \in dropped', conns[i] \notin early'
        PROVE  writer[conns[i]] = "finished" /\ written[conns[i]] = Len(report[conns[i]])
    <3>1. CASE conns[i] \in dropped
      BY <1>1, <2>3, <3>1 DEF ReadToTheEnd
    <3>2. CASE conns[i] \notin dropped
      <4>1. conns[i] = l
        BY <1>1, <2>3, <3>2
      <4> QED
        BY <2>1, <2>2, <2>3, <3>2, <4>1
    <3> QED
      BY <3>1, <3>2
  <2> QED
    BY <1>1, <2>3 DEF ReadToTheEnd
<1> QED
  BY <1>5, <1>6, <1>7, <1>8, <1>9, <1>10, <1>11

\* Every step keeps the invariant: one lemma per operation of the two programs.
LEMMA NextDist == DistInv /\ [DistNext]_distVars => DistInv'
<1> SUFFICES ASSUME DistInv, [DistNext]_distVars PROVE DistInv'
  OBVIOUS
<1>1. CASE UNCHANGED distVars
  BY <1>1, ClockDist DEF distVars
<1>2. CASE SenderMain
  <2>1. CASE OpenLink /\ listening
    BY <2>1, OpenDist
  <2>2. CASE OpenLink /\ ~listening
    BY <2>2, ClockDist DEF OpenLink
  <2>3. CASE SenderClock
    BY <2>3, ClockDist DEF SenderClock
  <2> QED
    BY <1>2, <2>1, <2>2, <2>3 DEF SenderMain
<1>3. CASE ReceiverMain
  <2>1. CASE ReceiverClock
    <3>1. UNCHANGED <<writer, written, counted, queue, conns, reading, buffered, dropped, early, report>>
      BY <2>1 DEF ReceiverClock
    <3>2. receiver' = "over" => reading > Len(conns)
      <4>1. \A i \in 1 .. 3 : Clock[i + 1] # "over"
        <5>1. \A i \in 1 .. 3 : i = 1 \/ i = 2 \/ i = 3
          OBVIOUS
        <5> QED
          BY <5>1 DEF Clock
      <4> QED
        BY <2>1, <4>1 DEF ReceiverClock
    <3> QED
      BY <3>1, <3>2, ClockDist
  <2> QED
    BY <1>3, <2>1, ReadDist, CloseDist DEF ReceiverMain
<1>4. CASE AcceptLink \/ AcceptorEnds
  BY <1>4, AcceptDist, AcceptorDist
<1>5. ASSUME NEW l \in Links, LoadPhase(l) \/ Write(l) \/ WriterEnds(l) PROVE DistInv'
  BY <1>5, WriterDist, WriteDist
<1> QED
  BY <1>1, <1>2, <1>3, <1>4, <1>5 DEF DistNext

\* run_distributed_receiver records of a connection what was written on it, in order, and
\* all of it when the connection was accepted and its writer had ended before it was
\* closed: for any number of connections and any distance between the two clocks.
THEOREM ReportIsComplete == DistSpec => []ReportComplete
<1>1. DistInv => ReportComplete
  <2> SUFFICES ASSUME DistInv PROVE ReportComplete
    OBVIOUS
  <2> DEFINE complete == Range(conns) \ early
  <2> USE DEF DistInv
  <2>1. \A l \in Links : report[l] = [i \in 1 .. Len(report[l]) |-> i - 1]
    <3> SUFFICES ASSUME NEW l \in Links PROVE report[l] = [i \in 1 .. Len(report[l]) |-> i - 1]
      OBVIOUS
    <3>1. report[l] \in Seq(Nat) /\ \A i \in 1 .. Len(report[l]) : report[l][i] = i - 1
      BY DEF DistTyped, AllCarried, Carried
    <3>2. \A r \in Seq(Nat) : r = [i \in 1 .. Len(r) |-> r[i]]
      OBVIOUS
    <3> QED
      BY <3>1, <3>2
  <2>2. ASSUME receiver = "over" PROVE \A l \in complete : Len(report[l]) = written[l]
    <3> SUFFICES ASSUME NEW l \in complete PROVE Len(report[l]) = written[l]
      OBVIOUS
    <3>0. DOMAIN conns = 1 .. Len(conns)
      BY DEF DistTyped
    <3>1. PICK i \in 1 .. Len(conns) : l = conns[i]
      BY <3>0 DEF Range
    <3>2. i < reading
      BY <2>2 DEF ReadInOrder, DistTyped
    <3> QED
      BY <3>1, <3>2 DEF ReadInOrder, ReadToTheEnd
  <2>3. ASSUME receiver = "over", complete = Links
        PROVE  counted <= Cardinality(UNION {{l} \X (1 .. Len(report[l])) : l \in Links})
    <3>1. \A l \in Links : Len(report[l]) = written[l] /\ written[l] \in Nat
      BY <2>2, <2>3 DEF DistTyped
    <3>2. UNION {{l} \X (1 .. Len(report[l])) : l \in Links} = WrittenMsgs
      <4>1. ASSUME NEW l \in Links, NEW p \in {l} \X (1 .. Len(report[l])) PROVE p \in WrittenMsgs
        <5>1. p[1] = l /\ p[2] \in 1 .. Len(report[l]) /\ p = <<p[1], p[2]>>
          OBVIOUS
        <5>2. p[2] \in Nat /\ 1 <= p[2] /\ p[2] <= written[l]
          BY <3>1, <5>1
        <5>3. p \in Links \X Nat
          BY <5>1, <5>2
        <5> QED
          BY <5>1, <5>2, <5>3 DEF WrittenMsgs
      <4>2. ASSUME NEW p \in WrittenMsgs PROVE \E l \in Links : p \in {l} \X (1 .. Len(report[l]))
        <5>1. p \in Links \X Nat /\ 1 <= p[2] /\ p[2] <= written[p[1]]
          BY DEF WrittenMsgs
        <5>2. p[1] \in Links /\ p[2] \in Nat /\ p = <<p[1], p[2]>>
          BY <5>1
        <5>3. p[2] \in 1 .. Len(report[p[1]])
          BY <3>1, <5>1, <5>2
        <5> QED
          BY <5>2, <5>3
      <4> QED
        BY <4>1, <4>2
    <3> QED
      BY <3>2 DEF CountedWritten
  <2> QED
    BY <2>1, <2>2, <2>3 DEF ReportComplete
<1> QED
  BY <1>1, InitDist, NextDist, PTL DEF DistSpec
===============================================================================
