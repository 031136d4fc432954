----------------------- MODULE GatewayEndpoints_proofs -----------------------
(***************************************************************************)
(* PairsMatch for any number of connections, runs, traffic classes and     *)
(* readiness probes.  A connection that is on its way to the backend is a  *)
(* closed one, the one that is being opened, or belongs to a lane that a   *)
(* mistaken connection has put out of step; and no connection is on its    *)
(* way twice, so what is accepted is gone.  The last part is about the     *)
(* pool of local pipelines, which the runs use up exactly.                 *)
(***************************************************************************)
EXTENDS GatewayEndpoints, SequenceTheorems, TLAPS

Kinds == {"probe", "client"}

\* Connections that exist on this path.
Conns == [lane : Lanes, kind : Kinds, n : Int]

Typed ==
    /\ lanes \in Nat \ {0}
    /\ at \in Lanes
    /\ probes \in [Lanes -> Nat]
    /\ transit \subseteq Conns
    /\ backlog \in [Lanes -> Seq(Conns)]
    /\ carrier \in {"tcp", "classes", "tproxy", "local"}
    /\ pc \in {"path", "open", "accept", "encrypt", "traffic", "over", "failed"}
    /\ run \in Nat \ {0}
    /\ opened \in Seq([sink : Conns, source : Conns])
    /\ next_conn \in Nat
    /\ quiet \in BOOLEAN

\* Everything between the ingress and an accept.
Out == transit \cup Waiting

\* No connection is on its way twice, and each waits on its own lane.
NoTwice ==
    /\ transit \cap Waiting = {}
    /\ \A l \in Lanes : \A i, j \in DOMAIN backlog[l] :
         backlog[l][i] = backlog[l][j] => i = j
    /\ \A l \in Lanes : \A i \in DOMAIN backlog[l] : backlog[l][i].lane = l

\* The number of the last client that may be on its way.
LastClient == (run - 1) * NConns + Len(opened) + (IF pc \in {"accept", "failed"} THEN 1 ELSE 0)

\* The next client is a new connection, and so is the next probe.
Numbered ==
    /\ \A c \in Out : c.n <= IF c.kind = "client" THEN LastClient ELSE probes[c.lane]
    /\ Len(opened) <= NConns
    /\ pc \in {"accept", "encrypt"} => This <= NConns

\* The connection that is being opened.
BeingOpened == IF pc \in {"accept", "failed"} THEN {Mine} ELSE {}

Mistaken(lane) == \E m \in mistaken : m.lane = lane

\* What is on its way.
OnlyLeftovers ==
    /\ closed \subseteq Out
    /\ \A c \in Out : c \in closed \/ c \in BeingOpened \/ Mistaken(c.lane)

\* After a complete drain only the connection that is being opened is on its way.
QuietPath ==
    /\ pc = "path" => mistaken = {}
    /\ pc \notin {"path", "failed"} => stage = "ready"
    /\ carrier # "tproxy" /\ quiet /\ stage = "ready" /\ pc # "path" =>
         closed = {} /\ Out \subseteq BeingOpened

\* Each carrier has its own places.
OwnPlaces ==
    /\ carrier = "local" => pc \notin {"path", "accept"} /\ mistaken = {} /\ Out = {}
    /\ carrier # "local" => pc # "encrypt"

\* A pipeline's endpoints are registered under an id of their own.
OwnIds ==
    carrier = "local" =>
        /\ \A e \in registry : e.app \in Nat /\ e.app < next_conn
        /\ pc = "encrypt" =>
             /\ \A e \in registry : e.direction = "encrypt" => e.app # next_conn - 1
             /\ \E e \in registry : e.direction = "decrypt" /\ e.owner = Mine

\* Inductive invariant.
IInv ==
    /\ Typed /\ NoTwice /\ Numbered /\ OnlyLeftovers /\ QuietPath /\ OwnPlaces /\ OwnIds
    /\ PairsMatch

(***************************************************************************)
(* What is on its way, under the steps of the path.                        *)
(***************************************************************************)

\* What waits in the backlogs.
LEMMA InWaiting ==
    ASSUME NEW c
    PROVE  c \in Waiting <=> \E l \in Lanes : \E i \in DOMAIN backlog[l] : c = backlog[l][i]
  BY DEF Waiting

\* The same one step later.
LEMMA InWaitingNext ==
    ASSUME NEW c, UNCHANGED lanes
    PROVE  c \in Waiting' <=> \E l \in Lanes : \E i \in DOMAIN backlog'[l] : c = backlog'[l][i]
  BY DEF Waiting, Lanes

\* Only connections of the path are on their way.
LEMMA OutTyped ==
    ASSUME Typed
    PROVE  Out \subseteq Conns
<1>1. \A l \in Lanes : \A i \in DOMAIN backlog[l] : backlog[l][i] \in Conns
  <2> SUFFICES ASSUME NEW l \in Lanes, NEW i \in DOMAIN backlog[l] PROVE backlog[l][i] \in Conns
    OBVIOUS
  <2>1. backlog[l] \in Seq(Conns)
    BY DEF Typed
  <2> QED
    BY <2>1, ElementOfSeq
<1>2. Waiting \subseteq Conns
  BY <1>1, InWaiting
<1> QED
  BY <1>2 DEF Typed, Out

\* Nothing moves.
LEMMA OutKept ==
    ASSUME Typed, NoTwice, UNCHANGED <<lanes, transit, backlog>>
    PROVE  NoTwice' /\ Out' = Out /\ Waiting' = Waiting
<1>1. Lanes' = Lanes
  BY DEF Lanes
<1>2. Waiting' = Waiting
  BY <1>1 DEF Waiting
<1> QED
  BY <1>1, <1>2 DEF NoTwice, Out

\* accept() takes the head of a backlog, and what is taken is gone.
LEMMA AcceptOut ==
    ASSUME Typed, NoTwice, NEW l \in Lanes, backlog[l] # << >>, Accept(l),
           NEW c, c = Head(backlog[l])
    PROVE  /\ c \in Waiting /\ c.lane = l /\ c \in Conns
           /\ backlog' \in [Lanes -> Seq(Conns)] /\ Out' = Out \ {c} /\ NoTwice'
           /\ UNCHANGED <<lanes, stage, at, probes, transit>>
           /\ closed' = closed \ {c}
<1> DEFINE b == backlog[l]
           t == Tail(b)
<1>1. b \in Seq(Conns) /\ b # << >> /\ Lanes' = Lanes
  BY DEF Typed, Accept, Lanes
<1>2. /\ UNCHANGED <<lanes, stage, at, probes, transit>>
      /\ backlog' = [backlog EXCEPT ![l] = t] /\ closed' = closed \ {c}
  BY DEF Accept
<1>3. /\ Len(b) \in Nat \ {0} /\ c = b[1] /\ c \in Conns
      /\ t \in Seq(Conns) /\ Len(t) = Len(b) - 1
      /\ \A i \in 1 .. Len(t) : t[i] = b[i + 1]
      /\ DOMAIN b = 1 .. Len(b) /\ DOMAIN t = 1 .. Len(t)
  BY <1>1
<1>4. backlog' \in [Lanes -> Seq(Conns)] /\ backlog'[l] = t
      /\ \A k \in Lanes \ {l} : backlog'[k] = backlog[k]
  BY <1>2, <1>3 DEF Typed
<1>5. \A i, j \in DOMAIN b : b[i] = b[j] => i = j
  BY DEF NoTwice
<1>6. \A k \in Lanes : \A i \in DOMAIN backlog[k] : backlog[k][i].lane = k
  BY DEF NoTwice
<1>7. c.lane = l
  BY <1>3, <1>6
<1>8. c \in Waiting
  BY <1>3, InWaiting
<1> HIDE DEF b, t
<1>9. \A x : (\E i \in DOMAIN t : x = t[i]) <=> (\E i \in DOMAIN b : x = b[i]) /\ x # c
  <2> SUFFICES ASSUME NEW x
               PROVE  (\E i \in DOMAIN t : x = t[i]) <=> (\E i \in DOMAIN b : x = b[i]) /\ x # c
    OBVIOUS
  <2>1. ASSUME NEW i \in DOMAIN t, x = t[i]
        PROVE  (\E j \in DOMAIN b : x = b[j]) /\ x # c
    <3>1. i + 1 \in DOMAIN b /\ x = b[i + 1] /\ i + 1 # 1 /\ 1 \in DOMAIN b
      BY <1>3, <2>1
    <3> QED
      BY <1>3, <1>5, <3>1
  <2>2. ASSUME NEW j \in DOMAIN b, x = b[j], x # c
        PROVE  \E i \in DOMAIN t : x = t[i]
    <3>1. j - 1 \in DOMAIN t /\ t[j - 1] = b[j]
      BY <1>3, <2>2
    <3> QED
      BY <2>2, <3>1
  <2> QED
    BY <2>1, <2>2
<1>10. Waiting' = Waiting \ {c}
  <2> SUFFICES ASSUME NEW x PROVE x \in Waiting' <=> x \in Waiting /\ x # c
    OBVIOUS
  <2>1. x \in Waiting' <=> \E k \in Lanes : \E i \in DOMAIN backlog'[k] : x = backlog'[k][i]
    BY <1>2, InWaitingNext
  <2>2. x \in Waiting <=> \E k \in Lanes : \E i \in DOMAIN backlog[k] : x = backlog[k][i]
    BY InWaiting
  <2>3. \A k \in Lanes : (\E i \in DOMAIN backlog'[k] : x = backlog'[k][i])
                           <=> (\E i \in DOMAIN backlog[k] : x = backlog[k][i]) /\ x # c
    <3> SUFFICES ASSUME NEW k \in Lanes
                 PROVE  (\E i \in DOMAIN backlog'[k] : x = backlog'[k][i])
                           <=> (\E i \in DOMAIN backlog[k] : x = backlog[k][i]) /\ x # c
      OBVIOUS
    <3>1. CASE k = l
      BY <1>4, <1>9, <3>1 DEF b
    <3>2. CASE k # l
      <4>1. backlog'[k] = backlog[k]
        BY <1>4, <3>2
      <4>2. \A i \in DOMAIN backlog[k] : backlog[k][i] # c
        BY <1>6, <1>7, <3>2
      <4> QED
        BY <4>1, <4>2
    <3> QED
      BY <3>1, <3>2
  <2> QED
    BY <2>1, <2>2, <2>3
<1>11. c \notin transit
  BY <1>8 DEF NoTwice
<1>12. Out' = Out \ {c}
  BY <1>2, <1>10, <1>11 DEF Out
<1>13. NoTwice'
  <2>1. transit' \cap Waiting' = {}
    BY <1>2, <1>10 DEF NoTwice
  <2>2. ASSUME NEW k \in Lanes, NEW i \in DOMAIN backlog'[k], NEW j \in DOMAIN backlog'[k]
        PROVE  /\ backlog'[k][i] = backlog'[k][j] => i = j
               /\ backlog'[k][i].lane = k
    <3>1. CASE k # l
      BY <1>4, <3>1 DEF NoTwice
    <3>2. CASE k = l
      <4>1. i \in DOMAIN t /\ j \in DOMAIN t /\ backlog'[k][i] = t[i] /\ backlog'[k][j] = t[j]
        BY <1>4, <3>2
      <4>2. /\ t[i] = b[i + 1] /\ t[j] = b[j + 1] /\ i \in Nat /\ j \in Nat
            /\ i + 1 \in DOMAIN b /\ j + 1 \in DOMAIN b
        BY <1>3, <4>1
      <4>3. b[i + 1] = b[j + 1] => i + 1 = j + 1
        BY <1>5, <4>2
      <4>4. b[i + 1].lane = l
        BY <1>6, <4>2 DEF b
      <4> QED
        BY <3>2, <4>1, <4>2, <4>3, <4>4
    <3> QED
      BY <3>1, <3>2
  <2> QED
    BY <1>1, <2>1, <2>2 DEF NoTwice
<1> QED
  BY <1>2, <1>3, <1>4, <1>7, <1>8, <1>12, <1>13

\* The gateway opens the matching connection to the backend: it waits there now.
LEMMA ForwardOut ==
    ASSUME Typed, NoTwice, NEW c \in transit, Forward(c)
    PROVE  /\ backlog' \in [Lanes -> Seq(Conns)] /\ Out' = Out /\ NoTwice'
           /\ transit' \subseteq transit
           /\ UNCHANGED <<lanes, stage, at, probes, closed>>
<1> DEFINE l == c.lane
           b == backlog[l]
           t == Append(b, c)
<1>1. c \in Conns /\ l \in Lanes /\ b \in Seq(Conns) /\ Lanes' = Lanes
  BY DEF Typed, Forward, Lanes, Conns
<1>2. /\ UNCHANGED <<lanes, stage, at, probes, closed>>
      /\ backlog' = [backlog EXCEPT ![l] = t] /\ transit' = transit \ {c}
  BY DEF Forward
<1>3. /\ Len(b) \in Nat /\ t \in Seq(Conns) /\ Len(t) = Len(b) + 1
      /\ \A i \in 1 .. Len(b) : t[i] = b[i]
      /\ t[Len(b) + 1] = c
      /\ DOMAIN b = 1 .. Len(b) /\ DOMAIN t = 1 .. Len(t)
  BY <1>1, AppendProperties
<1>4. backlog' \in [Lanes -> Seq(Conns)] /\ backlog'[l] = t
      /\ \A k \in Lanes \ {l} : backlog'[k] = backlog[k]
  BY <1>1, <1>2, <1>3 DEF Typed
<1>5. DOMAIN t = DOMAIN b \cup {Len(b) + 1} /\ \A i \in DOMAIN b : t[i] = b[i]
  BY <1>3
<1>6. /\ \A k \in Lanes : \A i \in DOMAIN backlog[k] : backlog[k][i].lane = k
      /\ \A i, j \in DOMAIN b : b[i] = b[j] => i = j
  BY <1>1 DEF NoTwice
<1>7. \A i \in DOMAIN b : b[i] # c
  BY <1>1, InWaiting DEF NoTwice
<1> HIDE DEF b, t, l
<1>8. Waiting' = Waiting \cup {c}
  <2> SUFFICES ASSUME NEW x PROVE x \in Waiting' <=> x \in Waiting \/ x = c
    OBVIOUS
  <2>1. x \in Waiting' <=> \E k \in Lanes : \E i \in DOMAIN backlog'[k] : x = backlog'[k][i]
    BY <1>2, InWaitingNext
  <2>2. x \in Waiting <=> \E k \in Lanes : \E i \in DOMAIN backlog[k] : x = backlog[k][i]
    BY InWaiting
  <2>3. (\E i \in DOMAIN t : x = t[i]) <=> (\E i \in DOMAIN b : x = b[i]) \/ x = c
    BY <1>3, <1>5
  <2>4. \A k \in Lanes \ {l} : (\E i \in DOMAIN backlog'[k] : x = backlog'[k][i])
                                 <=> (\E i \in DOMAIN backlog[k] : x = backlog[k][i])
    BY <1>4
  <2> QED
    BY <1>1, <1>4, <2>1, <2>2, <2>3, <2>4 DEF b
<1>9. Out' = Out
  BY <1>2, <1>8 DEF Out
<1>10. NoTwice'
  <2>1. transit' \cap Waiting' = {}
    BY <1>2, <1>8 DEF NoTwice
  <2>2. ASSUME NEW k \in Lanes, NEW i \in DOMAIN backlog'[k], NEW j \in DOMAIN backlog'[k]
        PROVE  /\ backlog'[k][i] = backlog'[k][j] => i = j
               /\ backlog'[k][i].lane = k
    <3>1. CASE k # l
      BY <1>4, <3>1 DEF NoTwice
    <3>2. CASE k = l
      <4>1. i \in DOMAIN t /\ j \in DOMAIN t /\ backlog'[k][i] = t[i] /\ backlog'[k][j] = t[j]
        BY <1>4, <3>2
      <4>2. t[i] = t[j] => i = j
        BY <1>3, <1>5, <1>6, <1>7, <4>1
      <4>3. t[i].lane = l
        BY <1>1, <1>3, <1>5, <1>6, <4>1 DEF b, l
      <4> QED
        BY <3>2, <4>1, <4>2, <4>3
    <3> QED
      BY <3>1, <3>2
  <2> QED
    BY <1>1, <2>1, <2>2 DEF NoTwice
<1> QED
  BY <1>2, <1>4, <1>9, <1>10

(***************************************************************************)
(* The invariant is kept by every step.                                    *)
(***************************************************************************)

\* The lanes of a path do not change, and with them nothing that is derived from them.
LEMMA SameLanes ==
    ASSUME UNCHANGED lanes
    PROVE  Lanes' = Lanes /\ Conns' = Conns /\ \A i : LaneOf(i)' = LaneOf(i)
  BY DEF Lanes, Conns, LaneOf

\* The lane of a connection is a lane of the path.
LEMMA LaneTyped ==
    ASSUME Typed, NEW i \in Nat \ {0}
    PROVE  LaneOf(i) \in Lanes
<1>1. PICK j \in Nat : j = i - 1
  OBVIOUS
<1>2. lanes \in Nat \ {0}
  BY DEF Typed
<1>3. j % lanes \in 0 .. lanes - 1
  BY <1>2
<1>4. LaneOf(i) = (j % lanes) + 1
  BY <1>1 DEF LaneOf
<1> QED
  BY <1>2, <1>3, <1>4 DEF Lanes

\* The client that comes next, and its number.
LEMMA MineTyped ==
    ASSUME Typed
    PROVE  /\ This \in Nat \ {0} /\ This = Len(opened) + 1 /\ Len(opened) \in Nat
           /\ Mine \in Conns /\ Mine.lane = LaneOf(This) /\ Mine.kind = "client"
           /\ Mine.n = (run - 1) * NConns + This
           /\ (run - 1) * NConns \in Int /\ LaneOf(This) \in Lanes
<1>1. Len(opened) \in Nat /\ run \in Nat /\ NConns \in Nat
  BY EndpointsAssumption DEF Typed
<1>2. This \in Nat \ {0} /\ This = Len(opened) + 1
  BY <1>1 DEF This
<1>3. LaneOf(This) \in Lanes
  BY <1>2, LaneTyped
<1>4. (run - 1) * NConns \in Int
  BY <1>1
<1>5. (run - 1) * NConns + This \in Int
  BY <1>2, <1>4
<1>6. Mine = [lane |-> LaneOf(This), kind |-> "client", n |-> (run - 1) * NConns + This]
  BY DEF Mine, Client, Connection
<1> QED
  BY <1>1, <1>2, <1>3, <1>4, <1>5, <1>6 DEF Conns, Kinds

\* A step that puts nothing new on its way.
LEMMA PathKeeps ==
    ASSUME IInv, UNCHANGED pairVars, UNCHANGED <<lanes, probes>>, at' \in Lanes,
           transit' \subseteq transit, backlog' \in [Lanes -> Seq(Conns)], NoTwice',
           Out' \subseteq Out, closed' = closed \cap Out', stage' = stage \/ pc = "path"
    PROVE  IInv'
<1>1. /\ UNCHANGED <<carrier, pc, run, opened, next_conn, registry, mistaken, quiet>>
      /\ Lanes' = Lanes /\ Conns' = Conns
  BY SameLanes DEF pairVars
<1>2. \A i : LaneOf(i)' = LaneOf(i)
  BY SameLanes
<1>3. Mine' = Mine /\ This' = This /\ LastClient' = LastClient /\ BeingOpened' = BeingOpened
  BY <1>1, <1>2 DEF Mine, This, Client, Connection, LastClient, BeingOpened, LaneOf
<1>4. Typed'
  BY <1>1 DEF IInv, Typed
<1>5. Numbered'
  BY <1>1, <1>3 DEF IInv, Numbered
<1>6. OnlyLeftovers'
  BY <1>1, <1>3 DEF IInv, OnlyLeftovers, Mistaken
<1>7. QuietPath'
  BY <1>1, <1>3 DEF IInv, QuietPath
<1>8. OwnPlaces'
  BY <1>1 DEF IInv, OwnPlaces
<1>9. OwnIds'
  BY <1>1, <1>3 DEF IInv, OwnIds
<1>10. PairsMatch'
  BY <1>1, <1>2 DEF IInv, PairsMatch, Connected, LaneOf
<1> QED
  BY <1>4, <1>5, <1>6, <1>7, <1>8, <1>9, <1>10 DEF IInv

\* The gateway forwards, gives up and relays closes in any order.
LEMMA GatewayKeeps ==
    ASSUME IInv, Gateway, UNCHANGED pairVars
    PROVE  IInv'
<1>1. Typed /\ NoTwice /\ closed \subseteq Out /\ at \in Lanes /\ transit \subseteq Conns
  BY DEF IInv, Typed, OnlyLeftovers
<1>2. backlog \in [Lanes -> Seq(Conns)]
  BY <1>1 DEF Typed
<1>3. ASSUME NEW c \in transit, Forward(c)
      PROVE  IInv'
  <2>1. /\ backlog' \in [Lanes -> Seq(Conns)] /\ Out' = Out /\ NoTwice'
        /\ transit' \subseteq transit
        /\ UNCHANGED <<lanes, stage, at, probes, closed>>
    BY <1>1, <1>3, ForwardOut
  <2> QED
    BY <1>1, <2>1, PathKeeps
<1>4. ASSUME NEW c \in transit, GiveUp(c)
      PROVE  IInv'
  <2>1. /\ transit' = transit \ {c} /\ closed' = closed \ {c}
        /\ UNCHANGED <<lanes, stage, at, probes, backlog>>
    BY <1>4 DEF GiveUp
  <2>2. Waiting' = Waiting /\ Lanes' = Lanes
    BY <2>1, SameLanes DEF Waiting
  <2>3. c \notin Waiting
    BY <1>1 DEF NoTwice
  <2>4. Out' = Out \ {c}
    BY <2>1, <2>2, <2>3 DEF Out
  <2>5. NoTwice'
    BY <1>1, <2>1, <2>2 DEF NoTwice
  <2>6. closed' = closed \cap Out'
    BY <1>1, <2>1, <2>4
  <2> QED
    BY <1>1, <1>2, <2>1, <2>4, <2>5, <2>6, PathKeeps
<1>5. ASSUME NEW c \in closed, RelayClose(c)
      PROVE  IInv'
  <2>1. UNCHANGED <<lanes, stage, at, probes, transit, backlog, closed>>
    BY <1>5 DEF RelayClose
  <2>2. NoTwice' /\ Out' = Out
    BY <1>1, <2>1, OutKept
  <2> QED
    BY <1>1, <1>2, <2>1, <2>2, PathKeeps
<1> QED
  BY <1>3, <1>4, <1>5 DEF Gateway, Forwards

\* The path starts: probes are opened and dropped, and what arrives is drained.
LEMMA StartingKeeps ==
    ASSUME IInv, pc = "path", NEW drains \in BOOLEAN, Starting(drains), UNCHANGED pairVars
    PROVE  IInv'
<1>1. /\ Typed /\ NoTwice /\ closed \subseteq Out /\ at \in Lanes /\ transit \subseteq Conns
      /\ backlog \in [Lanes -> Seq(Conns)] /\ lanes \in Nat \ {0}
  BY DEF IInv, Typed, OnlyLeftovers
<1>2. ASSUME NEW l \in Lanes, ProbeListener(l)
      PROVE  IInv'
  <2> DEFINE c == Connection(l, "probe", probes[l] + 1)
  <2>1. /\ probes' = [probes EXCEPT ![l] = @ + 1]
        /\ transit' = transit \cup {c} /\ closed' = closed \cup {c}
        /\ UNCHANGED <<lanes, stage, at, backlog>>
    BY <1>2 DEF ProbeListener
  <2>2. /\ UNCHANGED <<carrier, pc, run, opened, next_conn, registry, mistaken, quiet>>
        /\ Lanes' = Lanes /\ Conns' = Conns /\ \A i : LaneOf(i)' = LaneOf(i)
    BY <2>1, SameLanes DEF pairVars
  <2>3. probes \in [Lanes -> Nat] /\ probes[l] \in Nat
    BY <1>1 DEF Typed
  <2>4. c \in Conns /\ c.lane = l /\ c.kind = "probe" /\ c.n = probes[l] + 1
    BY <2>3 DEF Connection, Conns, Kinds
  <2>5. Waiting' = Waiting
    BY <2>1, <2>2 DEF Waiting
  <2> HIDE DEF c
  <2>6. Out' = Out \cup {c}
    BY <2>1, <2>5 DEF Out
  <2>7. \A x \in Out : x.n <= IF x.kind = "client" THEN LastClient ELSE probes[x.lane]
    BY DEF IInv, Numbered
  <2>8. c \notin Out
    BY <2>3, <2>4, <2>7
  <2>9. probes' \in [Lanes -> Nat] /\ probes'[l] = probes[l] + 1
        /\ \A k \in Lanes \ {l} : probes'[k] = probes[k]
    BY <2>1, <2>3
  <2>10. Mine' = Mine /\ This' = This /\ LastClient' = LastClient /\ BeingOpened' = BeingOpened
    BY <2>1, <2>2 DEF Mine, This, Client, Connection, LastClient, BeingOpened, LaneOf
  <2>11. Typed'
    BY <1>1, <2>1, <2>2, <2>4, <2>9 DEF Typed
  <2>12. NoTwice'
    BY <1>1, <2>1, <2>2, <2>5, <2>6, <2>8 DEF NoTwice, Out
  <2>13. Numbered'
    <3>1. ASSUME NEW x \in Out'
          PROVE  x.n <= IF x.kind = "client" THEN LastClient ELSE probes'[x.lane]
      <4>1. CASE x = c
        BY <2>3, <2>4, <2>9, <4>1
      <4>2. CASE x \in Out
        <5>1. x \in Conns
          BY <1>1, <4>2, OutTyped
        <5>2. x.lane \in Lanes /\ x.n \in Int
          BY <5>1 DEF Conns
        <5>3. probes[x.lane] \in Nat /\ probes'[x.lane] \in Nat /\ probes[x.lane] <= probes'[x.lane]
          BY <2>3, <2>9, <5>2
        <5> QED
          BY <2>7, <4>2, <5>2, <5>3
      <4> QED
        BY <2>6, <4>1, <4>2
    <3> QED
      BY <2>2, <2>10, <3>1 DEF IInv, Numbered
  <2>14. OnlyLeftovers'
    BY <2>1, <2>2, <2>6, <2>10 DEF IInv, OnlyLeftovers, Mistaken
  <2>15. QuietPath' /\ OwnPlaces' /\ OwnIds'
    BY <2>2, <2>10 DEF IInv, QuietPath, OwnPlaces, OwnIds
  <2>16. PairsMatch'
    BY <2>1, <2>2 DEF IInv, PairsMatch, Connected, LaneOf
  <2> QED
    BY <2>11, <2>12, <2>13, <2>14, <2>15, <2>16 DEF IInv
<1>3. CASE ListenersUp(drains) \/ StartFails \/ DrainEnds
  <2>1. UNCHANGED <<lanes, probes, transit, backlog, closed>>
    BY <1>3 DEF ListenersUp, StartFails, DrainEnds
  <2>2. at' \in Lanes
    BY <1>1, <1>3 DEF ListenersUp, StartFails, DrainEnds, Lanes
  <2>3. NoTwice' /\ Out' = Out
    BY <1>1, <2>1, OutKept
  <2> QED
    BY <1>1, <2>1, <2>2, <2>3, PathKeeps
<1>4. CASE DrainAccept
  <2>1. PICK c : c = Head(backlog[at])
    OBVIOUS
  <2>2. backlog[at] # << >> /\ Accept(at)
    BY <1>4 DEF DrainAccept
  <2>3. /\ backlog' \in [Lanes -> Seq(Conns)] /\ Out' = Out \ {c} /\ NoTwice'
        /\ UNCHANGED <<lanes, stage, at, probes, transit>>
        /\ closed' = closed \ {c}
    BY <1>1, <2>1, <2>2, AcceptOut
  <2>4. closed' = closed \cap Out'
    BY <1>1, <2>3
  <2> QED
    BY <1>1, <2>3, <2>4, PathKeeps
<1> QED
  BY <1>2, <1>3, <1>4 DEF Starting

\* The harness gives up, with or without an accept before.
LEMMA FailKeeps ==
    ASSUME IInv, Fail, UNCHANGED <<lanes, stage, at, probes, transit>>,
           backlog' \in [Lanes -> Seq(Conns)], NoTwice', Out' \subseteq Out,
           closed' = closed \cap Out', pc = "path" => stage # "ready"
    PROVE  IInv'
<1>1. /\ UNCHANGED <<carrier, run, opened, next_conn, registry, mistaken, quiet>>
      /\ pc' = "failed" /\ Lanes' = Lanes /\ Conns' = Conns
  BY SameLanes DEF Fail
<1>2. \A i : LaneOf(i)' = LaneOf(i)
  BY SameLanes
<1>3. Mine' = Mine /\ This' = This /\ BeingOpened' = {Mine}
  BY <1>1, <1>2 DEF Mine, This, Client, Connection, BeingOpened, LaneOf
<1>4. BeingOpened \subseteq BeingOpened'
  BY <1>3 DEF BeingOpened
<1>5. LastClient \in Int /\ LastClient' \in Int /\ LastClient <= LastClient'
  <2>1. PICK u \in Int : u = (run - 1) * NConns + Len(opened)
    BY MineTyped DEF IInv
  <2>2. LastClient = u + (IF pc \in {"accept", "failed"} THEN 1 ELSE 0) /\ LastClient' = u + 1
    BY <1>1, <2>1 DEF LastClient
  <2> QED
    BY <2>2
<1>6. Typed'
  BY <1>1 DEF IInv, Typed
<1>7. Numbered'
  <2>1. ASSUME NEW c \in Out'
        PROVE  c.n <= IF c.kind = "client" THEN LastClient' ELSE probes[c.lane]
    <3>1. c \in Out /\ c \in Conns
      BY OutTyped DEF IInv
    <3>2. c.n \in Int
      BY <3>1 DEF Conns
    <3>3. c.n <= IF c.kind = "client" THEN LastClient ELSE probes[c.lane]
      BY <3>1 DEF IInv, Numbered
    <3> QED
      BY <1>5, <3>2, <3>3
  <2> QED
    BY <1>1, <2>1 DEF IInv, Numbered
<1>8. OnlyLeftovers'
  BY <1>1, <1>4 DEF IInv, OnlyLeftovers, Mistaken
<1>9. QuietPath'
  BY <1>1, <1>4 DEF IInv, QuietPath
<1>10. OwnPlaces' /\ OwnIds'
  BY <1>1 DEF IInv, OwnPlaces, OwnIds
<1>11. PairsMatch'
  BY <1>1, <1>2 DEF IInv, PairsMatch, Connected, LaneOf
<1> QED
  BY <1>6, <1>7, <1>8, <1>9, <1>10, <1>11 DEF IInv

\* Without an accept.
LEMMA FailStillKeeps ==
    ASSUME IInv, Fail, UNCHANGED pathVars, pc = "path" => stage # "ready"
    PROVE  IInv'
<1>1. UNCHANGED <<lanes, stage, at, probes, transit, backlog, closed>>
  BY DEF pathVars
<1>2. Typed /\ NoTwice /\ closed \subseteq Out /\ backlog \in [Lanes -> Seq(Conns)]
  BY DEF IInv, OnlyLeftovers, Typed
<1>3. NoTwice' /\ Out' = Out
  BY <1>1, <1>2, OutKept
<1> QED
  BY <1>1, <1>2, <1>3, FailKeeps

\* Every way to fail.
LEMMA FailuresKeep ==
    ASSUME IInv, NotReady \/ ConnectFails \/ AcceptRefuses \/ AcceptTimesOut \/ CreateFails
    PROVE  IInv'
<1>1. CASE NotReady
  BY <1>1, FailStillKeeps DEF NotReady
<1>2. CASE ConnectFails
  BY <1>2, FailStillKeeps DEF ConnectFails
<1>3. CASE AcceptTimesOut
  BY <1>3, FailStillKeeps DEF AcceptTimesOut
<1>4. CASE CreateFails
  BY <1>4, FailStillKeeps DEF CreateFails
<1>5. CASE AcceptRefuses
  <2>1. PICK l, c : l = LaneOf(This) /\ c = Head(backlog[l])
    OBVIOUS
  <2>2. pc = "accept" /\ backlog[l] # << >> /\ Accept(l) /\ Fail
    BY <1>5, <2>1 DEF AcceptRefuses
  <2>3. Typed /\ NoTwice /\ closed \subseteq Out /\ l \in Lanes
    BY <2>1, MineTyped DEF IInv, OnlyLeftovers
  <2>4. /\ backlog' \in [Lanes -> Seq(Conns)] /\ Out' = Out \ {c} /\ NoTwice'
        /\ UNCHANGED <<lanes, stage, at, probes, transit>>
        /\ closed' = closed \ {c}
    BY <2>1, <2>2, <2>3, AcceptOut
  <2>5. closed' = closed \cap Out'
    BY <2>3, <2>4
  <2> QED
    BY <2>2, <2>4, <2>5, FailKeeps
<1> QED
  BY <1>1, <1>2, <1>3, <1>4, <1>5

\* A connection at its end is dropped.
LEMMA SkipKeeps ==
    ASSUME IInv, AcceptSkips
    PROVE  IInv'
<1>1. PICK l, c : l = LaneOf(This) /\ c = Head(backlog[l])
  OBVIOUS
<1>2. backlog[l] # << >> /\ Accept(l) /\ UNCHANGED pairVars
  BY <1>1 DEF AcceptSkips
<1>3. Typed /\ NoTwice /\ closed \subseteq Out /\ l \in Lanes /\ at \in Lanes
  BY <1>1, MineTyped DEF IInv, OnlyLeftovers, Typed
<1>4. /\ backlog' \in [Lanes -> Seq(Conns)] /\ Out' = Out \ {c} /\ NoTwice'
      /\ UNCHANGED <<lanes, stage, at, probes, transit>>
      /\ closed' = closed \ {c}
  BY <1>1, <1>2, <1>3, AcceptOut
<1>5. closed' = closed \cap Out'
  BY <1>3, <1>4
<1> QED
  BY <1>2, <1>3, <1>4, <1>5, PathKeeps

\* The path is up.
LEMMA ReadyKeeps ==
    ASSUME IInv, Ready
    PROVE  IInv'
<1>1. /\ UNCHANGED <<lanes, stage, at, probes, transit, backlog, closed>>
      /\ UNCHANGED <<carrier, run, opened, next_conn, registry, mistaken>>
      /\ pc = "path" /\ stage = "ready" /\ pc' = "open" /\ quiet' = (Out = {})
  BY DEF Ready, pathVars, Out
<1>2. Typed /\ NoTwice /\ closed \subseteq Out
  BY DEF IInv, OnlyLeftovers
<1>3. /\ NoTwice' /\ Out' = Out /\ Lanes' = Lanes /\ Conns' = Conns
      /\ \A i : LaneOf(i)' = LaneOf(i)
  BY <1>1, <1>2, OutKept, SameLanes
<1>4. mistaken = {} /\ carrier # "local" /\ BeingOpened = {} /\ LastClient' = LastClient
  BY <1>1 DEF IInv, QuietPath, OwnPlaces, BeingOpened, LastClient
<1>5. Typed'
  BY <1>1, <1>2, <1>3 DEF Typed
<1>6. Numbered'
  BY <1>1, <1>3, <1>4 DEF IInv, Numbered
<1>7. OnlyLeftovers'
  BY <1>1, <1>3, <1>4 DEF IInv, OnlyLeftovers, Mistaken
<1>8. QuietPath' /\ OwnPlaces' /\ OwnIds'
  BY <1>1, <1>2, <1>3, <1>4 DEF QuietPath, OwnPlaces, OwnIds
<1>9. PairsMatch'
  BY <1>1, <1>3, <1>4 DEF IInv, PairsMatch, Connected, LaneOf
<1> QED
  BY <1>3, <1>5, <1>6, <1>7, <1>8, <1>9 DEF IInv

\* A client connects: it is a new connection.
LEMMA OpenPairKeeps ==
    ASSUME IInv, OpenPair
    PROVE  IInv'
<1>1. /\ UNCHANGED <<lanes, stage, at, probes, backlog, closed>>
      /\ UNCHANGED <<carrier, run, opened, next_conn, registry, mistaken, quiet>>
      /\ transit' = transit \cup {Mine} /\ pc = "open" /\ pc' = "accept" /\ carrier # "local"
      /\ This <= NConns
  BY DEF OpenPair, Connect
<1>2. Typed /\ NoTwice /\ closed \subseteq Out
  BY DEF IInv, OnlyLeftovers
<1>3. Lanes' = Lanes /\ Conns' = Conns /\ \A i : LaneOf(i)' = LaneOf(i)
  BY <1>1, SameLanes
<1>4. Waiting' = Waiting
  BY <1>1, <1>3 DEF Waiting
<1>5. Out' = Out \cup {Mine}
  BY <1>1, <1>4 DEF Out
<1>6. Mine' = Mine /\ This' = This /\ BeingOpened' = {Mine} /\ BeingOpened = {}
  BY <1>1, <1>3 DEF Mine, This, Client, Connection, BeingOpened, LaneOf
<1>7. PICK u \in Int : u = (run - 1) * NConns
  BY <1>2, MineTyped
<1>8. /\ LastClient = u + Len(opened) /\ LastClient' = u + Len(opened) + 1
      /\ Mine.n = u + Len(opened) + 1 /\ Mine.kind = "client" /\ Mine \in Conns
      /\ Len(opened) \in Nat
  <2>1. Len(opened) \in Nat /\ Mine.n = u + This /\ This = Len(opened) + 1
    BY <1>2, <1>7, MineTyped
  <2>2. Mine.kind = "client" /\ Mine \in Conns
    BY <1>2, MineTyped
  <2>3. Mine.n = u + Len(opened) + 1
    BY <2>1
  <2>4. LastClient = u + Len(opened) + 0 /\ LastClient' = u + Len(opened) + 1
    BY <1>1, <1>7 DEF LastClient
  <2> QED
    BY <2>1, <2>2, <2>3, <2>4
<1>9. \A c \in Out : c.n <= IF c.kind = "client" THEN LastClient ELSE probes[c.lane]
  BY DEF IInv, Numbered
<1>10. Mine \notin Out
  <2>1. ~(Mine.n <= LastClient)
    BY <1>8
  <2> QED
    BY <1>8, <1>9, <2>1
<1>11. Typed'
  BY <1>1, <1>2, <1>3, <1>8 DEF Typed
<1>12. NoTwice'
  BY <1>1, <1>2, <1>3, <1>4, <1>10 DEF NoTwice, Out
<1>13. Numbered'
  <2>1. ASSUME NEW c \in Out'
        PROVE  c.n <= IF c.kind = "client" THEN LastClient' ELSE probes[c.lane]
    <3>1. CASE c = Mine
      BY <1>8, <3>1
    <3>2. CASE c \in Out
      <4>1. c \in Conns
        BY <1>2, <3>2, OutTyped
      <4>2. c.n \in Int
        BY <4>1 DEF Conns
      <4>3. c.n <= IF c.kind = "client" THEN LastClient ELSE probes[c.lane]
        BY <1>9, <3>2
      <4> QED
        BY <1>8, <4>2, <4>3
    <3> QED
      BY <1>5, <3>1, <3>2
  <2> QED
    BY <1>1, <1>6, <2>1 DEF IInv, Numbered
<1>14. OnlyLeftovers'
  BY <1>1, <1>5, <1>6 DEF IInv, OnlyLeftovers, Mistaken
<1>15. QuietPath'
  BY <1>1, <1>5, <1>6 DEF IInv, QuietPath
<1>16. OwnPlaces' /\ OwnIds'
  BY <1>1 DEF OwnPlaces, OwnIds
<1>17. PairsMatch'
  BY <1>1, <1>3 DEF IInv, PairsMatch, Connected, LaneOf
<1> QED
  BY <1>11, <1>12, <1>13, <1>14, <1>15, <1>16, <1>17 DEF IInv

\* One more pair.
LEMMA AppendPair ==
    ASSUME Typed, NEW p \in [sink : Conns, source : Conns], opened' = Append(opened, p)
    PROVE  /\ opened' \in Seq([sink : Conns, source : Conns])
           /\ Len(opened) \in Nat /\ Len(opened') = Len(opened) + 1
           /\ DOMAIN opened = 1 .. Len(opened) /\ DOMAIN opened' = 1 .. Len(opened) + 1
           /\ \A i \in DOMAIN opened : opened'[i] = opened[i]
           /\ opened'[Len(opened) + 1] = p
<1>1. opened \in Seq([sink : Conns, source : Conns])
  BY DEF Typed
<1>2. /\ Append(opened, p) \in Seq([sink : Conns, source : Conns])
      /\ Len(Append(opened, p)) = Len(opened) + 1
      /\ \A i \in 1 .. Len(opened) : Append(opened, p)[i] = opened[i]
      /\ Append(opened, p)[Len(opened) + 1] = p
  BY <1>1, AppendProperties
<1> QED
  BY <1>1, <1>2

\* A live connection is taken: it is the client's own, or the lane is out of step.
LEMMA TakeKeeps ==
    ASSUME IInv, AcceptTakes
    PROVE  IInv'
<1>1. PICK l, c : l = LaneOf(This) /\ c = Head(backlog[l])
  OBVIOUS
<1>2. /\ pc = "accept" /\ backlog[l] # << >> /\ ~Skips(c) /\ Accept(l)
      /\ opened' = Append(opened, [sink |-> Mine, source |-> c])
      /\ mistaken' = (IF c \in closed \ eof THEN mistaken \cup {c} ELSE mistaken)
      /\ pc' = "open" /\ UNCHANGED <<carrier, run, next_conn, registry, quiet>>
  BY <1>1 DEF AcceptTakes
<1>3. Typed /\ NoTwice /\ closed \subseteq Out /\ l \in Lanes
  BY <1>1, MineTyped DEF IInv, OnlyLeftovers
<1>4. /\ c \in Waiting /\ c.lane = l /\ c \in Conns
      /\ backlog' \in [Lanes -> Seq(Conns)] /\ Out' = Out \ {c} /\ NoTwice'
      /\ UNCHANGED <<lanes, stage, at, probes, transit>>
      /\ closed' = closed \ {c}
  BY <1>1, <1>2, <1>3, AcceptOut
<1>5. Lanes' = Lanes /\ Conns' = Conns /\ \A i : LaneOf(i)' = LaneOf(i)
  BY <1>4, SameLanes
<1>6. Mine \in Conns /\ Mine.lane = l /\ This = Len(opened) + 1 /\ Len(opened) \in Nat
  BY <1>1, <1>3, MineTyped
<1>7. [sink |-> Mine, source |-> c] \in [sink : Conns, source : Conns]
  BY <1>4, <1>6
<1>8. /\ opened' \in Seq([sink : Conns, source : Conns])
      /\ Len(opened') = Len(opened) + 1
      /\ DOMAIN opened = 1 .. Len(opened) /\ DOMAIN opened' = 1 .. Len(opened) + 1
      /\ \A i \in DOMAIN opened : opened'[i] = opened[i]
      /\ opened'[Len(opened) + 1] = [sink |-> Mine, source |-> c]
  BY <1>2, <1>3, <1>7, AppendPair
<1>9. c \in Out /\ (c \in (closed \cup BeingOpened) \/ Mistaken(l))
  BY <1>4 DEF IInv, OnlyLeftovers, Out
<1>10. BeingOpened = {Mine} /\ BeingOpened' = {} /\ carrier # "local" /\ stage = "ready"
  BY <1>2 DEF BeingOpened, IInv, OwnPlaces, QuietPath
<1>11. mistaken \subseteq mistaken' /\ (c \in closed => c \in mistaken')
  BY <1>2 DEF Skips
<1>12. \A k : Mistaken(k) => Mistaken(k)'
  BY <1>11 DEF Mistaken
<1>13. c = Mine \/ Mistaken(l)'
  <2>1. CASE c \in closed
    BY <1>4, <1>11, <2>1 DEF Mistaken
  <2> QED
    BY <1>9, <1>10, <1>12, <2>1
<1>14. Typed'
  BY <1>2, <1>3, <1>4, <1>5, <1>8 DEF Typed
<1>15. Numbered'
  <2>1. LastClient' = LastClient
    <3>1. PICK u \in Int : u = (run - 1) * NConns
      BY <1>3, MineTyped
    <3>2. LastClient = u + Len(opened) + 1 /\ LastClient' = u + Len(opened') + 0
      BY <1>2, <3>1 DEF LastClient
    <3> QED
      BY <1>6, <1>8, <3>2
  <2>2. Len(opened') <= NConns
    BY <1>2, <1>6, <1>8 DEF IInv, Numbered
  <2> QED
    BY <1>2, <1>4, <2>1, <2>2 DEF IInv, Numbered
<1>16. OnlyLeftovers'
  <2>1. closed' \subseteq Out'
    BY <1>3, <1>4
  <2>2. ASSUME NEW x \in Out'
        PROVE  x \in closed' \/ Mistaken(x.lane)'
    <3>1. x \in Out /\ x # c
      BY <1>4
    <3>2. x \in closed \/ x = Mine \/ Mistaken(x.lane)
      BY <1>10, <3>1 DEF IInv, OnlyLeftovers
    <3> QED
      BY <1>4, <1>6, <1>12, <1>13, <3>1, <3>2
  <2> QED
    BY <2>1, <2>2 DEF OnlyLeftovers, Mistaken
<1>17. QuietPath'
  <2>1. ASSUME carrier # "tproxy", quiet
        PROVE  closed' = {} /\ Out' = {}
    <3>1. closed = {} /\ Out \subseteq {Mine} /\ c \in Out
      BY <1>2, <1>4, <1>10, <2>1 DEF IInv, QuietPath, Out
    <3> QED
      BY <1>4, <3>1
  <2> QED
    BY <1>2, <1>4, <1>10, <2>1 DEF QuietPath
<1>18. OwnPlaces' /\ OwnIds'
  BY <1>2, <1>10 DEF OwnPlaces, OwnIds
<1>19. PairsMatch'
  <2>1. ASSUME NEW i \in DOMAIN opened'
        PROVE  opened'[i].sink = opened'[i].source \/ Mistaken(LaneOf(i))'
    <3>1. CASE i \in DOMAIN opened
      <4>1. opened[i].sink = opened[i].source \/ Mistaken(LaneOf(i))
        BY <1>10, <3>1 DEF IInv, PairsMatch, Connected, Mistaken
      <4> QED
        BY <1>5, <1>8, <1>12, <3>1, <4>1
    <3>2. CASE i = Len(opened) + 1
      BY <1>1, <1>5, <1>6, <1>8, <1>13, <3>2
    <3> QED
      BY <1>8, <3>1, <3>2
  <2>2. carrier # "tproxy" /\ quiet => mistaken' = {}
    BY <1>2, <1>10 DEF IInv, QuietPath, PairsMatch
  <2> QED
    BY <1>2, <1>10, <2>1, <2>2 DEF PairsMatch, Connected, Mistaken
<1> QED
  BY <1>4, <1>14, <1>15, <1>16, <1>17, <1>18, <1>19 DEF IInv

\* The pairs are open, and the traffic starts.
LEMMA RunTrafficKeeps ==
    ASSUME IInv, RunTraffic
    PROVE  IInv'
<1>1. /\ UNCHANGED <<lanes, stage, at, probes, transit, backlog, closed>>
      /\ UNCHANGED <<carrier, run, opened, next_conn, registry, mistaken, quiet>>
      /\ pc = "open" /\ pc' = "traffic"
  BY DEF RunTraffic, pathVars
<1>2. Typed /\ NoTwice
  BY DEF IInv
<1>3. /\ NoTwice' /\ Out' = Out /\ Lanes' = Lanes /\ Conns' = Conns
      /\ \A i : LaneOf(i)' = LaneOf(i)
  BY <1>1, <1>2, OutKept, SameLanes
<1>4. LastClient' = LastClient /\ BeingOpened' = {} /\ BeingOpened = {}
  BY <1>1 DEF LastClient, BeingOpened
<1>5. Typed'
  BY <1>1, <1>2, <1>3 DEF Typed
<1>6. Numbered'
  BY <1>1, <1>3, <1>4 DEF IInv, Numbered
<1>7. OnlyLeftovers'
  BY <1>1, <1>3, <1>4 DEF IInv, OnlyLeftovers, Mistaken
<1>8. QuietPath' /\ OwnPlaces' /\ OwnIds'
  BY <1>1, <1>3, <1>4 DEF IInv, QuietPath, OwnPlaces, OwnIds
<1>9. PairsMatch'
  BY <1>1, <1>3 DEF IInv, PairsMatch, Connected, LaneOf
<1> QED
  BY <1>3, <1>5, <1>6, <1>7, <1>8, <1>9 DEF IInv

\* A run ends: its clients are closed, also those that are still on their way.
LEMMA EndRunKeeps ==
    ASSUME IInv, EndRun
    PROVE  IInv'
<1>1. PICK cs : closed' = closed \cup (cs \cap Out)
  BY DEF EndRun, CloseAll, Out
<1>2. /\ UNCHANGED <<lanes, stage, at, probes, transit, backlog>>
      /\ UNCHANGED <<carrier, next_conn, registry, mistaken, quiet>>
      /\ pc = "traffic"
      /\ \/ pc' = "over" /\ UNCHANGED <<run, opened>>
         \/ pc' = "open" /\ run' = run + 1 /\ opened' = << >>
  BY DEF EndRun, CloseAll
<1>3. Typed /\ NoTwice /\ closed \subseteq Out
  BY DEF IInv, OnlyLeftovers
<1>4. /\ NoTwice' /\ Out' = Out /\ Lanes' = Lanes /\ Conns' = Conns
      /\ \A i : LaneOf(i)' = LaneOf(i)
  BY <1>2, <1>3, OutKept, SameLanes
<1>5. BeingOpened' = {} /\ BeingOpened = {}
  BY <1>2 DEF BeingOpened
<1>6. Len(opened) \in Nat /\ Len(opened) <= NConns /\ NConns \in Nat /\ run \in Nat \ {0}
  BY <1>3, MineTyped, EndpointsAssumption DEF IInv, Numbered, Typed
<1>7. /\ run' \in Nat \ {0} /\ opened' \in Seq([sink : Conns, source : Conns])
      /\ Len(opened') <= NConns
  <2>1. CASE pc' = "over" /\ UNCHANGED <<run, opened>>
    BY <1>3, <1>6, <2>1 DEF Typed
  <2>2. CASE pc' = "open" /\ run' = run + 1 /\ opened' = << >>
    <3>1. run + 1 \in Nat \ {0}
      BY <1>6
    <3>2. << >> \in Seq([sink : Conns, source : Conns]) /\ Len(<< >>) = 0
      BY EmptySeq
    <3>3. Len(opened') = 0 /\ 0 <= NConns
      BY <1>6, <2>2, <3>2
    <3> QED
      BY <2>2, <3>1, <3>2, <3>3
  <2> QED
    BY <1>2, <2>1, <2>2
<1>8. LastClient \in Int /\ LastClient' \in Int /\ LastClient <= LastClient'
  <2>1. PICK u \in Int : u = (run - 1) * NConns
    BY <1>3, MineTyped
  <2>2. LastClient = u + Len(opened) + 0
    BY <1>2, <2>1 DEF LastClient
  <2>3. CASE pc' = "over" /\ UNCHANGED <<run, opened>>
    BY <1>2, <1>6, <2>1, <2>2, <2>3 DEF LastClient
  <2>4. CASE pc' = "open" /\ run' = run + 1 /\ opened' = << >>
    <3>1. (run' - 1) * NConns = u + NConns
      <4>1. run' - 1 = (run - 1) + 1
        BY <1>6, <2>4
      <4>2. ((run - 1) + 1) * NConns = (run - 1) * NConns + NConns
        BY <1>6
      <4> QED
        BY <2>1, <4>1, <4>2
    <3>2. LastClient' = u + NConns + 0 + 0
      BY <2>4, <3>1 DEF LastClient
    <3> QED
      BY <1>6, <2>2, <3>2
  <2> QED
    BY <1>2, <2>3, <2>4
<1>9. Typed'
  BY <1>2, <1>3, <1>4, <1>7 DEF Typed
<1>10. Numbered'
  <2>1. ASSUME NEW c \in Out
        PROVE  c.n <= IF c.kind = "client" THEN LastClient' ELSE probes[c.lane]
    <3>1. c \in Conns
      BY <1>3, OutTyped
    <3>2. c.n \in Int
      BY <3>1 DEF Conns
    <3>3. c.n <= IF c.kind = "client" THEN LastClient ELSE probes[c.lane]
      BY DEF IInv, Numbered
    <3> QED
      BY <1>8, <3>2, <3>3
  <2> QED
    BY <1>2, <1>4, <1>7, <2>1 DEF Numbered
<1>11. OnlyLeftovers'
  BY <1>1, <1>2, <1>3, <1>4, <1>5 DEF IInv, OnlyLeftovers, Mistaken
<1>12. QuietPath' /\ OwnPlaces' /\ OwnIds'
  BY <1>1, <1>2, <1>4, <1>5 DEF IInv, QuietPath, OwnPlaces, OwnIds
<1>13. PairsMatch'
  <2>1. CASE UNCHANGED opened
    BY <1>2, <1>4, <2>1 DEF IInv, PairsMatch, Connected, LaneOf
  <2>2. CASE opened' = << >>
    <3>1. DOMAIN opened' = {}
      BY <2>2
    <3> QED
      BY <1>2, <3>1 DEF IInv, PairsMatch
  <2> QED
    BY <1>2, <2>1, <2>2
<1> QED
  BY <1>4, <1>9, <1>10, <1>11, <1>12, <1>13 DEF IInv

\* A pipeline's first endpoint: its id is new, so nobody's endpoint is dropped.
LEMMA CreateDecryptKeeps ==
    ASSUME IInv, CreateDecrypt
    PROVE  IInv'
<1>1. /\ UNCHANGED <<lanes, stage, at, probes, transit, backlog, closed>>
      /\ UNCHANGED <<carrier, run, opened, mistaken, quiet>>
      /\ pc = "open" /\ carrier = "local" /\ This <= NConns /\ pc' = "encrypt"
      /\ next_conn' = next_conn + 1
      /\ registry' = {e \in registry : e.app # next_conn \/ e.direction # "decrypt"}
                       \cup {[app |-> next_conn, direction |-> "decrypt", owner |-> Mine]}
  BY DEF CreateDecrypt, Register, conn_app_id, pathVars
<1>2. Typed /\ NoTwice /\ next_conn \in Nat
  BY DEF IInv, Typed
<1>3. /\ NoTwice' /\ Out' = Out /\ Lanes' = Lanes /\ Conns' = Conns
      /\ \A i : LaneOf(i)' = LaneOf(i)
  BY <1>1, <1>2, OutKept, SameLanes
<1>4. LastClient' = LastClient /\ BeingOpened' = {} /\ BeingOpened = {} /\ This' = This /\ Mine' = Mine
  BY <1>1, <1>3 DEF LastClient, BeingOpened, This, Mine, Client, Connection, LaneOf
<1>5. \A e \in registry : e.app \in Nat /\ e.app < next_conn
  BY <1>1 DEF IInv, OwnIds
<1>6. \A e \in registry : e.app # next_conn
  BY <1>2, <1>5
<1>7. registry \subseteq registry'
  BY <1>1, <1>6
<1>8. OwnIds'
  <2>1. ASSUME NEW e \in registry'
        PROVE  /\ e.app \in Nat /\ e.app < next_conn + 1
               /\ e.direction = "encrypt" => e.app # next_conn
    <3>1. CASE e \in registry
      BY <1>2, <1>5, <1>6, <3>1
    <3>2. CASE e = [app |-> next_conn, direction |-> "decrypt", owner |-> Mine]
      BY <1>2, <3>2
    <3> QED
      BY <1>1, <3>1, <3>2
  <2>2. \E e \in registry' : e.direction = "decrypt" /\ e.owner = Mine
    <3>1. [app |-> next_conn, direction |-> "decrypt", owner |-> Mine] \in registry'
      BY <1>1
    <3> QED
      BY <3>1
  <2>3. next_conn' - 1 = next_conn
    BY <1>1, <1>2
  <2> QED
    BY <1>1, <1>4, <2>1, <2>2, <2>3 DEF OwnIds
<1>9. Typed'
  BY <1>1, <1>2, <1>3 DEF Typed
<1>10. Numbered'
  BY <1>1, <1>3, <1>4 DEF IInv, Numbered
<1>11. OnlyLeftovers'
  BY <1>1, <1>3, <1>4 DEF IInv, OnlyLeftovers, Mistaken
<1>12. QuietPath' /\ OwnPlaces'
  BY <1>1, <1>3, <1>4 DEF IInv, QuietPath, OwnPlaces
<1>13. PairsMatch'
  <2>1. ASSUME NEW i \in DOMAIN opened
        PROVE  Connected(opened[i])'
    <3>1. Connected(opened[i])
      BY <1>1 DEF IInv, PairsMatch
    <3> QED
      BY <1>1, <1>7, <3>1 DEF Connected
  <2> QED
    BY <1>1, <2>1 DEF IInv, PairsMatch
<1> QED
  BY <1>3, <1>8, <1>9, <1>10, <1>11, <1>12, <1>13 DEF IInv

\* Its second endpoint completes the pair.
LEMMA CreateEncryptKeeps ==
    ASSUME IInv, CreateEncrypt
    PROVE  IInv'
<1>1. /\ UNCHANGED <<lanes, stage, at, probes, transit, backlog, closed>>
      /\ UNCHANGED <<carrier, run, next_conn, mistaken, quiet>>
      /\ pc = "encrypt" /\ pc' = "open"
      /\ registry' = {e \in registry : e.app # next_conn - 1 \/ e.direction # "encrypt"}
                       \cup {[app |-> next_conn - 1, direction |-> "encrypt", owner |-> Mine]}
      /\ opened' = Append(opened, [sink |-> Mine, source |-> Mine])
  BY DEF CreateEncrypt, Register, conn_app_id, pathVars
<1>2. Typed /\ NoTwice /\ next_conn \in Nat
  BY DEF IInv, Typed
<1>3. carrier = "local" /\ mistaken = {} /\ Out = {}
  BY <1>1 DEF IInv, OwnPlaces
<1>4. /\ NoTwice' /\ Out' = Out /\ Lanes' = Lanes /\ Conns' = Conns
      /\ \A i : LaneOf(i)' = LaneOf(i)
  BY <1>1, <1>2, OutKept, SameLanes
<1>5. Mine \in Conns /\ This = Len(opened) + 1 /\ Len(opened) \in Nat
  BY <1>2, MineTyped
<1>6. [sink |-> Mine, source |-> Mine] \in [sink : Conns, source : Conns]
  BY <1>5
<1>7. /\ opened' \in Seq([sink : Conns, source : Conns])
      /\ Len(opened') = Len(opened) + 1
      /\ DOMAIN opened = 1 .. Len(opened) /\ DOMAIN opened' = 1 .. Len(opened) + 1
      /\ \A i \in DOMAIN opened : opened'[i] = opened[i]
      /\ opened'[Len(opened) + 1] = [sink |-> Mine, source |-> Mine]
  BY <1>1, <1>2, <1>6, AppendPair
<1>8. /\ \A e \in registry : e.app \in Nat /\ e.app < next_conn
      /\ \A e \in registry : e.direction = "encrypt" => e.app # next_conn - 1
      /\ \E e \in registry : e.direction = "decrypt" /\ e.owner = Mine
  BY <1>1, <1>3 DEF IInv, OwnIds
<1>9. registry \subseteq registry'
  BY <1>1, <1>8
<1>10. next_conn - 1 \in Nat
  BY <1>2, <1>8
<1>11. \A d \in {"encrypt", "decrypt"} : \E e \in registry' : e.direction = d /\ e.owner = Mine
  BY <1>1, <1>8, <1>9
<1>12. OwnIds'
  <2>1. ASSUME NEW e \in registry'
        PROVE  e.app \in Nat /\ e.app < next_conn
    <3>1. CASE e \in registry
      BY <1>8, <3>1
    <3>2. CASE e = [app |-> next_conn - 1, direction |-> "encrypt", owner |-> Mine]
      BY <1>2, <1>10, <3>2
    <3> QED
      BY <1>1, <3>1, <3>2
  <2> QED
    BY <1>1, <2>1 DEF OwnIds
<1>13. Typed'
  BY <1>1, <1>2, <1>4, <1>7 DEF Typed
<1>14. Numbered'
  <2>1. Len(opened') <= NConns
    BY <1>1, <1>5, <1>7 DEF IInv, Numbered
  <2> QED
    BY <1>1, <1>3, <1>4, <2>1 DEF Numbered
<1>15. OnlyLeftovers' /\ QuietPath' /\ OwnPlaces'
  BY <1>1, <1>3, <1>4 DEF IInv, OnlyLeftovers, QuietPath, OwnPlaces
<1>16. PairsMatch'
  <2>1. ASSUME NEW i \in DOMAIN opened'
        PROVE  Connected(opened[i])'
    <3>1. CASE i \in DOMAIN opened
      <4>1. Connected(opened[i])
        BY <1>3, <3>1 DEF IInv, PairsMatch
      <4>2. opened'[i] = opened[i]
        BY <1>7, <3>1
      <4> QED
        BY <1>1, <1>3, <1>9, <4>1, <4>2 DEF Connected
    <3>2. CASE i = Len(opened) + 1
      <4>1. opened'[i].sink = Mine
        BY <1>7, <3>2
      <4> QED
        BY <1>1, <1>3, <1>11, <4>1 DEF Connected
    <3> QED
      BY <1>7, <3>1, <3>2
  <2> QED
    BY <1>1, <1>3, <2>1 DEF PairsMatch, Connected
<1> QED
  BY <1>4, <1>12, <1>13, <1>14, <1>15, <1>16 DEF IInv

\* Before the path starts there is nothing on its way and no pair.
LEMMA InitIInv == PairsInit => IInv
<1> SUFFICES ASSUME PairsInit PROVE IInv
  OBVIOUS
<1> USE EndpointsAssumption
<1>1. /\ lanes \in Nat \ {0} /\ at = 1 /\ transit = {} /\ closed = {}
      /\ probes = [l \in Lanes |-> 0] /\ backlog = [l \in Lanes |-> << >>]
      /\ stage = IF carrier = "local" THEN "ready" ELSE "starting"
      /\ carrier \in {"tcp", "classes", "tproxy", "local"}
      /\ pc = IF carrier = "local" THEN "open" ELSE "path"
      /\ run = 1 /\ opened = << >> /\ next_conn = 0
      /\ registry = {} /\ mistaken = {} /\ quiet = TRUE
  BY DEF PairsInit, PathInit
<1>2. \A l \in Lanes : backlog[l] = << >> /\ DOMAIN backlog[l] = {}
  BY <1>1
<1>3. Waiting = {} /\ Out = {}
  BY <1>1, <1>2, InWaiting DEF Out
<1>4. Typed
  <2>1. at \in Lanes
    BY <1>1 DEF Lanes
  <2>2. << >> \in Seq(Conns) /\ << >> \in Seq([sink : Conns, source : Conns])
    BY EmptySeq
  <2>3. backlog \in [Lanes -> Seq(Conns)] /\ probes \in [Lanes -> Nat]
    BY <1>1, <2>2
  <2> QED
    BY <1>1, <2>1, <2>2, <2>3 DEF Typed
<1>5. NoTwice
  BY <1>1, <1>2, <1>3 DEF NoTwice
<1>6. Len(opened) = 0 /\ DOMAIN opened = {}
  BY <1>1
<1>7. Numbered
  BY <1>1, <1>3, <1>6 DEF Numbered
<1>8. OnlyLeftovers /\ QuietPath /\ OwnPlaces /\ OwnIds
  BY <1>1, <1>3 DEF OnlyLeftovers, QuietPath, OwnPlaces, OwnIds
<1>9. PairsMatch
  BY <1>1, <1>6 DEF PairsMatch
<1> QED
  BY <1>4, <1>5, <1>7, <1>8, <1>9 DEF IInv

\* Every step of the harness or the gateway.
LEMMA NextIInv == IInv /\ [PairsNext]_<<pathVars, pairVars>> => IInv'
<1> SUFFICES ASSUME IInv, [PairsNext]_<<pathVars, pairVars>> PROVE IInv'
  OBVIOUS
<1>1. CASE pc = "path" /\ Starting(carrier # "tproxy") /\ UNCHANGED pairVars
  BY <1>1, StartingKeeps
<1>2. CASE Ready
  BY <1>2, ReadyKeeps
<1>3. CASE NotReady \/ ConnectFails \/ AcceptRefuses \/ AcceptTimesOut \/ CreateFails
  BY <1>3, FailuresKeep
<1>4. CASE OpenPair
  BY <1>4, OpenPairKeeps
<1>5. CASE AcceptSkips
  BY <1>5, SkipKeeps
<1>6. CASE AcceptTakes
  BY <1>6, TakeKeeps
<1>7. CASE CreateDecrypt
  BY <1>7, CreateDecryptKeeps
<1>8. CASE CreateEncrypt
  BY <1>8, CreateEncryptKeeps
<1>9. CASE RunTraffic
  BY <1>9, RunTrafficKeeps
<1>10. CASE EndRun
  BY <1>10, EndRunKeeps
<1>11. CASE Gateway /\ UNCHANGED pairVars
  BY <1>11, GatewayKeeps
<1>12. CASE UNCHANGED <<pathVars, pairVars>>
  <2>1. UNCHANGED <<lanes, stage, at, probes, transit, backlog, closed>> /\ UNCHANGED pairVars
    BY <1>12 DEF pathVars
  <2>2. Typed /\ NoTwice /\ closed \subseteq Out /\ at \in Lanes /\ backlog \in [Lanes -> Seq(Conns)]
    BY DEF IInv, OnlyLeftovers, Typed
  <2>3. NoTwice' /\ Out' = Out
    BY <2>1, <2>2, OutKept
  <2> QED
    BY <2>1, <2>2, <2>3, PathKeeps
<1> QED
  BY <1>1, <1>2, <1>3, <1>4, <1>5, <1>6, <1>7, <1>8, <1>9, <1>10, <1>11, <1>12
     DEF PairsNext, Harness

\* Over all runs of a transport every sender is connected to its own receiver
\* (accept_forwarded, loopback_pair, conn_app_id), unless a readiness probe that the drain
\* missed was taken for live on the same lane; a TCP path that was drained has none.
THEOREM PairsAlwaysMatch == PairsSpec => []PairsMatch
<1>1. IInv => PairsMatch
  BY DEF IInv
<1> QED
  BY <1>1, InitIInv, NextIInv, PTL DEF PairsSpec

-----------------------------------------------------------------------------
(***************************************************************************)
(* The pool of local pipelines.  provisioned_pipelines lays out one rule   *)
(* pair for every connection of every run, and loopback_pair hands them    *)
(* out with a counter that is never reset.                                 *)
(***************************************************************************)
\* The runs find a pipeline for every connection, and leave none: what is opened on the
\* transport after them (a saturation sweep) finds the pool empty.
PipelinesUsedUp ==
    carrier = "local" =>
        /\ pc = "open" /\ This <= NConns => next_conn < Pipelines
        /\ pc = "over" => next_conn = Pipelines

\* Pipelines handed out when the current pair is number Len(opened) + 1.
HandedOut == (run - 1) * NConns + Len(opened) + (IF pc = "encrypt" THEN 1 ELSE 0)

\* Pipelines are handed out one by one, over all the runs.
PoolInv ==
    /\ run \in 1 .. Runs
    /\ next_conn \in 0 .. Pipelines
    /\ carrier = "local" /\ pc # "failed" => next_conn = HandedOut
    /\ pc \in {"traffic", "over"} => Len(opened) = NConns
    /\ pc = "over" => run = Runs

\* The pipelines of the first runs.
LEMMA RunsFit ==
    ASSUME NEW r \in Nat \ {0}, NEW all \in Nat, r <= all
    PROVE  /\ (r - 1) * NConns \in Nat
           /\ (r - 1) * NConns + NConns <= NConns * all
           /\ (r - 1) * NConns + NConns = ((r + 1) - 1) * NConns
           /\ r = all => (r - 1) * NConns + NConns = NConns * all
<1>1. NConns \in Nat
  BY EndpointsAssumption
<1>2. PICK d \in Nat : all = r + d
  <2>1. all - r \in Nat /\ all = r + (all - r)
    OBVIOUS
  <2> QED
    BY <2>1
<1>3. PICK e \in Nat : r = e + 1
  <2>1. r - 1 \in Nat /\ r = (r - 1) + 1
    OBVIOUS
  <2> QED
    BY <2>1
<1>4. e * NConns \in Nat /\ d * NConns \in Nat
  BY <1>1, <1>2, <1>3
<1>5. (e + 1) * NConns = e * NConns + NConns /\ NConns * (r + d) = (e + 1) * NConns + d * NConns
  BY <1>1, <1>2, <1>3
<1>6. r - 1 = e /\ (r + 1) - 1 = e + 1 /\ (r = all => d = 0)
  BY <1>2, <1>3
<1>7. 0 * NConns = 0
  BY <1>1
<1> DEFINE x == e * NConns  y == d * NConns  z == NConns * all  w == (e + 1) * NConns
<1>8. /\ x \in Nat /\ y \in Nat /\ w = x + NConns /\ z = w + y
      /\ (r - 1) * NConns = x /\ ((r + 1) - 1) * NConns = w /\ (r = all => y = 0)
  BY <1>2, <1>4, <1>5, <1>6, <1>7
<1> HIDE DEF x, y, z, w
<1>9. /\ x \in Nat /\ x + NConns <= z /\ x + NConns = w /\ (r = all => x + NConns = z)
  BY <1>1, <1>8
<1> QED
  BY <1>8, <1>9 DEF z

\* What the invariant says of the counter.
LEMMA PoolFits ==
    ASSUME IInv, PoolInv
    PROVE  /\ Len(opened) \in Nat /\ Len(opened) <= NConns /\ NConns \in Nat \ {0}
           /\ Runs \in Nat \ {0} /\ Pipelines \in Nat /\ run \in Nat \ {0}
           /\ (run - 1) * NConns \in Nat
           /\ (run - 1) * NConns + NConns <= Pipelines
           /\ (run - 1) * NConns + NConns = ((run + 1) - 1) * NConns
           /\ run = NRuns => (run - 1) * NConns + NConns = Pipelines
<1>1. Len(opened) \in Nat /\ Len(opened) <= NConns /\ NConns \in Nat \ {0} /\ NRuns \in Nat \ {0}
  BY MineTyped, EndpointsAssumption DEF IInv, Numbered
<1>2. Runs \in Nat \ {0} /\ Runs <= NRuns
  BY <1>1 DEF Runs
<1>3. run \in Nat \ {0} /\ run <= NRuns
  BY <1>1, <1>2 DEF PoolInv
<1>4. Pipelines = NConns * NRuns
  BY DEF Pipelines
<1>5. Pipelines \in Nat
  BY <1>1, <1>4
<1> QED
  BY <1>1, <1>2, <1>3, <1>4, <1>5, RunsFit

\* A step that hands nothing out.
LEMMA PoolKept ==
    ASSUME IInv, PoolInv, UNCHANGED <<carrier, run, opened, next_conn>>,
           \/ pc' = "failed"
           \/ pc # "failed" /\ pc # "encrypt" /\ pc' \notin {"encrypt", "traffic", "over"}
           \/ pc' = pc
    PROVE  PoolInv'
<1>1. Runs' = Runs /\ Pipelines' = Pipelines
  BY DEF Runs, Pipelines
<1>2. CASE pc' = "failed"
  BY <1>1, <1>2 DEF PoolInv
<1>3. CASE pc # "failed" /\ pc # "encrypt" /\ pc' \notin {"encrypt", "traffic", "over"}
  BY <1>1, <1>3 DEF PoolInv, HandedOut
<1>4. CASE pc' = pc
  BY <1>1, <1>4 DEF PoolInv, HandedOut
<1> QED
  BY <1>2, <1>3, <1>4

\* The steps that move the counter, the pairs or the run.
LEMMA PoolMoves ==
    ASSUME IInv, PoolInv, AcceptTakes \/ CreateDecrypt \/ CreateEncrypt \/ RunTraffic \/ EndRun
    PROVE  PoolInv'
<1> DEFINE base == (run - 1) * NConns
           n == Len(opened)
<1>1. /\ n \in Nat /\ n <= NConns /\ NConns \in Nat \ {0}
      /\ Runs \in Nat \ {0} /\ Pipelines \in Nat /\ run \in Nat \ {0} /\ run <= Runs
      /\ base \in Nat /\ base + NConns <= Pipelines
      /\ base + NConns = ((run + 1) - 1) * NConns
  BY PoolFits DEF PoolInv
<1>2. Pipelines' = Pipelines
  BY DEF Pipelines
<1>3. /\ run \in 1 .. Runs /\ next_conn \in 0 .. Pipelines
      /\ carrier = "local" /\ pc # "failed" =>
            next_conn = base + n + (IF pc = "encrypt" THEN 1 ELSE 0)
  BY DEF PoolInv, HandedOut
<1>4. CASE AcceptTakes
  <2>1. pc = "accept" /\ pc' = "open" /\ UNCHANGED <<carrier, run, next_conn>>
    BY <1>4 DEF AcceptTakes
  <2>2. carrier # "local"
    BY <2>1 DEF IInv, OwnPlaces
  <2> QED
    BY <1>2, <1>3, <2>1, <2>2 DEF PoolInv, Runs
<1>5. CASE CreateDecrypt
  <2>1. /\ pc = "open" /\ pc' = "encrypt" /\ carrier = "local" /\ next_conn < Pipelines
        /\ next_conn' = next_conn + 1 /\ UNCHANGED <<carrier, run, opened>>
    BY <1>5 DEF CreateDecrypt
  <2>2. next_conn' = base + n + 1 /\ next_conn' \in 0 .. Pipelines
    <3> HIDE DEF base, n
    <3> QED
      BY <1>1, <1>3, <2>1
  <2> QED
    BY <1>2, <1>3, <2>1, <2>2 DEF PoolInv, Runs, HandedOut
<1>6. CASE CreateEncrypt
  <2>1. /\ pc = "encrypt" /\ pc' = "open" /\ UNCHANGED <<carrier, run, next_conn>>
        /\ opened' = Append(opened, [sink |-> Mine, source |-> Mine])
    BY <1>6 DEF CreateEncrypt
  <2>2. carrier = "local"
    BY <2>1 DEF IInv, OwnPlaces
  <2>3. Len(opened') = n + 1
    BY <2>1, AppendProperties DEF IInv, Typed
  <2>4. next_conn' = base + Len(opened') + 0
    <3> HIDE DEF base, n
    <3> QED
      BY <1>1, <1>3, <2>1, <2>2, <2>3
  <2> QED
    BY <1>2, <1>3, <2>1, <2>4 DEF PoolInv, Runs, HandedOut
<1>7. CASE RunTraffic
  <2>1. /\ pc = "open" /\ This > NConns /\ pc' = "traffic"
        /\ UNCHANGED <<carrier, run, opened, next_conn>>
    BY <1>7 DEF RunTraffic
  <2>2. n = NConns
    <3>1. n + 1 > NConns
      BY <2>1 DEF This
    <3> HIDE DEF n
    <3> QED
      BY <1>1, <3>1
  <2> QED
    BY <1>2, <1>3, <2>1, <2>2 DEF PoolInv, Runs, HandedOut
<1>8. CASE EndRun
  <2>1. pc = "traffic" /\ UNCHANGED <<carrier, next_conn>>
    BY <1>8 DEF EndRun
  <2>2. n = NConns /\ (carrier = "local" => next_conn = base + n + 0)
    BY <1>3, <2>1 DEF PoolInv
  <2>3. CASE run = Runs
    <3>1. pc' = "over" /\ UNCHANGED <<run, opened>>
      BY <1>8, <2>3 DEF EndRun
    <3> QED
      BY <1>2, <1>3, <2>1, <2>2, <2>3, <3>1 DEF PoolInv, Runs, HandedOut
  <2>4. CASE run # Runs
    <3>1. pc' = "open" /\ run' = run + 1 /\ opened' = << >>
      BY <1>8, <2>4 DEF EndRun
    <3>2. Runs' = Runs
      BY <2>1 DEF Runs
    <3>3. run + 1 \in 1 .. Runs
      BY <1>1, <2>4
    <3>4. Len(opened') = 0
      BY <3>1
    <3>5. carrier = "local" => next_conn = ((run + 1) - 1) * NConns + 0 + 0
      <4> DEFINE up == ((run + 1) - 1) * NConns
      <4>1. up = base + NConns
        BY <1>1
      <4> HIDE DEF base, n, up
      <4>2. carrier = "local" => next_conn = up + 0 + 0
        BY <1>1, <2>2, <4>1
      <4> QED
        BY <4>2 DEF up
    <3>6. carrier' = "local" => next_conn' = HandedOut'
      BY <2>1, <3>1, <3>4, <3>5 DEF HandedOut
    <3> QED
      BY <1>2, <1>3, <2>1, <3>1, <3>2, <3>3, <3>6 DEF PoolInv
  <2> QED
    BY <2>3, <2>4
<1> QED
  BY <1>4, <1>5, <1>6, <1>7, <1>8

\* The pool and the type invariant, throughout.
LEMMA PoolAlways == PairsSpec => [](IInv /\ PoolInv)
<1>1. PairsInit => PoolInv
  <2> SUFFICES ASSUME PairsInit PROVE PoolInv
    OBVIOUS
  <2>1. /\ run = 1 /\ opened = << >> /\ next_conn = 0
        /\ pc = IF carrier = "local" THEN "open" ELSE "path"
    BY DEF PairsInit
  <2>2. NConns \in Nat \ {0} /\ Runs \in Nat \ {0} /\ NRuns \in Nat \ {0}
    BY EndpointsAssumption DEF Runs
  <2>3. Pipelines \in Nat /\ (1 - 1) * NConns = 0 /\ Len(opened) = 0
    BY <2>1, <2>2 DEF Pipelines
  <2>4. HandedOut = 0
    BY <2>1, <2>3 DEF HandedOut
  <2> QED
    BY <2>1, <2>2, <2>3, <2>4 DEF PoolInv
<1>2. IInv /\ PoolInv /\ [PairsNext]_<<pathVars, pairVars>> => PoolInv'
  <2> SUFFICES ASSUME IInv, PoolInv, [PairsNext]_<<pathVars, pairVars>> PROVE PoolInv'
    OBVIOUS
  <2>1. CASE AcceptTakes \/ CreateDecrypt \/ CreateEncrypt \/ RunTraffic \/ EndRun
    BY <2>1, PoolMoves
  <2>2. CASE UNCHANGED pairVars
    BY <2>2, PoolKept DEF pairVars
  <2>3. CASE Ready \/ OpenPair
    BY <2>3, PoolKept DEF Ready, OpenPair
  <2>4. CASE NotReady \/ ConnectFails \/ AcceptRefuses \/ AcceptTimesOut \/ CreateFails
    BY <2>4, PoolKept DEF NotReady, ConnectFails, AcceptRefuses, AcceptTimesOut, CreateFails, Fail
  <2> QED
    BY <2>1, <2>2, <2>3, <2>4 DEF PairsNext, Harness, AcceptSkips, pairVars
<1> QED
  BY <1>1, <1>2, InitIInv, NextIInv, PTL DEF PairsSpec

\* The pairs, runs and pipelines keep their types, for any number of them.
THEOREM TypeCorrect == PairsSpec => []PairsTypeOK
<1>1. IInv /\ PoolInv => PairsTypeOK
  <2> SUFFICES ASSUME IInv, PoolInv PROVE PairsTypeOK
    OBVIOUS
  <2>1. /\ Len(opened) <= NConns /\ NRuns \in Nat \ {0} /\ Pipelines \in Nat
        /\ Pipelines = NConns * NRuns
    BY PoolFits, EndpointsAssumption DEF Pipelines
  <2>2. run \in 1 .. NRuns
    BY <2>1 DEF PoolInv, Runs
  <2>3. next_conn \in 0 .. Pipelines
    BY <2>1 DEF PoolInv
  <2>4. pc \in {"path", "open", "accept", "encrypt", "traffic", "over", "failed"}
    BY DEF IInv, Typed
  <2> QED
    BY <2>1, <2>2, <2>3, <2>4 DEF PairsTypeOK, Pipelines
<1> QED
  BY PoolAlways, <1>1, PTL

\* provisioned_pipelines is exact: over all runs every connection finds a pipeline of its
\* own, and the runs use up all of them, so that nothing is left for a sweep.
THEOREM PipelinesAreExact == PairsSpec => []PipelinesUsedUp
<1>1. IInv /\ PoolInv => PipelinesUsedUp
  <2> SUFFICES ASSUME IInv, PoolInv, carrier = "local"
               PROVE  /\ pc = "open" /\ This <= NConns => next_conn < Pipelines
                      /\ pc = "over" => next_conn = Pipelines
    BY DEF PipelinesUsedUp
  <2> DEFINE base == (run - 1) * NConns
             n == Len(opened)
  <2>1. /\ n \in Nat /\ n <= NConns /\ NConns \in Nat \ {0} /\ Pipelines \in Nat
        /\ base \in Nat /\ base + NConns <= Pipelines
        /\ run = NRuns => base + NConns = Pipelines
    BY PoolFits
  <2>2. /\ pc = "open" => next_conn = base + n + 0
        /\ pc = "over" => next_conn = base + n + 0 /\ n = NConns /\ run = NRuns
    BY DEF PoolInv, HandedOut, Runs
  <2>3. This = n + 1
    BY DEF This
  <2> HIDE DEF base, n
  <2> QED
    BY <2>1, <2>2, <2>3
<1> QED
  BY PoolAlways, <1>1, PTL
=============================================================================
