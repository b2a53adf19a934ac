-------------------------- MODULE SchedulerProofs --------------------------
(***************************************************************************)
(* Proofs about module Scheduler, for every batch and every limits.        *)
(*                                                                         *)
(* The limits hold because the counters are exactly the slots held.  That  *)
(* is inductive only together with the shape of the worker pool: a worker  *)
(* claims a call nobody claimed before (the waves repeat no call), every   *)
(* live worker has exactly one active call, so that no slot is held when a *)
(* wave ends and the fresh counters of the next wave are right again.      *)
(*                                                                         *)
(* The results come back complete and in order because the reported calls  *)
(* of a wave are exactly those in its results, each once, and sorting by   *)
(* index only moves them: SortMoves and SortAll prove that of the sort.    *)
(***************************************************************************)
EXTENDS Scheduler, FiniteSetTheorems, TLAPS

-----------------------------------------------------------------------------
(* The inductive invariant *)

ActiveStates == {"waiting", "ready", "running"}
ActiveIn(st) == {c \in Calls : st[c] \in ActiveStates}

\* The finished waves ws and the open wave cur repeat no call, and hold only
\* calls before n.
Shape(ws, cur, n) ==
    /\ \A w \in 1..Len(ws) : Len(ws[w]) >= 1
    /\ \A w \in 1..Len(ws) : \A i \in 1..Len(ws[w]) : ws[w][i] < n
    /\ \A w, v \in 1..Len(ws) : \A i \in 1..Len(ws[w]) : \A j \in 1..Len(ws[v]) :
          ws[w][i] = ws[v][j] => w = v /\ i = j
    /\ \A i \in 1..Len(cur) : cur[i] < n
    /\ \A i, j \in 1..Len(cur) : cur[i] = cur[j] => i = j
    /\ \A w \in 1..Len(ws) : \A i \in 1..Len(ws[w]) : \A j \in 1..Len(cur) :
          ws[w][i] # cur[j]

WaveShape == Shape(waves, current, cursor)

\* What the workers have not reached is unclaimed.
Unreached ==
    /\ phase = "partition" => status = [c \in Calls |-> "unclaimed"]
    /\ phase \in {"spawn", "run"} =>
         /\ waveNo \in 1..Len(waves)
         /\ \A i \in 1..Len(waves[waveNo]) :
              i >= next => status[waves[waveNo][i]] = "unclaimed"
         /\ \A v \in 1..Len(waves) : v > waveNo =>
              \A j \in 1..Len(waves[v]) : status[waves[v][j]] = "unclaimed"

\* Every live worker has one active call.
PoolShape ==
    /\ live = Cardinality(ActiveIn(status))
    /\ live <= MaxOf(1, GlobalMax)
    /\ phase = "spawn" => next = spawned + 1 /\ live = spawned
    /\ phase \in {"partition", "returned"} => live = 0

\* Who holds a slot.
HoldShape ==
    \A c \in Calls :
        /\ c \in holds => status[c] \in {"ready", "running"}
        /\ status[c] = "running" => c \in holds
        /\ status[c] = "ready" /\ ~aborted => c \in holds

\* A counter map over Keys, against the slots held by the calls of H.
KeyCount(K, H, k) == Cardinality({x \in H : K[x] = k})

Slots(K, Keys, count, H, limit, ab) ==
    /\ count \in [Keys -> Nat]
    /\ \A k \in Keys :
         /\ count[k] <= KeyCount(K, H, k)
         /\ ~ab => count[k] = KeyCount(K, H, k)
         /\ KeyCount(K, H, k) <= limit

ToolOf == [c \in Calls |-> batch[c].tool]
HostOf == [c \in Calls |-> batch[c].host]
ServerOf == [c \in Calls |-> batch[c].server]

AllSlots(h, tc, hc, sc) ==
    /\ Slots(ToolOf, Tools, tc, h, PerTool, aborted)
    /\ Slots(HostOf, Hosts, hc, h, PerHost, aborted)
    /\ Slots(ServerOf, Servers, sc, h, PerServer, aborted)

SlotShape == AllSlots(holds, perToolCount, perHostCount, perServerCount)

\* The inductive invariant of the scheduler: the partition repeats no call
\* (partitionWaves), a live worker has one active call (runWave), and the slot
\* counters agree with the calls that hold a slot (waitForSlot, decSlot).
IInv == TypeOK /\ WaveShape /\ Unreached /\ PoolShape /\ HoldShape /\ SlotShape

-----------------------------------------------------------------------------
(* Slots *)

\* The positions of a batch are finitely many.
LEMMA CallsFinite == IsFiniteSet(Calls) /\ Calls \subseteq Nat
  BY FS_Interval, SizeAssumption DEF Calls

\* Taking a free slot keeps a counter map exact and below its limit (waitForSlot).
LEMMA TakeSlot ==
  ASSUME NEW K, NEW Keys, NEW count, NEW H \in SUBSET Calls, NEW limit \in Nat,
         NEW c \in Calls, c \notin H, None \notin Keys,
         K \in [Calls -> Keys \cup {None}],
         Slots(K, Keys, count, H, limit, FALSE),
         Below(count, K[c], limit)
  PROVE  Slots(K, Keys, Bump(count, K[c]), H \cup {c}, limit, FALSE)
<1>0. \A k : IsFiniteSet({x \in H : K[x] = k}) /\ KeyCount(K, H, k) \in Nat
  <2> TAKE k
  <2>1. IsFiniteSet({x \in H : K[x] = k})
    <3>1. {x \in H : K[x] = k} \subseteq Calls OBVIOUS
    <3> QED BY <3>1, CallsFinite, FS_Subset
  <2> QED BY <2>1, FS_CardinalityType DEF KeyCount
<1>1. \A k : k # K[c] => KeyCount(K, H \cup {c}, k) = KeyCount(K, H, k)
  <2> TAKE k
  <2> HAVE k # K[c]
  <2>1. {x \in H \cup {c} : K[x] = k} = {x \in H : K[x] = k} OBVIOUS
  <2> QED BY <2>1 DEF KeyCount
<1>2. KeyCount(K, H \cup {c}, K[c]) = KeyCount(K, H, K[c]) + 1
  <2> DEFINE A == {x \in H : K[x] = K[c]}
  <2>1. {x \in H \cup {c} : K[x] = K[c]} = A \cup {c} OBVIOUS
  <2>2. c \notin A /\ IsFiniteSet(A) BY <1>0
  <2>3. Cardinality(A \cup {c}) = Cardinality(A) + 1
    <3> HIDE DEF A
    <3> QED BY <2>2, FS_AddElement
  <2> QED BY <2>1, <2>3 DEF KeyCount
<1>3. CASE K[c] = None
  BY <1>1, <1>3 DEF Slots, Bump
<1>4. CASE K[c] # None
  <2>1. K[c] \in Keys BY <1>4
  <2>2. Bump(count, K[c]) = [count EXCEPT ![K[c]] = @ + 1] BY <1>4 DEF Bump
  <2>3. count[K[c]] < limit BY <1>4 DEF Below
  <2>4. count \in [Keys -> Nat] BY DEF Slots
  <2>5. Bump(count, K[c]) \in [Keys -> Nat] BY <2>1, <2>2, <2>4
  <2>6. ASSUME NEW k \in Keys
        PROVE  /\ Bump(count, K[c])[k] = KeyCount(K, H \cup {c}, k)
               /\ KeyCount(K, H \cup {c}, k) <= limit
    <3>0. count[k] = KeyCount(K, H, k) /\ KeyCount(K, H, k) <= limit BY DEF Slots
    <3>1. CASE k = K[c] BY <3>0, <3>1, <1>2, <1>0, <2>1, <2>2, <2>3, <2>4
    <3>2. CASE k # K[c] BY <3>0, <3>2, <1>1, <2>1, <2>2, <2>4
    <3> QED BY <3>1, <3>2
  <2>7. \A k \in Keys : Bump(count, K[c])[k] \in Nat BY <2>5
  <2> QED BY <2>5, <2>6, <2>7 DEF Slots
<1> QED BY <1>3, <1>4

\* Giving a slot back: exact when the call held one, never too large when an
\* abort let it through without one (decSlot).
LEMMA DropSlot ==
  ASSUME NEW K, NEW Keys, NEW count, NEW H \in SUBSET Calls, NEW limit \in Nat,
         NEW c \in Calls, NEW ab, ~ab => c \in H, None \notin Keys,
         K \in [Calls -> Keys \cup {None}],
         Slots(K, Keys, count, H, limit, ab)
  PROVE  Slots(K, Keys, Drop(count, K[c]), H \ {c}, limit, ab)
<1>0. \A k : IsFiniteSet({x \in H : K[x] = k}) /\ KeyCount(K, H, k) \in Nat
  <2> TAKE k
  <2>1. IsFiniteSet({x \in H : K[x] = k})
    <3>1. {x \in H : K[x] = k} \subseteq Calls OBVIOUS
    <3> QED BY <3>1, CallsFinite, FS_Subset
  <2> QED BY <2>1, FS_CardinalityType DEF KeyCount
<1>1. \A k : k # K[c] => KeyCount(K, H \ {c}, k) = KeyCount(K, H, k)
  <2> TAKE k
  <2> HAVE k # K[c]
  <2>1. {x \in H \ {c} : K[x] = k} = {x \in H : K[x] = k} OBVIOUS
  <2> QED BY <2>1 DEF KeyCount
<1>2. c \in H => KeyCount(K, H \ {c}, K[c]) = KeyCount(K, H, K[c]) - 1
  <2> HAVE c \in H
  <2> DEFINE A == {x \in H : K[x] = K[c]}
  <2>1. {x \in H \ {c} : K[x] = K[c]} = A \ {c} OBVIOUS
  <2>2. c \in A /\ IsFiniteSet(A) BY <1>0
  <2>3. Cardinality(A \ {c}) = Cardinality(A) - 1
    <3> HIDE DEF A
    <3> QED BY <2>2, FS_RemoveElement
  <2> QED BY <2>1, <2>3 DEF KeyCount
<1>3. c \notin H => H \ {c} = H OBVIOUS
<1>4. KeyCount(K, H \ {c}, K[c]) \in Nat
  <2>1. {x \in H \ {c} : K[x] = K[c]} \subseteq Calls OBVIOUS
  <2> QED BY <2>1, CallsFinite, FS_Subset, FS_CardinalityType DEF KeyCount
<1>5. CASE K[c] = None
  BY <1>1, <1>5 DEF Slots, Drop
<1>6. CASE K[c] # None
  <2>1. K[c] \in Keys BY <1>6
  <2>2. Drop(count, K[c]) = [count EXCEPT ![K[c]] = MaxOf(0, @ - 1)] BY <1>6 DEF Drop
  <2>4. count \in [Keys -> Nat] BY DEF Slots
  <2>5. Drop(count, K[c]) \in [Keys -> Nat] BY <2>1, <2>2, <2>4 DEF MaxOf
  <2>6. ASSUME NEW k \in Keys
        PROVE  /\ Drop(count, K[c])[k] <= KeyCount(K, H \ {c}, k)
               /\ ~ab => Drop(count, K[c])[k] = KeyCount(K, H \ {c}, k)
               /\ KeyCount(K, H \ {c}, k) <= limit
    <3>0. /\ count[k] <= KeyCount(K, H, k) /\ KeyCount(K, H, k) <= limit
          /\ ~ab => count[k] = KeyCount(K, H, k)
      BY DEF Slots
    <3>4. count[k] \in Nat /\ KeyCount(K, H, k) \in Nat BY <2>4, <1>0
    <3>5. k = K[c] => Drop(count, K[c])[k] = MaxOf(0, count[k] - 1) BY <2>1, <2>2, <2>4
    <3>1. CASE k = K[c] /\ c \in H
      <4>1. KeyCount(K, H \ {c}, k) = KeyCount(K, H, k) - 1 BY <3>1, <1>2
      <4>2. KeyCount(K, H \ {c}, k) \in Nat BY <3>1, <1>4
      <4> QED BY <4>1, <4>2, <3>0, <3>1, <3>4, <3>5 DEF MaxOf
    <3>2. CASE k = K[c] /\ c \notin H
      <4>1. KeyCount(K, H \ {c}, k) = KeyCount(K, H, k) BY <3>2, <1>3
      <4>2. ~(~ab) BY <3>2
      <4> QED BY <4>1, <4>2, <3>0, <3>2, <3>4, <3>5 DEF MaxOf
    <3>3. CASE k # K[c] BY <3>0, <3>3, <1>1, <2>1, <2>2, <2>4
    <3> QED BY <3>1, <3>2, <3>3
  <2> QED BY <2>5, <2>6 DEF Slots
<1> QED BY <1>5, <1>6

\* The key functions of the three counter maps.
LEMMA KeyTypes ==
  ASSUME batch \in [Calls -> SchedulerCall]
  PROVE  /\ ToolOf \in [Calls -> Tools \cup {None}]
         /\ HostOf \in [Calls -> Hosts \cup {None}]
         /\ ServerOf \in [Calls -> Servers \cup {None}]
         /\ None \notin Tools /\ None \notin Hosts /\ None \notin Servers
         /\ PerTool \in Nat /\ PerHost \in Nat /\ PerServer \in Nat
         /\ \A c \in Calls : /\ ToolOf[c] = batch[c].tool
                             /\ HostOf[c] = batch[c].host
                             /\ ServerOf[c] = batch[c].server
BY NoneAssumption, LimitsAssumption DEF ToolOf, HostOf, ServerOf, SchedulerCall

\* The check of waitForSlot keeps the accounting, from any intermediate state.
LEMMA CheckKeepsSlots ==
  ASSUME batch \in [Calls -> SchedulerCall], aborted \in BOOLEAN,
         NEW c \in Calls, NEW st, NEW h \in SUBSET Calls, c \notin h,
         NEW tc, NEW hc, NEW sc,
         AllSlots(h, tc, hc, sc),
         CheckSlot(c, st, h, tc, hc, sc)
  PROVE  AllSlots(holds', perToolCount', perHostCount', perServerCount')
<1> USE KeyTypes
<1>1. CASE aborted
  BY <1>1 DEF CheckSlot, AllSlots
<1>2. CASE ~aborted
  <2> DEFINE free == /\ Below(tc, batch[c].tool, PerTool)
                     /\ Below(hc, batch[c].host, PerHost)
                     /\ Below(sc, batch[c].server, PerServer)
  <2>1. CASE ~free
    BY <1>2, <2>1 DEF CheckSlot, AllSlots
  <2>2. CASE free
    <3>1. /\ holds' = h \cup {c}
          /\ perToolCount' = Bump(tc, ToolOf[c])
          /\ perHostCount' = Bump(hc, HostOf[c])
          /\ perServerCount' = Bump(sc, ServerOf[c])
      BY <1>2, <2>2 DEF CheckSlot
    <3>2. Slots(ToolOf, Tools, Bump(tc, ToolOf[c]), h \cup {c}, PerTool, FALSE)
      <4>1. Slots(ToolOf, Tools, tc, h, PerTool, FALSE) BY <1>2 DEF AllSlots, Slots
      <4>2. Below(tc, ToolOf[c], PerTool) BY <2>2
      <4> QED BY <4>1, <4>2, TakeSlot
    <3>3. Slots(HostOf, Hosts, Bump(hc, HostOf[c]), h \cup {c}, PerHost, FALSE)
      <4>1. Slots(HostOf, Hosts, hc, h, PerHost, FALSE) BY <1>2 DEF AllSlots, Slots
      <4>2. Below(hc, HostOf[c], PerHost) BY <2>2
      <4> QED BY <4>1, <4>2, TakeSlot
    <3>4. Slots(ServerOf, Servers, Bump(sc, ServerOf[c]), h \cup {c}, PerServer, FALSE)
      <4>1. Slots(ServerOf, Servers, sc, h, PerServer, FALSE) BY <1>2 DEF AllSlots, Slots
      <4>2. Below(sc, ServerOf[c], PerServer) BY <2>2
      <4> QED BY <4>1, <4>2, TakeSlot
    <3> QED BY <1>2, <3>1, <3>2, <3>3, <3>4 DEF AllSlots, Slots
  <2> QED BY <2>1, <2>2
<1> QED BY <1>1, <1>2

\* decSlot keeps the accounting when the call held its slots or was let
\* through by an abort.
LEMMA ReleaseKeepsSlots ==
  ASSUME TypeOK, SlotShape, NEW c \in Calls, ~aborted => c \in holds
  PROVE  AllSlots(holds \ {c}, Drop(perToolCount, batch[c].tool),
                  Drop(perHostCount, batch[c].host), Drop(perServerCount, batch[c].server))
<1>0. /\ batch \in [Calls -> SchedulerCall] /\ aborted \in BOOLEAN
      /\ holds \in SUBSET Calls
  BY DEF TypeOK
<1> USE <1>0, KeyTypes
<1>1. Slots(ToolOf, Tools, Drop(perToolCount, ToolOf[c]), holds \ {c}, PerTool, aborted)
  <2>1. Slots(ToolOf, Tools, perToolCount, holds, PerTool, aborted)
    BY DEF SlotShape, AllSlots
  <2> QED BY <2>1, DropSlot
<1>2. Slots(HostOf, Hosts, Drop(perHostCount, HostOf[c]), holds \ {c}, PerHost, aborted)
  <2>1. Slots(HostOf, Hosts, perHostCount, holds, PerHost, aborted)
    BY DEF SlotShape, AllSlots
  <2> QED BY <2>1, DropSlot
<1>3. Slots(ServerOf, Servers, Drop(perServerCount, ServerOf[c]), holds \ {c}, PerServer, aborted)
  <2>1. Slots(ServerOf, Servers, perServerCount, holds, PerServer, aborted)
    BY DEF SlotShape, AllSlots
  <2> QED BY <2>1, DropSlot
<1> QED BY <1>1, <1>2, <1>3 DEF AllSlots

\* Fresh counters are right when nobody holds a slot.
LEMMA NoSlots ==
  AllSlots({}, [t \in Tools |-> 0], [h \in Hosts |-> 0], [s \in Servers |-> 0])
<1>1. \A K, k : KeyCount(K, {}, k) = 0
  <2> TAKE K, k
  <2>1. {x \in {} : K[x] = k} = {} OBVIOUS
  <2> QED BY <2>1, FS_EmptySet DEF KeyCount
<1> QED BY <1>1, LimitsAssumption DEF AllSlots, Slots

-----------------------------------------------------------------------------
(* The partition *)

\* Closing the open wave repeats no call.
LEMMA CloseWave ==
  ASSUME NEW ws \in Seq(Seq(Calls)), NEW cur \in Seq(Calls), cur # <<>>,
         NEW n \in Nat, Shape(ws, cur, n)
  PROVE  Shape(Append(ws, cur), <<>>, n) /\ Append(ws, cur) \in Seq(Seq(Calls))
<1> DEFINE W == Append(ws, cur)
<1>1. /\ Len(W) = Len(ws) + 1 /\ W \in Seq(Seq(Calls)) /\ Len(ws) \in Nat
      /\ \A w \in 1..Len(W) : W[w] = IF w <= Len(ws) THEN ws[w] ELSE cur
  OBVIOUS
<1>2. Len(cur) >= 1 /\ Len(<<>>) = 0 OBVIOUS
<1> HIDE DEF W
<1>3. Shape(W, <<>>, n)
  <2>1. ASSUME NEW w \in 1..Len(W) PROVE Len(W[w]) >= 1
    <3>1. CASE w <= Len(ws)
      <4>1. w \in 1..Len(ws) /\ W[w] = ws[w] BY <3>1, <1>1
      <4> QED BY <4>1 DEF Shape
    <3>2. CASE ~(w <= Len(ws))
      BY <3>2, <1>1, <1>2
    <3> QED BY <3>1, <3>2
  <2>2. ASSUME NEW w \in 1..Len(W), NEW i \in 1..Len(W[w]) PROVE W[w][i] < n
    <3>1. CASE w <= Len(ws)
      <4>1. w \in 1..Len(ws) /\ W[w] = ws[w] BY <3>1, <1>1
      <4> QED BY <4>1 DEF Shape
    <3>2. CASE ~(w <= Len(ws))
      <4>1. W[w] = cur BY <3>2, <1>1
      <4> QED BY <4>1 DEF Shape
    <3> QED BY <3>1, <3>2
  <2>3. ASSUME NEW w \in 1..Len(W), NEW v \in 1..Len(W),
               NEW i \in 1..Len(W[w]), NEW j \in 1..Len(W[v]), W[w][i] = W[v][j]
        PROVE  w = v /\ i = j
    <3>1. CASE w <= Len(ws) /\ v <= Len(ws)
      <4>1. w \in 1..Len(ws) /\ v \in 1..Len(ws) BY <3>1, <1>1
      <4>2. W[w] = ws[w] /\ W[v] = ws[v] BY <3>1, <1>1
      <4> QED BY <2>3, <4>1, <4>2 DEF Shape
    <3>2. CASE w <= Len(ws) /\ v > Len(ws)
      <4>1. w \in 1..Len(ws) /\ W[v] = cur /\ W[w] = ws[w] BY <3>2, <1>1
      <4> QED BY <2>3, <4>1 DEF Shape
    <3>3. CASE w > Len(ws) /\ v <= Len(ws)
      <4>1. v \in 1..Len(ws) /\ W[w] = cur /\ W[v] = ws[v] BY <3>3, <1>1
      <4> QED BY <2>3, <4>1 DEF Shape
    <3>4. CASE w > Len(ws) /\ v > Len(ws)
      <4>1. w = v /\ W[w] = cur /\ W[v] = cur BY <3>4, <1>1
      <4> QED BY <2>3, <4>1 DEF Shape
    <3> QED BY <1>1, <3>1, <3>2, <3>3, <3>4
  <2> QED BY <1>2, <2>1, <2>2, <2>3 DEF Shape
<1> QED BY <1>1, <1>3 DEF W

\* Adding the next call to the open wave repeats no call.
LEMMA ExtendWave ==
  ASSUME NEW ws \in Seq(Seq(Calls)), NEW cur \in Seq(Calls),
         NEW n \in Calls, Shape(ws, cur, n)
  PROVE  Shape(ws, Append(cur, n), n + 1) /\ Append(cur, n) \in Seq(Calls)
<1> DEFINE C == Append(cur, n)
<1>0. n \in Nat BY CallsFinite
<1>1. /\ Len(C) = Len(cur) + 1 /\ C \in Seq(Calls) /\ Len(cur) \in Nat
      /\ \A i \in 1..Len(C) : C[i] = IF i <= Len(cur) THEN cur[i] ELSE n
  OBVIOUS
<1>2. ASSUME NEW w \in 1..Len(ws), NEW i \in 1..Len(ws[w])
      PROVE  ws[w][i] \in Nat /\ ws[w][i] < n /\ ws[w][i] < n + 1 /\ ws[w][i] # n
  <2>1. ws[w] \in Seq(Calls) OBVIOUS
  <2>2. ws[w][i] \in Calls BY <2>1
  <2>3. ws[w][i] \in Nat BY <2>2, CallsFinite
  <2>4. ws[w][i] < n BY DEF Shape
  <2> QED BY <1>0, <2>3, <2>4
<1>3. ASSUME NEW i \in 1..Len(cur)
      PROVE  cur[i] \in Nat /\ cur[i] < n /\ cur[i] < n + 1 /\ cur[i] # n
  <2>1. cur[i] \in Calls OBVIOUS
  <2>2. cur[i] \in Nat BY <2>1, CallsFinite
  <2>3. cur[i] < n BY DEF Shape
  <2> QED BY <1>0, <2>2, <2>3
<1> HIDE DEF C
<1>4. ASSUME NEW i \in 1..Len(C)
      PROVE  \/ i \in 1..Len(cur) /\ C[i] = cur[i]
             \/ i = Len(cur) + 1 /\ C[i] = n
  BY <1>1
<1>5. \A i \in 1..Len(C) : C[i] < n + 1 BY <1>0, <1>3, <1>4
<1>6. \A i, j \in 1..Len(C) : C[i] = C[j] => i = j
  <2>1. \A i, j \in 1..Len(cur) : cur[i] = cur[j] => i = j BY DEF Shape
  <2> QED BY <1>3, <1>4, <2>1
<1>7. \A w \in 1..Len(ws) : \A i \in 1..Len(ws[w]) : \A j \in 1..Len(C) : ws[w][i] # C[j]
  <2>1. \A w \in 1..Len(ws) : \A i \in 1..Len(ws[w]) : \A j \in 1..Len(cur) : ws[w][i] # cur[j]
    BY DEF Shape
  <2> QED BY <1>2, <1>4, <2>1
<1>8. Shape(ws, C, n + 1) BY <1>2, <1>5, <1>6, <1>7 DEF Shape
<1> QED BY <1>1, <1>8 DEF C

\* A barrier gets a wave of its own, and repeats no call.
LEMMA BarrierWave ==
  ASSUME NEW ws \in Seq(Seq(Calls)), NEW n \in Calls, Shape(ws, <<>>, n)
  PROVE  Shape(Append(ws, <<n>>), <<>>, n + 1) /\ Append(ws, <<n>>) \in Seq(Seq(Calls))
<1>1. Append(<<>>, n) = <<n>> /\ <<>> \in Seq(Calls) /\ <<n>> # <<>> OBVIOUS
<1>2. Shape(ws, <<n>>, n + 1) /\ <<n>> \in Seq(Calls) BY <1>1, ExtendWave
<1>3. n + 1 \in Nat BY CallsFinite
<1> QED BY <1>1, <1>2, <1>3, CloseWave

-----------------------------------------------------------------------------
(* The worker pool *)

States == {"unclaimed", "waiting", "ready", "running", "done"}

\* The calls that workers are busy with are finitely many.
LEMMA ActiveFinite ==
  ASSUME NEW st
  PROVE  IsFiniteSet(ActiveIn(st)) /\ Cardinality(ActiveIn(st)) \in Nat
<1>1. ActiveIn(st) \subseteq Calls BY DEF ActiveIn
<1> QED BY <1>1, CallsFinite, FS_Subset, FS_CardinalityType

\* What a check of waitForSlot does to the call it checks, and to no other.
LEMMA CheckEffect ==
  ASSUME NEW c \in Calls, NEW st \in [Calls -> States], NEW h \in SUBSET Calls,
         c \notin h, NEW tc, NEW hc, NEW sc, CheckSlot(c, st, h, tc, hc, sc)
  PROVE  /\ status' \in [Calls -> States]
         /\ holds' \in SUBSET Calls
         /\ \A d \in Calls \ {c} : status'[d] = st[d] /\ (d \in holds' <=> d \in h)
         /\ status'[c] \in {"ready", "waiting"}
         /\ c \in holds' => status'[c] = "ready"
         /\ status'[c] = "ready" /\ ~aborted => c \in holds'
         /\ ActiveIn(status') = ActiveIn(st) \cup {c}
<1> DEFINE free == /\ Below(tc, batch[c].tool, PerTool)
                   /\ Below(hc, batch[c].host, PerHost)
                   /\ Below(sc, batch[c].server, PerServer)
<1>1. /\ status' = [st EXCEPT ![c] = IF aborted \/ free THEN "ready" ELSE "waiting"]
      /\ holds' = IF ~aborted /\ free THEN h \cup {c} ELSE h
  BY DEF CheckSlot
<1> HIDE DEF free
<1>2. /\ status' \in [Calls -> States]
      /\ status'[c] = IF aborted \/ free THEN "ready" ELSE "waiting"
      /\ \A d \in Calls \ {c} : status'[d] = st[d]
  BY <1>1 DEF States
<1>3. ActiveIn(status') = ActiveIn(st) \cup {c}
  BY <1>2 DEF ActiveIn, ActiveStates
<1> QED BY <1>1, <1>2, <1>3

\* The counters stay maps to natural numbers.
LEMMA CountTypes ==
  ASSUME NEW h, NEW tc, NEW hc, NEW sc, AllSlots(h, tc, hc, sc)
  PROVE  tc \in [Tools -> Nat] /\ hc \in [Hosts -> Nat] /\ sc \in [Servers -> Nat]
BY DEF AllSlots, Slots

\* The positions of the waves are calls.
LEMMA WaveTypes ==
  ASSUME NEW ws \in Seq(Seq(Calls)), NEW w \in 1..Len(ws)
  PROVE  /\ ws[w] \in Seq(Calls) /\ Len(ws[w]) \in Nat
         /\ \A i \in 1..Len(ws[w]) : ws[w][i] \in Calls
<1>1. ws[w] \in Seq(Calls) OBVIOUS
<1> QED BY <1>1

\* The slot limit of the wave that runs.
LEMMA SlotLimitBounds ==
  ASSUME TypeOK, WaveShape, waveNo \in 1..Len(waves)
  PROVE  /\ SlotLimit \in Nat /\ 1 <= SlotLimit
         /\ SlotLimit <= Len(waves[waveNo])
         /\ SlotLimit <= MaxOf(1, GlobalMax)
<1>1. Len(waves[waveNo]) \in Nat BY WaveTypes DEF TypeOK
<1>2. Len(waves[waveNo]) >= 1 BY DEF WaveShape, Shape
<1> QED BY <1>1, <1>2, LimitsAssumption DEF SlotLimit, MaxOf, MinOf, wave

\* The effect of reporting call c and claiming the next one on everything the
\* invariant speaks of.
LEMMA ReportKeeps ==
  ASSUME IInv, NEW c \in Calls, phase = "run", status[c] \in {"ready", "running"},
         status[c] = "ready" => aborted, ReportAndClaim(c),
         UNCHANGED <<batch, consumes, aborted, phase, partitionVars, waveNo, spawned>>
  PROVE  /\ status' \in [Calls -> States] /\ holds' \in SUBSET Calls
         /\ next' \in Nat \ {0} /\ live' \in Int /\ results' \in Seq(Calls)
         /\ Unreached' /\ PoolShape' /\ HoldShape' /\ SlotShape'
<1> DEFINE st == [status EXCEPT ![c] = "done"]
           h == holds \ {c}
           tc == Drop(perToolCount, batch[c].tool)
           hc == Drop(perHostCount, batch[c].host)
           sc == Drop(perServerCount, batch[c].server)
<1>0. /\ status \in [Calls -> States] /\ holds \in SUBSET Calls
      /\ next \in Nat \ {0} /\ live \in Int /\ results \in Seq(Calls)
      /\ batch \in [Calls -> SchedulerCall] /\ aborted \in BOOLEAN
      /\ waves \in Seq(Seq(Calls))
  BY DEF IInv, TypeOK, States
<1>1. results' = Append(results, c) /\ ClaimNext(st, h, tc, hc, sc)
  BY DEF ReportAndClaim
<1>2. AllSlots(h, tc, hc, sc)
  <2>1. ~aborted => c \in holds BY DEF IInv, HoldShape
  <2> QED BY <2>1, ReleaseKeepsSlots DEF IInv
<1>3. /\ st \in [Calls -> States] /\ h \in SUBSET Calls
      /\ \A d \in Calls \ {c} : st[d] = status[d] /\ (d \in h <=> d \in holds)
      /\ st[c] = "done" /\ c \notin h
  BY <1>0 DEF States
<1>4. ActiveIn(st) = ActiveIn(status) \ {c} /\ c \in ActiveIn(status)
  BY <1>0, <1>3 DEF ActiveIn, ActiveStates
<1>5. Cardinality(ActiveIn(st)) = live - 1 /\ Cardinality(ActiveIn(st)) \in Nat
  BY <1>4, ActiveFinite, FS_RemoveElement DEF IInv, PoolShape
<1>6. /\ waveNo \in 1..Len(waves)
      /\ \A i \in 1..Len(waves[waveNo]) :
           i >= next => status[waves[waveNo][i]] = "unclaimed"
      /\ \A v \in 1..Len(waves) : v > waveNo =>
           \A j \in 1..Len(waves[v]) : status[waves[v][j]] = "unclaimed"
  BY DEF IInv, Unreached
<1>7. /\ waves' = waves /\ waveNo' = waveNo /\ phase' = "run" /\ batch' = batch
      /\ aborted' = aborted /\ next' = next + 1
  BY <1>1 DEF partitionVars, ClaimNext
<1>8. results' \in Seq(Calls) /\ next' \in Nat \ {0} BY <1>0, <1>1, <1>7
<1>9. CASE next <= Len(wave)
  <2> DEFINE d == waves[waveNo][next]
  <2>1. next \in 1..Len(waves[waveNo]) /\ d \in Calls /\ status[d] = "unclaimed"
    <3>1. next \in 1..Len(waves[waveNo]) BY <1>0, <1>6, <1>9, WaveTypes DEF wave
    <3>2. d \in Calls BY <1>0, <1>6, <3>1, WaveTypes
    <3>3. next >= next BY <1>0
    <3> QED BY <1>6, <3>1, <3>2, <3>3
  <2>2. CheckSlot(d, st, h, tc, hc, sc) /\ live' = live BY <1>1, <1>9 DEF ClaimNext, wave
  <2>3. d # c /\ d \notin h
    BY <2>1, <1>3 DEF IInv, HoldShape
  <2> HIDE DEF d, st, h, tc, hc, sc
  <2>4. /\ status' \in [Calls -> States]
        /\ holds' \in SUBSET Calls
        /\ \A x \in Calls \ {d} : status'[x] = st[x] /\ (x \in holds' <=> x \in h)
        /\ status'[d] \in {"ready", "waiting"}
        /\ d \in holds' => status'[d] = "ready"
        /\ status'[d] = "ready" /\ ~aborted => d \in holds'
        /\ ActiveIn(status') = ActiveIn(st) \cup {d}
    BY <2>1, <2>2, <2>3, <1>3, CheckEffect
  <2>5. SlotShape'
    <3>1. AllSlots(holds', perToolCount', perHostCount', perServerCount')
      BY <2>1, <2>2, <2>3, <1>0, <1>2, <1>3, CheckKeepsSlots
    <3> QED BY <3>1, <1>7 DEF SlotShape, AllSlots, ToolOf, HostOf, ServerOf
  <2>6. HoldShape'
    BY <1>3, <1>7, <2>4 DEF HoldShape, IInv
  <2>7. PoolShape'
    <3>1. d \notin ActiveIn(st)
      BY <1>3, <2>1, <2>3 DEF ActiveIn, ActiveStates
    <3>2. Cardinality(ActiveIn(st) \cup {d}) = Cardinality(ActiveIn(st)) + 1
      BY <3>1, ActiveFinite, FS_AddElement
    <3>3. live' = Cardinality(ActiveIn(status')) BY <3>2, <2>4, <2>2, <1>5, <1>0
    <3>4. ActiveIn(status)' = ActiveIn(status') BY DEF ActiveIn, Calls
    <3> QED BY <3>3, <3>4, <1>7, <2>2 DEF PoolShape, IInv
  <2>8. Unreached'
    <3>1. ASSUME NEW i \in 1..Len(waves[waveNo]), i >= next + 1
          PROVE  status'[waves[waveNo][i]] = "unclaimed"
      <4>1. waves[waveNo][i] # d
        <5>1. i # next BY <3>1, <1>0
        <5> QED BY <5>1, <2>1, <1>6 DEF d, IInv, WaveShape, Shape
      <4>2. waves[waveNo][i] \in Calls BY <1>0, <1>6, WaveTypes
      <4>3. i >= next BY <3>1, <1>0
      <4>4. status[waves[waveNo][i]] = "unclaimed" BY <4>3, <1>6
      <4>5. waves[waveNo][i] # c BY <4>4
      <4> QED BY <4>1, <4>2, <4>4, <4>5, <2>4, <1>3
    <3>2. ASSUME NEW v \in 1..Len(waves), v > waveNo, NEW j \in 1..Len(waves[v])
          PROVE  status'[waves[v][j]] = "unclaimed"
      <4>1. waves[v][j] # d
        <5>1. v # waveNo BY <3>2, <1>6
        <5> QED BY <5>1, <2>1, <1>6 DEF d, IInv, WaveShape, Shape
      <4>2. waves[v][j] \in Calls BY <1>0, WaveTypes
      <4>3. status[waves[v][j]] = "unclaimed" BY <3>2, <1>6
      <4>4. waves[v][j] # c BY <4>3
      <4> QED BY <4>1, <4>2, <4>3, <4>4, <2>4, <1>3
    <3> QED BY <3>1, <3>2, <1>6, <1>7 DEF Unreached
  <2> QED BY <2>2, <2>4, <2>5, <2>6, <2>7, <2>8, <1>0, <1>8
<1>10. CASE ~(next <= Len(wave))
  <2>1. /\ live' = live - 1 /\ status' = st /\ holds' = h
        /\ perToolCount' = tc /\ perHostCount' = hc /\ perServerCount' = sc
    BY <1>1, <1>10 DEF ClaimNext
  <2> HIDE DEF st, h, tc, hc, sc
  <2>2. SlotShape' BY <2>1, <1>2, <1>7 DEF SlotShape, AllSlots, ToolOf, HostOf, ServerOf
  <2>3. HoldShape' BY <2>1, <1>3, <1>7 DEF HoldShape, IInv
  <2>4. PoolShape'
    <3>1. ActiveIn(status)' = ActiveIn(status') BY DEF ActiveIn, Calls
    <3>2. MaxOf(1, GlobalMax) \in Int BY LimitsAssumption DEF MaxOf
    <3>3. live' <= MaxOf(1, GlobalMax) BY <2>1, <3>2, <1>0 DEF IInv, PoolShape
    <3> QED BY <2>1, <3>1, <3>3, <1>5, <1>7 DEF PoolShape
  <2>5. Unreached'
    <3>1. ASSUME NEW i \in 1..Len(waves[waveNo]), i >= next + 1
          PROVE  FALSE
      <4>1. Len(waves[waveNo]) \in Nat BY <1>0, <1>6, WaveTypes
      <4> QED BY <3>1, <4>1, <1>0, <1>10 DEF wave
    <3>2. ASSUME NEW v \in 1..Len(waves), v > waveNo, NEW j \in 1..Len(waves[v])
          PROVE  status'[waves[v][j]] = "unclaimed"
      <4>1. waves[v][j] \in Calls BY <1>0, WaveTypes
      <4>2. status[waves[v][j]] = "unclaimed" BY <3>2, <1>6
      <4> QED BY <4>1, <4>2, <2>1, <1>3
    <3> QED BY <3>1, <3>2, <1>6, <1>7 DEF Unreached
  <2> QED BY <2>1, <2>2, <2>3, <2>4, <2>5, <1>0, <1>3, <1>8
<1> QED BY <1>9, <1>10

-----------------------------------------------------------------------------
(* The invariant is inductive *)

\* The initial states satisfy the invariant.
LEMMA InitIInv == Init => IInv
<1> SUFFICES ASSUME Init PROVE IInv OBVIOUS
<1> USE DEF Init
<1>1. TypeOK
  <2>1. batch \in [Calls -> SchedulerCall] BY KindsAssumption
  <2>2. cursor \in 1..(N + 1) BY SizeAssumption
  <2> QED BY <2>1, <2>2 DEF TypeOK
<1>2. WaveShape BY DEF WaveShape, Shape
<1>3. Unreached BY DEF Unreached
<1>4. PoolShape
  <2>1. ActiveIn(status) = {} BY DEF ActiveIn, ActiveStates
  <2>2. Cardinality(ActiveIn(status)) = 0 BY <2>1, FS_EmptySet
  <2>3. 0 <= MaxOf(1, GlobalMax) BY LimitsAssumption DEF MaxOf
  <2>4. live = 0 /\ phase = "partition" OBVIOUS
  <2> QED BY <2>2, <2>3, <2>4 DEF PoolShape
<1>5. HoldShape BY DEF HoldShape
<1>6. SlotShape BY NoSlots DEF SlotShape
<1> QED BY <1>1, <1>2, <1>3, <1>4, <1>5, <1>6 DEF IInv

\* Steps that touch none of what the pool invariants speak of.
LEMMA PoolUnchanged ==
  ASSUME IInv, UNCHANGED <<batch, aborted, phase, next, spawned, live, status, holds,
                           perToolCount, perHostCount, perServerCount>>
  PROVE  PoolShape' /\ HoldShape' /\ SlotShape'
<1>1. ActiveIn(status)' = ActiveIn(status) BY DEF ActiveIn, Calls
<1>2. PoolShape' BY <1>1 DEF IInv, PoolShape
<1>3. HoldShape' BY DEF IInv, HoldShape, Calls
<1>4. SlotShape'
  <2>1. ToolOf' = ToolOf /\ HostOf' = HostOf /\ ServerOf' = ServerOf
    BY DEF ToolOf, HostOf, ServerOf, Calls
  <2> QED BY <2>1 DEF IInv, SlotShape, AllSlots
<1> QED BY <1>2, <1>3, <1>4

\* One iteration of the loop of partitionWaves keeps the invariant.
LEMMA PartitionCallIInv == IInv /\ PartitionCall => IInv'
<1> SUFFICES ASSUME IInv, PartitionCall PROVE IInv' OBVIOUS
<1>0. /\ waves \in Seq(Seq(Calls)) /\ current \in Seq(Calls) /\ cursor \in Calls
      /\ waveIndex \in Nat /\ emitted \in [Calls -> Nat] /\ phase = "partition"
      /\ Shape(waves, current, cursor) /\ cursor \in Nat
  <2>1. /\ waves \in Seq(Seq(Calls)) /\ current \in Seq(Calls)
        /\ waveIndex \in Nat /\ emitted \in [Calls -> Nat] /\ phase = "partition"
        /\ Shape(waves, current, cursor)
    BY DEF IInv, TypeOK, PartitionCall, WaveShape
  <2>2. cursor \in 1..(N + 1) /\ cursor <= N BY DEF IInv, TypeOK, PartitionCall
  <2>3. cursor \in Nat /\ cursor \in Calls BY <2>2, SizeAssumption DEF Calls
  <2> QED BY <2>1, <2>3
<1>1. /\ cursor' = cursor + 1
      /\ UNCHANGED <<batch, consumes, aborted, phase, waveVars>>
  BY DEF PartitionCall
<1> DEFINE flush == MustFlush(cursor)
           ws == IF flush THEN Append(waves, current) ELSE waves
           kept == IF flush THEN <<>> ELSE current
<1>2. Shape(ws, kept, cursor) /\ ws \in Seq(Seq(Calls)) /\ kept \in Seq(Calls)
  <2>1. CASE flush
    <3>1. current # <<>> BY <2>1 DEF MustFlush
    <3> QED BY <2>1, <3>1, <1>0, CloseWave
  <2>2. CASE ~flush BY <2>2, <1>0
  <2> QED BY <2>1, <2>2
<1>3. /\ Shape(waves', current', cursor + 1)
      /\ waves' \in Seq(Seq(Calls)) /\ current' \in Seq(Calls)
      /\ waveIndex' \in Nat
  <2>1. CASE IsSerialBarrier(cursor)
    <3>1. kept = <<>> BY <2>1 DEF MustFlush
    <3>2. /\ waves' = Append(ws, <<cursor>>) /\ current' = kept
          /\ waveIndex' = (IF flush THEN waveIndex + 1 ELSE waveIndex) + 1
      BY <2>1 DEF PartitionCall
    <3> HIDE DEF ws, kept, flush
    <3>3. waveIndex' \in Nat BY <3>2, <1>0
    <3> QED BY <3>1, <3>2, <3>3, <1>0, <1>2, BarrierWave
  <2>2. CASE ~IsSerialBarrier(cursor)
    <3>2. /\ waves' = ws /\ current' = Append(kept, cursor)
          /\ waveIndex' = IF flush THEN waveIndex + 1 ELSE waveIndex
      BY <2>2 DEF PartitionCall
    <3> HIDE DEF ws, kept, flush
    <3>3. waveIndex' \in Nat BY <3>2, <1>0
    <3> QED BY <3>2, <3>3, <1>0, <1>2, ExtendWave
  <2> QED BY <2>1, <2>2
<1>4. emitted' = [emitted EXCEPT ![cursor] = waveIndex'] BY DEF PartitionCall
<1>5. TypeOK'
  <2>1. emitted' \in [Calls -> Nat] BY <1>0, <1>3, <1>4
  <2>2. cursor' \in 1..(N + 1) BY <1>0, <1>1, SizeAssumption DEF Calls
  <2> QED BY <2>1, <2>2, <1>1, <1>3 DEF IInv, TypeOK, Calls, waveVars, countVars
<1>6. WaveShape' BY <1>1, <1>3 DEF WaveShape, Shape
<1>7. Unreached' BY <1>0, <1>1 DEF IInv, Unreached, Calls, waveVars
<1>8. PoolShape' /\ HoldShape' /\ SlotShape'
  BY <1>1, PoolUnchanged DEF waveVars, countVars
<1> QED BY <1>5, <1>6, <1>7, <1>8 DEF IInv

\* Entering a wave with no active call: the fresh counters are exact.
LEMMA EnterWaveKeeps ==
  ASSUME IInv, live = 0, NEW w \in Nat, EnterWave(w),
         UNCHANGED <<batch, aborted, status, holds>>,
         phase' \in {"spawn", "returned"}
  PROVE  /\ PoolShape' /\ HoldShape' /\ SlotShape'
         /\ next' \in Nat \ {0} /\ spawned' \in Nat /\ live' \in Int /\ results' \in Seq(Calls)
         /\ perToolCount' \in [Tools -> Nat] /\ perHostCount' \in [Hosts -> Nat]
         /\ perServerCount' \in [Servers -> Nat]
<1>1. ActiveIn(status) = {}
  BY ActiveFinite, FS_EmptySet DEF IInv, PoolShape
<1>2. holds = {}
  <2>1. \A c \in Calls : c \notin holds
    BY <1>1 DEF ActiveIn, ActiveStates, IInv, HoldShape
  <2> QED BY <2>1 DEF IInv, TypeOK
<1>3. ActiveIn(status)' = ActiveIn(status) BY DEF ActiveIn, Calls
<1>4. PoolShape'
  <2>1. Cardinality(ActiveIn(status)) = 0 BY <1>1, FS_EmptySet
  <2>2. live' = 0 /\ next' = 1 /\ spawned' = 0 BY DEF EnterWave
  <2>3. 0 <= MaxOf(1, GlobalMax) BY LimitsAssumption DEF MaxOf
  <2> QED BY <1>3, <2>1, <2>2, <2>3 DEF PoolShape
<1>5. HoldShape' BY DEF IInv, HoldShape, Calls
<1>6. SlotShape'
  <2>1. AllSlots(holds', perToolCount', perHostCount', perServerCount')
    BY <1>2, NoSlots DEF EnterWave
  <2> QED BY <2>1 DEF SlotShape, AllSlots, ToolOf, HostOf, ServerOf
<1> QED BY <1>4, <1>5, <1>6 DEF EnterWave

\* Pushing the last wave and entering the loop of run keeps the invariant.
LEMMA EndPartitionIInv == IInv /\ EndPartition => IInv'
<1> SUFFICES ASSUME IInv, EndPartition PROVE IInv' OBVIOUS
<1>0. /\ waves \in Seq(Seq(Calls)) /\ current \in Seq(Calls) /\ cursor \in Nat
      /\ phase = "partition" /\ Shape(waves, current, cursor)
      /\ live = 0 /\ status = [c \in Calls |-> "unclaimed"]
  BY SizeAssumption DEF IInv, TypeOK, EndPartition, WaveShape, PoolShape, Unreached
<1>1. /\ waves' = (IF current # <<>> THEN Append(waves, current) ELSE waves)
      /\ current' = <<>> /\ EnterWave(1)
      /\ phase' = IF waves' = <<>> THEN "returned" ELSE "spawn"
      /\ UNCHANGED <<batch, consumes, aborted, cursor, waveIndex, emitted,
                     status, holds, cancelled, allResults>>
  BY DEF EndPartition
<1>2. Shape(waves', <<>>, cursor) /\ waves' \in Seq(Seq(Calls))
  <2>1. CASE current # <<>> BY <2>1, <1>0, <1>1, CloseWave
  <2>2. CASE current = <<>> BY <2>2, <1>0, <1>1
  <2> QED BY <2>1, <2>2
<1>3. WaveShape' BY <1>1, <1>2 DEF WaveShape
<1>4. /\ PoolShape' /\ HoldShape' /\ SlotShape'
      /\ next' \in Nat \ {0} /\ spawned' \in Nat /\ live' \in Int /\ results' \in Seq(Calls)
      /\ perToolCount' \in [Tools -> Nat] /\ perHostCount' \in [Hosts -> Nat]
      /\ perServerCount' \in [Servers -> Nat]
  BY <1>0, <1>1, EnterWaveKeeps
<1>5. TypeOK'
  <2>1. waveNo' \in Nat BY <1>1 DEF EnterWave
  <2>2. phase' \in {"partition", "spawn", "run", "returned"} /\ current' \in Seq(Calls)
    BY <1>1
  <2> QED BY <2>1, <2>2, <1>1, <1>2, <1>4 DEF IInv, TypeOK, Calls
<1>6. Unreached'
  <2>1. SUFFICES ASSUME phase' = "spawn" PROVE Unreached' BY <1>1 DEF Unreached
  <2>2. waves' # <<>> /\ waveNo' = 1 BY <2>1, <1>1 DEF EnterWave
  <2>3. Len(waves') \in Nat /\ Len(waves') >= 1 BY <2>2, <1>2
  <2>4. \A v \in 1..Len(waves') : \A j \in 1..Len(waves'[v]) : waves'[v][j] \in Calls
    BY <1>2, WaveTypes
  <2>5. \A c \in Calls : status'[c] = "unclaimed" BY <1>0, <1>1
  <2> QED BY <2>1, <2>2, <2>3, <2>4, <2>5 DEF Unreached
<1> QED BY <1>3, <1>4, <1>5, <1>6 DEF IInv

\* When the last worker of a wave has returned nobody holds a slot, so the fresh
\* counters of the next wave are exact (run, runWave).
LEMMA EndWaveIInv == IInv /\ EndWave => IInv'
<1> SUFFICES ASSUME IInv, EndWave PROVE IInv' OBVIOUS
<1>0. /\ phase = "run" /\ live = 0 /\ waveNo \in 1..Len(waves) /\ waveNo \in Nat
      /\ waves \in Seq(Seq(Calls))
  BY DEF IInv, TypeOK, Unreached, EndWave
<1> DEFINE last == waveNo = Len(waves)
           w == IF last THEN waveNo ELSE waveNo + 1
<1>1. /\ EnterWave(w) /\ phase' = IF last THEN "returned" ELSE "spawn"
      /\ UNCHANGED <<batch, consumes, aborted, partitionVars, status, holds, cancelled>>
  BY DEF EndWave
<1>2. w \in Nat BY <1>0
<1>3. /\ PoolShape' /\ HoldShape' /\ SlotShape'
      /\ next' \in Nat \ {0} /\ spawned' \in Nat /\ live' \in Int /\ results' \in Seq(Calls)
      /\ perToolCount' \in [Tools -> Nat] /\ perHostCount' \in [Hosts -> Nat]
      /\ perServerCount' \in [Servers -> Nat]
  <2> HIDE DEF w
  <2> QED BY <1>0, <1>1, <1>2, EnterWaveKeeps
<1>4. TypeOK'
  <2>1. waveNo' \in Nat BY <1>1, <1>2 DEF EnterWave
  <2> HIDE DEF w, last
  <2> QED BY <2>1, <1>1, <1>3 DEF IInv, TypeOK, Calls, partitionVars
<1>5. WaveShape' BY <1>1 DEF IInv, WaveShape, partitionVars
<1>6. Unreached'
  <2>1. SUFFICES ASSUME ~last PROVE Unreached' BY <1>1 DEF Unreached
  <2>2. waveNo' = waveNo + 1 /\ waveNo' \in 1..Len(waves) /\ waves' = waves /\ status' = status
    BY <1>0, <1>1, <2>1 DEF EnterWave, partitionVars
  <2>3. \A v \in 1..Len(waves) : v >= waveNo + 1 =>
          \A j \in 1..Len(waves[v]) : status[waves[v][j]] = "unclaimed"
    BY <1>0 DEF IInv, Unreached
  <2>4. \A v \in 1..Len(waves) : v > waveNo + 1 => v >= waveNo + 1 BY <1>0
  <2>5. waveNo + 1 >= waveNo + 1 BY <1>0
  <2>6. phase' = "spawn" BY <1>1, <2>1
  <2>7. \A i \in 1..Len(waves[waveNo + 1]) : status[waves[waveNo + 1][i]] = "unclaimed"
    BY <2>2, <2>3, <2>5
  <2>8. \A v \in 1..Len(waves) : v > waveNo + 1 =>
          \A j \in 1..Len(waves[v]) : status[waves[v][j]] = "unclaimed"
    BY <2>3, <2>4
  <2> QED BY <2>2, <2>6, <2>7, <2>8 DEF Unreached
<1> QED BY <1>3, <1>4, <1>5, <1>6 DEF IInv

\* A new worker claims a call nobody claimed (the loop of runWave).
LEMMA SpawnWorkerIInv == IInv /\ SpawnWorker => IInv'
<1> SUFFICES ASSUME IInv, SpawnWorker PROVE IInv' OBVIOUS
<1>0. /\ status \in [Calls -> States] /\ holds \in SUBSET Calls
      /\ next \in Nat \ {0} /\ live \in Int /\ spawned \in Nat
      /\ batch \in [Calls -> SchedulerCall] /\ aborted \in BOOLEAN
      /\ waves \in Seq(Seq(Calls)) /\ phase = "spawn" /\ waveNo \in 1..Len(waves)
      /\ next = spawned + 1 /\ live = spawned /\ spawned < SlotLimit
  BY DEF IInv, TypeOK, States, SpawnWorker, PoolShape, Unreached
<1>1. /\ spawned' = spawned + 1 /\ live' = live + 1 /\ next' = next + 1
      /\ UNCHANGED <<batch, consumes, aborted, phase, partitionVars, waveNo,
                     cancelled, results, allResults>>
  BY DEF SpawnWorker
<1> DEFINE d == waves[waveNo][next]
<1>2. next \in 1..Len(waves[waveNo]) /\ d \in Calls /\ status[d] = "unclaimed"
  <2>0. Len(waves[waveNo]) \in Nat BY <1>0, WaveTypes
  <2>1. next \in 1..Len(waves[waveNo]) BY <1>0, <2>0, SlotLimitBounds DEF IInv
  <2>2. d \in Calls BY <1>0, <2>1, WaveTypes
  <2>3. next >= next BY <1>0
  <2> QED BY <1>0, <2>1, <2>2, <2>3 DEF IInv, Unreached
<1>3. CheckSlot(d, status, holds, perToolCount, perHostCount, perServerCount)
  BY DEF SpawnWorker, wave
<1>4. d \notin holds BY <1>2 DEF IInv, HoldShape
<1> HIDE DEF d
<1>5. /\ status' \in [Calls -> States]
      /\ holds' \in SUBSET Calls
      /\ \A x \in Calls \ {d} : status'[x] = status[x] /\ (x \in holds' <=> x \in holds)
      /\ status'[d] \in {"ready", "waiting"}
      /\ d \in holds' => status'[d] = "ready"
      /\ status'[d] = "ready" /\ ~aborted => d \in holds'
      /\ ActiveIn(status') = ActiveIn(status) \cup {d}
  BY <1>0, <1>2, <1>3, <1>4, CheckEffect
<1>6. AllSlots(holds', perToolCount', perHostCount', perServerCount')
  BY <1>0, <1>2, <1>3, <1>4, CheckKeepsSlots DEF IInv, SlotShape
<1>7. SlotShape'
  BY <1>1, <1>6 DEF SlotShape, AllSlots, ToolOf, HostOf, ServerOf
<1>8. HoldShape' BY <1>1, <1>5 DEF IInv, HoldShape
<1>9. PoolShape'
  <2>1. d \notin ActiveIn(status) BY <1>2 DEF ActiveIn, ActiveStates
  <2>2. Cardinality(ActiveIn(status) \cup {d}) = Cardinality(ActiveIn(status)) + 1
    BY <2>1, ActiveFinite, FS_AddElement
  <2>3. live' = Cardinality(ActiveIn(status')) BY <2>2, <1>1, <1>5 DEF IInv, PoolShape
  <2>4. ActiveIn(status)' = ActiveIn(status') BY DEF ActiveIn, Calls
  <2>5. live' <= MaxOf(1, GlobalMax)
    <3>1. MaxOf(1, GlobalMax) \in Int BY LimitsAssumption DEF MaxOf
    <3>2. SlotLimit \in Nat /\ SlotLimit <= MaxOf(1, GlobalMax)
      BY <1>0, SlotLimitBounds DEF IInv
    <3> HIDE DEF SlotLimit
    <3> QED BY <3>1, <3>2, <1>0, <1>1
  <2>6. next' = spawned' + 1 /\ live' = spawned' /\ phase' = "spawn" BY <1>0, <1>1
  <2> QED BY <2>3, <2>4, <2>5, <2>6 DEF PoolShape
<1>10. Unreached'
  <2>1. ASSUME NEW i \in 1..Len(waves[waveNo]), i >= next + 1
        PROVE  status'[waves[waveNo][i]] = "unclaimed"
    <3>1. waves[waveNo][i] # d
      <4>1. i # next BY <2>1, <1>0
      <4> QED BY <4>1, <1>0, <1>2 DEF d, IInv, WaveShape, Shape
    <3>2. waves[waveNo][i] \in Calls BY <1>0, WaveTypes
    <3>3. i >= next BY <2>1, <1>0
    <3>4. status[waves[waveNo][i]] = "unclaimed" BY <3>3, <1>0 DEF IInv, Unreached
    <3> QED BY <3>1, <3>2, <3>4, <1>5
  <2>2. ASSUME NEW v \in 1..Len(waves), v > waveNo, NEW j \in 1..Len(waves[v])
        PROVE  status'[waves[v][j]] = "unclaimed"
    <3>1. waves[v][j] # d
      <4>1. v # waveNo BY <2>2, <1>0
      <4> QED BY <4>1, <1>0, <1>2 DEF d, IInv, WaveShape, Shape
    <3>2. waves[v][j] \in Calls BY <1>0, WaveTypes
    <3>3. status[waves[v][j]] = "unclaimed" BY <2>2, <1>0 DEF IInv, Unreached
    <3> QED BY <3>1, <3>2, <3>3, <1>5
  <2>3. waves' = waves /\ waveNo' = waveNo /\ next' = next + 1 /\ phase' = "spawn"
    BY <1>0, <1>1 DEF partitionVars
  <2> QED BY <2>1, <2>2, <2>3, <1>0 DEF Unreached
<1>11. WaveShape' BY <1>1 DEF IInv, WaveShape, partitionVars
<1>12. TypeOK'
  <2>1. next' \in Nat \ {0} /\ live' \in Int /\ spawned' \in Nat BY <1>0, <1>1
  <2>2. /\ perToolCount' \in [Tools -> Nat] /\ perHostCount' \in [Hosts -> Nat]
        /\ perServerCount' \in [Servers -> Nat]
    BY <1>6, CountTypes
  <2> QED BY <2>1, <2>2, <1>1, <1>5 DEF IInv, TypeOK, Calls, partitionVars, States
<1> QED BY <1>7, <1>8, <1>9, <1>10, <1>11, <1>12 DEF IInv

\* The end of the loop that creates the workers changes no slot.
LEMMA EndSpawnIInv == IInv /\ EndSpawn => IInv'
<1> SUFFICES ASSUME IInv, EndSpawn PROVE IInv' OBVIOUS
<1>1. /\ phase = "spawn" /\ phase' = "run"
      /\ UNCHANGED <<batch, consumes, aborted, partitionVars, waveVars>>
  BY DEF EndSpawn
<1>2. TypeOK' BY <1>1 DEF IInv, TypeOK, Calls, partitionVars, waveVars, countVars
<1>3. WaveShape' BY <1>1 DEF IInv, WaveShape, partitionVars
<1>4. Unreached' BY <1>1 DEF IInv, Unreached, partitionVars, waveVars
<1>5. ActiveIn(status)' = ActiveIn(status) BY <1>1 DEF ActiveIn, Calls, waveVars
<1>6. PoolShape' BY <1>1, <1>5 DEF IInv, PoolShape, waveVars
<1>7. HoldShape' BY <1>1 DEF IInv, HoldShape, Calls, waveVars
<1>8. SlotShape'
  BY <1>1 DEF IInv, SlotShape, AllSlots, ToolOf, HostOf, ServerOf, Calls, waveVars, countVars
<1> QED BY <1>2, <1>3, <1>4, <1>6, <1>7, <1>8 DEF IInv

\* The 1 ms timer of waitForSlot takes a slot only below the limit.
LEMMA RecheckIInv == ASSUME NEW c \in Calls PROVE IInv /\ Recheck(c) => IInv'
<1> SUFFICES ASSUME IInv, Recheck(c) PROVE IInv' OBVIOUS
<1>0. /\ status \in [Calls -> States] /\ holds \in SUBSET Calls
      /\ batch \in [Calls -> SchedulerCall] /\ aborted \in BOOLEAN
      /\ phase = "run" /\ status[c] = "waiting" /\ waves \in Seq(Seq(Calls))
  BY DEF IInv, TypeOK, States, Recheck
<1>1. /\ CheckSlot(c, status, holds, perToolCount, perHostCount, perServerCount)
      /\ UNCHANGED <<batch, consumes, aborted, phase, partitionVars, waveNo, next,
                     spawned, live, cancelled, results, allResults>>
  BY DEF Recheck
<1>2. c \notin holds BY <1>0 DEF IInv, HoldShape
<1>3. /\ status' \in [Calls -> States]
      /\ holds' \in SUBSET Calls
      /\ \A x \in Calls \ {c} : status'[x] = status[x] /\ (x \in holds' <=> x \in holds)
      /\ status'[c] \in {"ready", "waiting"}
      /\ c \in holds' => status'[c] = "ready"
      /\ status'[c] = "ready" /\ ~aborted => c \in holds'
      /\ ActiveIn(status') = ActiveIn(status) \cup {c}
  BY <1>0, <1>1, <1>2, CheckEffect
<1>4. AllSlots(holds', perToolCount', perHostCount', perServerCount')
  BY <1>0, <1>1, <1>2, CheckKeepsSlots DEF IInv, SlotShape
<1>5. SlotShape' BY <1>1, <1>4 DEF SlotShape, AllSlots, ToolOf, HostOf, ServerOf
<1>6. HoldShape' BY <1>1, <1>3 DEF IInv, HoldShape
<1>7. PoolShape'
  <2>1. c \in ActiveIn(status) BY <1>0 DEF ActiveIn, ActiveStates
  <2>2. ActiveIn(status') = ActiveIn(status) BY <2>1, <1>3
  <2>3. ActiveIn(status)' = ActiveIn(status') BY DEF ActiveIn, Calls
  <2> QED BY <2>2, <2>3, <1>1, <1>0 DEF IInv, PoolShape
<1>8. Unreached'
  <2>1. waves' = waves /\ waveNo' = waveNo /\ next' = next /\ phase' = "run"
    BY <1>0, <1>1 DEF partitionVars
  <2>2. ASSUME NEW v \in 1..Len(waves), NEW j \in 1..Len(waves[v]),
               status[waves[v][j]] = "unclaimed"
        PROVE  status'[waves[v][j]] = "unclaimed"
    <3>1. waves[v][j] \in Calls BY <1>0, WaveTypes
    <3> QED BY <3>1, <2>2, <1>0, <1>3
  <2> QED BY <2>1, <2>2, <1>0 DEF IInv, Unreached
<1>9. WaveShape' BY <1>1 DEF IInv, WaveShape, partitionVars
<1>10. TypeOK'
  <2>2. /\ perToolCount' \in [Tools -> Nat] /\ perHostCount' \in [Hosts -> Nat]
        /\ perServerCount' \in [Servers -> Nat]
    BY <1>4, CountTypes
  <2> QED BY <2>2, <1>1, <1>3 DEF IInv, TypeOK, Calls, partitionVars, States
<1> QED BY <1>5, <1>6, <1>7, <1>8, <1>9, <1>10 DEF IInv

\* A call that starts holds its slot: waitForSlot took one unless the signal
\* was aborted, and then the call does not start.
LEMMA StartCallIInv == ASSUME NEW c \in Calls PROVE IInv /\ StartCall(c) => IInv'
<1> SUFFICES ASSUME IInv, StartCall(c) PROVE IInv' OBVIOUS
<1>0. /\ status \in [Calls -> States] /\ phase = "run" /\ status[c] = "ready"
      /\ waves \in Seq(Seq(Calls)) /\ ~aborted
  BY DEF IInv, TypeOK, States, StartCall
<1>1. /\ status' = [status EXCEPT ![c] = "running"]
      /\ UNCHANGED <<batch, consumes, aborted, phase, partitionVars, waveNo, next,
                     spawned, live, holds, countVars, cancelled, results, allResults>>
  BY DEF StartCall
<1>2. /\ status' \in [Calls -> States] /\ status'[c] = "running"
      /\ \A x \in Calls \ {c} : status'[x] = status[x]
  BY <1>0, <1>1 DEF States
<1>3. SlotShape'
  BY <1>1 DEF IInv, SlotShape, AllSlots, ToolOf, HostOf, ServerOf, Calls, countVars
<1>4. HoldShape' BY <1>0, <1>1, <1>2 DEF IInv, HoldShape
<1>5. PoolShape'
  <2>1. ActiveIn(status') = ActiveIn(status) BY <1>0, <1>2 DEF ActiveIn, ActiveStates
  <2>2. ActiveIn(status)' = ActiveIn(status') BY DEF ActiveIn, Calls
  <2> QED BY <2>1, <2>2, <1>1, <1>0 DEF IInv, PoolShape
<1>6. Unreached'
  <2>1. waves' = waves /\ waveNo' = waveNo /\ next' = next /\ phase' = "run"
    BY <1>0, <1>1 DEF partitionVars
  <2>2. ASSUME NEW v \in 1..Len(waves), NEW j \in 1..Len(waves[v]),
               status[waves[v][j]] = "unclaimed"
        PROVE  status'[waves[v][j]] = "unclaimed"
    <3>1. waves[v][j] \in Calls BY <1>0, WaveTypes
    <3> QED BY <3>1, <2>2, <1>0, <1>2
  <2> QED BY <2>1, <2>2, <1>0 DEF IInv, Unreached
<1>7. WaveShape' BY <1>1 DEF IInv, WaveShape, partitionVars
<1>8. TypeOK' BY <1>1, <1>2 DEF IInv, TypeOK, Calls, partitionVars, countVars, States
<1> QED BY <1>3, <1>4, <1>5, <1>6, <1>7, <1>8 DEF IInv

\* A call is reported, cancelled or settled.
LEMMA ReportIInv ==
  ASSUME NEW c \in Calls PROVE IInv /\ (CancelCall(c) \/ SettleCall(c)) => IInv'
<1> SUFFICES ASSUME IInv, CancelCall(c) \/ SettleCall(c) PROVE IInv' OBVIOUS
<1>1. /\ phase = "run" /\ status[c] \in {"ready", "running"}
      /\ status[c] = "ready" => aborted
      /\ ReportAndClaim(c) /\ cancelled' \in {cancelled, cancelled \cup {c}}
      /\ UNCHANGED <<batch, consumes, aborted, phase, partitionVars, waveNo, spawned>>
  BY DEF CancelCall, SettleCall
<1>2. /\ status' \in [Calls -> States] /\ holds' \in SUBSET Calls
      /\ next' \in Nat \ {0} /\ live' \in Int /\ results' \in Seq(Calls)
      /\ Unreached' /\ PoolShape' /\ HoldShape' /\ SlotShape'
  BY <1>1, ReportKeeps
<1>3. WaveShape' BY <1>1 DEF IInv, WaveShape, partitionVars
<1>4. TypeOK'
  <2>1. /\ perToolCount' \in [Tools -> Nat] /\ perHostCount' \in [Hosts -> Nat]
        /\ perServerCount' \in [Servers -> Nat]
    BY <1>2 DEF SlotShape, AllSlots, Slots
  <2>2. cancelled' \subseteq Calls BY <1>1 DEF IInv, TypeOK
  <2> QED BY <2>1, <2>2, <1>1, <1>2 DEF IInv, TypeOK, Calls, partitionVars, States
<1> QED BY <1>2, <1>3, <1>4 DEF IInv

\* An abort changes no slot, it only weakens what the counters promise.
LEMMA AbortIInv == IInv /\ Abort => IInv'
<1> SUFFICES ASSUME IInv, Abort PROVE IInv' OBVIOUS
<1>1. /\ ~aborted /\ aborted' = TRUE
      /\ UNCHANGED <<batch, consumes, phase, partitionVars, waveVars>>
  BY DEF Abort
<1>2. TypeOK' BY <1>1 DEF IInv, TypeOK, Calls, partitionVars, waveVars, countVars
<1>3. WaveShape' BY <1>1 DEF IInv, WaveShape, partitionVars
<1>4. Unreached' BY <1>1 DEF IInv, Unreached, Calls, partitionVars, waveVars
<1>5. ActiveIn(status)' = ActiveIn(status) BY <1>1 DEF ActiveIn, Calls, waveVars
<1>6. PoolShape' BY <1>1, <1>5 DEF IInv, PoolShape, waveVars
<1>7. HoldShape' BY <1>1 DEF IInv, HoldShape, Calls, waveVars
<1>8. SlotShape'
  <2>1. ToolOf' = ToolOf /\ HostOf' = HostOf /\ ServerOf' = ServerOf
    BY <1>1 DEF ToolOf, HostOf, ServerOf, Calls
  <2>2. \A K, Keys, count, H, limit :
          Slots(K, Keys, count, H, limit, aborted) => Slots(K, Keys, count, H, limit, TRUE)
    BY DEF Slots
  <2>3. /\ Slots(ToolOf, Tools, perToolCount, holds, PerTool, TRUE)
        /\ Slots(HostOf, Hosts, perHostCount, holds, PerHost, TRUE)
        /\ Slots(ServerOf, Servers, perServerCount, holds, PerServer, TRUE)
    BY <2>2 DEF IInv, SlotShape, AllSlots
  <2> QED BY <1>1, <2>1, <2>3 DEF SlotShape, AllSlots, waveVars, countVars
<1> QED BY <1>2, <1>3, <1>4, <1>6, <1>7, <1>8 DEF IInv

\* Steps that leave the scheduler alone keep the invariant.
LEMMA StutterIInv == IInv /\ UNCHANGED vars => IInv'
<1> SUFFICES ASSUME IInv, UNCHANGED vars PROVE IInv' OBVIOUS
<1>1. PoolShape' /\ HoldShape' /\ SlotShape'
  BY PoolUnchanged DEF vars, waveVars, countVars
<1>2. TypeOK' BY DEF IInv, TypeOK, Calls, vars, partitionVars, waveVars, countVars
<1>3. WaveShape' BY DEF IInv, WaveShape, vars, partitionVars
<1>4. Unreached' BY DEF IInv, Unreached, Calls, vars, partitionVars, waveVars
<1> QED BY <1>1, <1>2, <1>3, <1>4 DEF IInv

\* Every step of the scheduler keeps the invariant.
LEMMA NextIInv == IInv /\ [Next]_vars => IInv'
<1> SUFFICES ASSUME IInv, [Next]_vars PROVE IInv' OBVIOUS
<1>1. CASE PartitionCall BY <1>1, PartitionCallIInv
<1>2. CASE EndPartition BY <1>2, EndPartitionIInv
<1>3. CASE SpawnWorker BY <1>3, SpawnWorkerIInv
<1>4. CASE EndSpawn BY <1>4, EndSpawnIInv
<1>5. CASE EndWave BY <1>5, EndWaveIInv
<1>6. ASSUME NEW c \in Calls,
             Recheck(c) \/ StartCall(c) \/ CancelCall(c) \/ SettleCall(c)
      PROVE  IInv'
  BY <1>6, RecheckIInv, StartCallIInv, ReportIInv
<1>7. CASE Abort BY <1>7, AbortIInv
<1>8. CASE Returned BY <1>8, StutterIInv DEF Returned
<1>9. CASE UNCHANGED vars BY <1>9, StutterIInv
<1> QED BY <1>1, <1>2, <1>3, <1>4, <1>5, <1>6, <1>7, <1>8, <1>9 DEF Next

\* The invariant holds in every reachable state of every instance.
THEOREM Invariance == Spec => []IInv
BY InitIInv, NextIInv, PTL DEF Spec

\* Type correctness of the scheduler, for every batch and all limits.
THEOREM TypeCorrect == Spec => []TypeOK
<1>1. IInv => TypeOK BY DEF IInv
<1> QED BY <1>1, Invariance, PTL

\* The counters of waitForSlot and decSlot are exactly the slots held until an
\* abort, and never more than that after it.
THEOREM SlotsAccounted == Spec => []SlotAccounting
<1>1. IInv => SlotAccounting
  <2> SUFFICES ASSUME IInv PROVE SlotAccounting OBVIOUS
  <2>0. holds \subseteq Calls BY DEF IInv, TypeOK
  <2>1. ASSUME NEW t PROVE KeyCount(ToolOf, holds, t) = Cardinality(ToolHolders(t))
    <3>1. {x \in holds : ToolOf[x] = t} = ToolHolders(t) BY <2>0 DEF ToolOf, ToolHolders
    <3> QED BY <3>1 DEF KeyCount
  <2>2. ASSUME NEW h PROVE KeyCount(HostOf, holds, h) = Cardinality(HostHolders(h))
    <3>1. {x \in holds : HostOf[x] = h} = HostHolders(h) BY <2>0 DEF HostOf, HostHolders
    <3> QED BY <3>1 DEF KeyCount
  <2>3. ASSUME NEW s PROVE KeyCount(ServerOf, holds, s) = Cardinality(ServerHolders(s))
    <3>1. {x \in holds : ServerOf[x] = s} = ServerHolders(s) BY <2>0 DEF ServerOf, ServerHolders
    <3> QED BY <3>1 DEF KeyCount
  <2> QED BY <2>1, <2>2, <2>3 DEF IInv, SlotShape, AllSlots, Slots, SlotAccounting
<1> QED BY <1>1, Invariance, PTL

\* The calls that run together stay within the global, per-tool, per-host and
\* per-server limits of SchedulerLimits, aborted or not.
THEOREM LimitsHold == Spec => []LimitsRespected
<1>1. IInv => LimitsRespected
  <2> SUFFICES ASSUME IInv PROVE LimitsRespected OBVIOUS
  <2>0. /\ holds \subseteq Calls /\ status \in [Calls -> States]
        /\ Running \subseteq holds /\ IsFiniteSet(holds)
        /\ PerTool \in Int /\ PerHost \in Int /\ PerServer \in Int
    <3>1. holds \subseteq Calls BY DEF IInv, TypeOK
    <3>2. IsFiniteSet(holds) BY <3>1, CallsFinite, FS_Subset
    <3>3. Running \subseteq holds BY DEF IInv, HoldShape, Running
    <3>4. status \in [Calls -> States] BY DEF IInv, TypeOK, States
    <3> QED BY <3>1, <3>2, <3>3, <3>4, LimitsAssumption
  <2>1. Cardinality(Running) <= MaxOf(1, GlobalMax)
    <3>1. Running \subseteq ActiveIn(status) BY DEF Running, ActiveIn, ActiveStates
    <3>2. /\ IsFiniteSet(Running) /\ Cardinality(Running) \in Nat
          /\ Cardinality(Running) <= Cardinality(ActiveIn(status))
      BY <3>1, ActiveFinite, FS_Subset, FS_CardinalityType
    <3>3. MaxOf(1, GlobalMax) \in Int BY LimitsAssumption DEF MaxOf
    <3> QED BY <3>2, <3>3, ActiveFinite DEF IInv, PoolShape
  <2>2. ASSUME NEW A, NEW B, A \subseteq B, B \subseteq holds
        PROVE  Cardinality(A) \in Nat /\ Cardinality(B) \in Nat
               /\ Cardinality(A) <= Cardinality(B)
    BY <2>2, <2>0, FS_Subset, FS_CardinalityType
  <2>3. ASSUME NEW t \in Tools PROVE Cardinality(RunningOn(t)) <= PerTool
    <3> DEFINE B == {x \in holds : ToolOf[x] = t}
    <3>1. RunningOn(t) \subseteq B /\ B \subseteq holds
      BY <2>0 DEF RunningOn, ToolOf
    <3>2. Cardinality(B) <= PerTool
      BY DEF IInv, SlotShape, AllSlots, Slots, KeyCount
    <3> HIDE DEF B
    <3> QED BY <3>1, <3>2, <2>0, <2>2
  <2>4. ASSUME NEW h \in Hosts PROVE Cardinality(RunningAt(h)) <= PerHost
    <3> DEFINE B == {x \in holds : HostOf[x] = h}
    <3>1. RunningAt(h) \subseteq B /\ B \subseteq holds
      BY <2>0 DEF RunningAt, HostOf
    <3>2. Cardinality(B) <= PerHost
      BY DEF IInv, SlotShape, AllSlots, Slots, KeyCount
    <3> HIDE DEF B
    <3> QED BY <3>1, <3>2, <2>0, <2>2
  <2>5. ASSUME NEW s \in Servers PROVE Cardinality(RunningWith(s)) <= PerServer
    <3> DEFINE B == {x \in holds : ServerOf[x] = s}
    <3>1. RunningWith(s) \subseteq B /\ B \subseteq holds
      BY <2>0 DEF RunningWith, ServerOf
    <3>2. Cardinality(B) <= PerServer
      BY DEF IInv, SlotShape, AllSlots, Slots, KeyCount
    <3> HIDE DEF B
    <3> QED BY <3>1, <3>2, <2>0, <2>2
  <2> QED BY <2>1, <2>3, <2>4, <2>5 DEF LimitsRespected
<1> QED BY <1>1, Invariance, PTL

-----------------------------------------------------------------------------
(***************************************************************************)
(* The order in which the scheduler runs the calls of a batch, and that it *)
(* implements ToolBatch, for every batch and all limits.                   *)
(*                                                                         *)
(* partitionWaves keeps the calls in order: the waves ascend, every call   *)
(* before the cursor is in a wave, and no call of a wave must follow       *)
(* another call of it.  run keeps the waves in order: when a wave is over  *)
(* its calls are all reported, because the last worker returns only when   *)
(* no call of the wave is left.  Both facts together with IInv are         *)
(* inductive, and give the order of the calls.                             *)
(***************************************************************************)

-----------------------------------------------------------------------------
(* The inductive invariant of the order *)

\* The calls each call must follow, and the serial barriers.
Order == [c \in Calls |-> MustFollow(c)]
Barriers == {c \in Calls : IsSerialBarrier(c)}

InWaves(d, ws) == \E w \in 1..Len(ws) : \E i \in 1..Len(ws[w]) : ws[w][i] = d
InWave(d, s) == \E i \in 1..Len(s) : s[i] = d

\* No call of s must follow another one of it, in the order F.
Apart(F, s) == \A i, j \in 1..Len(s) : s[i] \notin F[s[j]]

\* The finished waves ws and the open wave cur hold the calls before n in
\* ascending order; calls that must follow each other are in different waves;
\* the open wave holds no barrier of B.
Ordered(F, B, ws, cur, n) ==
    /\ \A d \in 1..(n - 1) : InWaves(d, ws) \/ InWave(d, cur)
    /\ \A w, v \in 1..Len(ws) : w < v =>
          \A i \in 1..Len(ws[w]) : \A j \in 1..Len(ws[v]) : ws[w][i] < ws[v][j]
    /\ \A w \in 1..Len(ws) : Apart(F, ws[w])
    /\ \A w \in 1..Len(ws) : \A i \in 1..Len(ws[w]) : \A j \in 1..Len(cur) :
          ws[w][i] < cur[j]
    /\ Apart(F, cur)
    /\ \A i \in 1..Len(cur) : cur[i] \notin B

WaveOrder == Ordered(Order, Barriers, waves, current, cursor)

\* What the workers have passed: the finished waves are reported, the claimed
\* part of the running one is claimed, and a worker returns only when there is
\* nothing left to claim.
Passed ==
    /\ phase # "partition" => cursor = N + 1 /\ current = <<>>
    /\ phase \in {"spawn", "run"} =>
         /\ \A v \in 1..Len(waves) : v < waveNo =>
              \A j \in 1..Len(waves[v]) : status[waves[v][j]] = "done"
         /\ \A i \in 1..Len(waves[waveNo]) :
              i < next => status[waves[waveNo][i]] # "unclaimed"
    /\ phase = "run" => live >= SlotLimit \/ next > Len(waves[waveNo])
    /\ phase = "returned" => \A c \in Calls : status[c] = "done"

\* The inductive invariant: calls are in waves in the order the model wrote them
\* (partitionWaves), and the waves run one after the other (run, runWave).
OInv == IInv /\ WaveOrder /\ Passed

-----------------------------------------------------------------------------
(* partitionWaves *)

\* A call must follow only calls before it.
LEMMA OrderType ==
  /\ \A c \in Calls : Order[c] = MustFollow(c)
  /\ \A c \in Calls : \A d \in Order[c] : d \in Calls /\ d < c
<1>1. ASSUME NEW c \in Calls, NEW d \in MustFollow(c) PROVE d \in Calls /\ d < c
  BY SizeAssumption DEF MustFollow, Calls
<1> QED BY <1>1 DEF Order

\* The order and the barriers are those of the batch.
LEMMA OrderFixed ==
  ASSUME batch' = batch PROVE Order' = Order /\ Barriers' = Barriers
BY DEF Order, Barriers, MustFollow, IsSerialBarrier, CallsConflict,
       NeedsServerSerialization, Calls

\* Closing the open wave keeps the order.
LEMMA CloseOrdered ==
  ASSUME NEW F, NEW B, NEW ws \in Seq(Seq(Calls)), NEW cur \in Seq(Calls),
         NEW n \in Nat, Ordered(F, B, ws, cur, n)
  PROVE  Ordered(F, B, Append(ws, cur), <<>>, n)
<1> DEFINE W == Append(ws, cur)
<1>1. /\ Len(W) = Len(ws) + 1 /\ Len(ws) \in Nat
      /\ \A w \in 1..Len(ws) : W[w] = ws[w]
      /\ W[Len(ws) + 1] = cur
  OBVIOUS
<1>2. Len(<<>>) = 0 OBVIOUS
<1> HIDE DEF W
<1>3. ASSUME NEW w \in 1..Len(W)
      PROVE  \/ w \in 1..Len(ws) /\ W[w] = ws[w]
             \/ w = Len(ws) + 1 /\ W[w] = cur
  BY <1>1
<1>4. \A d \in 1..(n - 1) : InWaves(d, W)
  <2> SUFFICES ASSUME NEW d \in 1..(n - 1) PROVE InWaves(d, W) OBVIOUS
  <2>1. CASE InWaves(d, ws)
    <3>1. PICK w \in 1..Len(ws) : \E i \in 1..Len(ws[w]) : ws[w][i] = d
      BY <2>1 DEF InWaves
    <3>2. w \in 1..Len(W) /\ W[w] = ws[w] BY <1>1
    <3> QED BY <3>1, <3>2 DEF InWaves
  <2>2. CASE InWave(d, cur)
    <3>1. Len(ws) + 1 \in 1..Len(W) BY <1>1
    <3> QED BY <2>2, <3>1, <1>1 DEF InWaves, InWave
  <2> QED BY <2>1, <2>2 DEF Ordered
<1>5. ASSUME NEW w \in 1..Len(W), NEW v \in 1..Len(W), w < v,
             NEW i \in 1..Len(W[w]), NEW j \in 1..Len(W[v])
      PROVE  W[w][i] < W[v][j]
  <2>1. w \in 1..Len(ws) /\ W[w] = ws[w] BY <1>1, <1>3, <1>5
  <2>2. CASE v \in 1..Len(ws) /\ W[v] = ws[v] BY <2>1, <2>2, <1>5 DEF Ordered
  <2>3. CASE W[v] = cur BY <2>1, <2>3 DEF Ordered
  <2> QED BY <2>2, <2>3, <1>3
<1>6. \A w \in 1..Len(W) : Apart(F, W[w]) BY <1>3 DEF Ordered
<1>7. Ordered(F, B, W, <<>>, n) BY <1>2, <1>4, <1>5, <1>6 DEF Ordered, Apart
<1> QED BY <1>7 DEF W

\* Adding a call that need not follow any call of the open wave keeps the order.
LEMMA ExtendOrdered ==
  ASSUME NEW F, NEW B, NEW ws \in Seq(Seq(Calls)), NEW cur \in Seq(Calls),
         NEW n \in Calls, Shape(ws, cur, n), Ordered(F, B, ws, cur, n),
         \A c \in Calls : \A d \in F[c] : d \in Calls /\ d < c,
         n \notin B, \A i \in 1..Len(cur) : cur[i] \notin F[n]
  PROVE  Ordered(F, B, ws, Append(cur, n), n + 1)
<1> DEFINE C == Append(cur, n)
<1>0. n \in Nat BY CallsFinite
<1>1. /\ Len(C) = Len(cur) + 1 /\ Len(cur) \in Nat
      /\ \A i \in 1..Len(cur) : C[i] = cur[i]
      /\ C[Len(cur) + 1] = n
  OBVIOUS
<1>2. ASSUME NEW i \in 1..Len(cur) PROVE cur[i] \in Calls /\ cur[i] \in Nat /\ cur[i] < n
  <2>1. cur[i] \in Calls OBVIOUS
  <2>2. cur[i] < n BY DEF Shape
  <2> QED BY <2>1, <2>2, CallsFinite
<1> HIDE DEF C
<1>3. ASSUME NEW i \in 1..Len(C)
      PROVE  \/ i \in 1..Len(cur) /\ C[i] = cur[i]
             \/ C[i] = n
  BY <1>1
<1>4. \A d \in 1..((n + 1) - 1) : InWaves(d, ws) \/ InWave(d, C)
  <2> SUFFICES ASSUME NEW d \in 1..((n + 1) - 1) PROVE InWaves(d, ws) \/ InWave(d, C)
    OBVIOUS
  <2>1. CASE d = n
    <3>1. Len(cur) + 1 \in 1..Len(C) BY <1>1
    <3> QED BY <2>1, <3>1, <1>1 DEF InWave
  <2>2. CASE InWave(d, cur)
    <3>1. PICK i \in 1..Len(cur) : cur[i] = d BY <2>2 DEF InWave
    <3>2. i \in 1..Len(C) /\ C[i] = d BY <3>1, <1>1
    <3> QED BY <3>2 DEF InWave
  <2>3. d # n => d \in 1..(n - 1) BY <1>0
  <2> QED BY <2>1, <2>2, <2>3 DEF Ordered
<1>5. ASSUME NEW w \in 1..Len(ws), NEW i \in 1..Len(ws[w]), NEW j \in 1..Len(C)
      PROVE  ws[w][i] < C[j]
  <2>1. CASE j \in 1..Len(cur) /\ C[j] = cur[j] BY <2>1 DEF Ordered
  <2>2. CASE C[j] = n BY <2>2 DEF Shape
  <2> QED BY <2>1, <2>2, <1>3
<1>6. Apart(F, C)
  <2> SUFFICES ASSUME NEW i \in 1..Len(C), NEW j \in 1..Len(C) PROVE C[i] \notin F[C[j]]
    BY DEF Apart
  <2>1. CASE C[j] = n
    <3>1. n \notin F[n] BY <1>0
    <3> QED BY <2>1, <3>1, <1>3
  <2>2. CASE j \in 1..Len(cur) /\ C[j] = cur[j]
    <3>1. n \notin F[cur[j]]
      <4>1. cur[j] \in Calls /\ cur[j] \in Nat /\ cur[j] < n BY <2>2, <1>2
      <4>2. ~(n < cur[j]) BY <4>1, <1>0
      <4> QED BY <4>1, <4>2
    <3>2. \A k \in 1..Len(cur) : cur[k] \notin F[cur[j]] BY <2>2 DEF Ordered, Apart
    <3> QED BY <2>2, <3>1, <3>2, <1>3
  <2> QED BY <2>1, <2>2, <1>3
<1>7. \A i \in 1..Len(C) : C[i] \notin B BY <1>3 DEF Ordered
<1>8. Ordered(F, B, ws, C, n + 1) BY <1>4, <1>5, <1>6, <1>7 DEF Ordered
<1> QED BY <1>8 DEF C

\* A barrier in a wave of its own keeps the order.
LEMMA BarrierOrdered ==
  ASSUME NEW F, NEW B, NEW ws \in Seq(Seq(Calls)), NEW n \in Calls,
         Shape(ws, <<>>, n), Ordered(F, B, ws, <<>>, n),
         \A c \in Calls : \A d \in F[c] : d \in Calls /\ d < c
  PROVE  Ordered(F, B, Append(ws, <<n>>), <<>>, n + 1)
<1>1. Append(<<>>, n) = <<n>> /\ <<>> \in Seq(Calls) /\ <<n>> \in Seq(Calls) /\ Len(<<>>) = 0
  OBVIOUS
<1>2. Ordered(F, {}, ws, <<>>, n) BY DEF Ordered
<1>3. Ordered(F, {}, ws, <<n>>, n + 1)
  <2>1. \A i \in 1..Len(<<>>) : <<>>[i] \notin F[n] BY <1>1
  <2>2. n \notin {} OBVIOUS
  <2> QED BY <1>1, <1>2, <2>1, <2>2, ExtendOrdered
<1>4. n + 1 \in Nat BY CallsFinite
<1>5. Ordered(F, {}, Append(ws, <<n>>), <<>>, n + 1) BY <1>1, <1>3, <1>4, CloseOrdered
<1>6. \A i \in 1..Len(<<>>) : <<>>[i] \notin B BY <1>1
<1> QED BY <1>5, <1>6 DEF Ordered

-----------------------------------------------------------------------------
(* What the steps of the workers do to the calls *)

\* A claimed call stays claimed and a reported one stays reported.
Forward == \A c \in Calls :
              /\ status[c] # "unclaimed" => status'[c] # "unclaimed"
              /\ status[c] = "done" => status'[c] = "done"

\* Reporting c claims at most the next call of the wave, which nobody claimed.
LEMMA ReportEffect ==
  ASSUME IInv, NEW c \in Calls, phase = "run", status[c] \in {"ready", "running"},
         ReportAndClaim(c)
  PROVE  /\ status'[c] = "done" /\ next' = next + 1
         /\ \/ /\ next \in 1..Len(waves[waveNo]) /\ live' = live
               /\ waves[waveNo][next] # c
               /\ status[waves[waveNo][next]] = "unclaimed"
               /\ status'[waves[waveNo][next]] \in {"ready", "waiting"}
               /\ \A d \in Calls \ {c, waves[waveNo][next]} : status'[d] = status[d]
            \/ /\ next > Len(waves[waveNo]) /\ live' = live - 1
               /\ \A d \in Calls \ {c} : status'[d] = status[d]
<1> DEFINE st == [status EXCEPT ![c] = "done"]
           h == holds \ {c}
           tc == Drop(perToolCount, batch[c].tool)
           hc == Drop(perHostCount, batch[c].host)
           sc == Drop(perServerCount, batch[c].server)
<1>1. ClaimNext(st, h, tc, hc, sc) BY DEF ReportAndClaim
<1>2. /\ status \in [Calls -> States] /\ next \in Nat \ {0} /\ waveNo \in 1..Len(waves)
      /\ waves \in Seq(Seq(Calls)) /\ holds \in SUBSET Calls
  BY DEF IInv, TypeOK, Unreached, States
<1>3. Len(waves[waveNo]) \in Nat BY <1>2, WaveTypes
<1>4. /\ st \in [Calls -> States] /\ st[c] = "done"
      /\ \A d \in Calls \ {c} : st[d] = status[d]
  BY <1>2 DEF States
<1>5. next' = next + 1 BY <1>1 DEF ClaimNext
<1>6. CASE next <= Len(waves[waveNo])
  <2> DEFINE n == waves[waveNo][next]
  <2>1. next \in 1..Len(waves[waveNo]) BY <1>2, <1>3, <1>6
  <2>2. n \in Calls BY <1>2, <2>1, WaveTypes
  <2>3. status[n] = "unclaimed"
    <3>1. next >= next BY <1>2
    <3> QED BY <3>1, <2>1 DEF IInv, Unreached
  <2>4. n # c /\ n \notin h BY <2>3, <2>2 DEF IInv, HoldShape
  <2>5. CheckSlot(n, st, h, tc, hc, sc) /\ live' = live
    BY <1>1, <1>6 DEF ClaimNext, wave
  <2>6. h \in SUBSET Calls BY <1>2
  <2> HIDE DEF n, st, h, tc, hc, sc
  <2>7. status'[n] \in {"ready", "waiting"} /\ \A d \in Calls \ {n} : status'[d] = st[d]
    BY <1>4, <2>2, <2>4, <2>5, <2>6, CheckEffect
  <2>8. status'[c] = "done" BY <2>7, <2>4, <1>4
  <2>9. \A d \in Calls \ {c, n} : status'[d] = status[d] BY <2>7, <1>4
  <2> QED BY <1>5, <2>1, <2>3, <2>4, <2>5, <2>7, <2>8, <2>9 DEF n
<1>7. CASE ~(next <= Len(waves[waveNo]))
  <2>1. live' = live - 1 /\ status' = st BY <1>1, <1>7 DEF ClaimNext, wave
  <2>2. next > Len(waves[waveNo]) BY <1>2, <1>3, <1>7
  <2> HIDE DEF st
  <2> QED BY <2>1, <2>2, <1>4, <1>5
<1> QED BY <1>6, <1>7

\* The check of waitForSlot on a call without a slot.
LEMMA CheckStatus ==
  ASSUME IInv, NEW c \in Calls, status[c] \in {"unclaimed", "waiting"},
         CheckSlot(c, status, holds, perToolCount, perHostCount, perServerCount)
  PROVE  /\ status'[c] \in {"ready", "waiting"}
         /\ \A d \in Calls \ {c} : status'[d] = status[d]
<1>1. status \in [Calls -> States] /\ holds \in SUBSET Calls BY DEF IInv, TypeOK, States
<1>2. c \notin holds BY DEF IInv, HoldShape
<1> QED BY <1>1, <1>2, CheckEffect

\* The call a new worker claims.
LEMMA SpawnEffect ==
  ASSUME IInv, SpawnWorker
  PROVE  /\ next \in 1..Len(waves[waveNo]) /\ next' = next + 1
         /\ waves[waveNo][next] \in Calls
         /\ status[waves[waveNo][next]] = "unclaimed"
         /\ status'[waves[waveNo][next]] \in {"ready", "waiting"}
         /\ \A d \in Calls \ {waves[waveNo][next]} : status'[d] = status[d]
<1>0. /\ next \in Nat \ {0} /\ spawned \in Nat /\ waves \in Seq(Seq(Calls))
      /\ phase = "spawn" /\ waveNo \in 1..Len(waves)
      /\ next = spawned + 1 /\ spawned < SlotLimit
  BY DEF IInv, TypeOK, SpawnWorker, PoolShape, Unreached
<1>1. next \in 1..Len(waves[waveNo])
  <2>1. Len(waves[waveNo]) \in Nat BY <1>0, WaveTypes
  <2>2. SlotLimit \in Nat /\ SlotLimit <= Len(waves[waveNo])
    BY <1>0, SlotLimitBounds DEF IInv
  <2> HIDE DEF SlotLimit
  <2> QED BY <1>0, <2>1, <2>2
<1>2. waves[waveNo][next] \in Calls BY <1>0, <1>1, WaveTypes
<1>3. status[waves[waveNo][next]] = "unclaimed"
  <2>1. next >= next BY <1>0
  <2> QED BY <2>1, <1>0, <1>1 DEF IInv, Unreached
<1>4. /\ CheckSlot(waves[waveNo][next], status, holds, perToolCount, perHostCount, perServerCount)
      /\ next' = next + 1
  BY DEF SpawnWorker, wave
<1> QED BY <1>1, <1>2, <1>3, <1>4, CheckStatus

\* No step takes back a claim or a report.
LEMMA NextForward == IInv /\ [Next]_vars => Forward
<1> SUFFICES ASSUME IInv, [Next]_vars PROVE Forward OBVIOUS
<1>1. CASE UNCHANGED status BY <1>1 DEF Forward
<1>2. CASE SpawnWorker BY <1>2, SpawnEffect DEF Forward
<1>3. ASSUME NEW c \in Calls, Recheck(c) PROVE Forward
  <2>1. /\ status'[c] \in {"ready", "waiting"} /\ status[c] = "waiting"
        /\ \A d \in Calls \ {c} : status'[d] = status[d]
    BY <1>3, CheckStatus DEF Recheck
  <2> QED BY <2>1 DEF Forward
<1>4. ASSUME NEW c \in Calls, StartCall(c) PROVE Forward
  <2>1. /\ status[c] = "ready" /\ status'[c] = "running"
        /\ \A d \in Calls \ {c} : status'[d] = status[d]
    BY <1>4 DEF StartCall, IInv, TypeOK
  <2> QED BY <2>1 DEF Forward
<1>5. ASSUME NEW c \in Calls, CancelCall(c) \/ SettleCall(c) PROVE Forward
  <2>1. phase = "run" /\ status[c] \in {"ready", "running"} /\ ReportAndClaim(c)
    BY <1>5 DEF CancelCall, SettleCall
  <2> QED BY <2>1, ReportEffect DEF Forward
<1>6. UNCHANGED status \/ SpawnWorker
      \/ \E c \in Calls : Recheck(c) \/ StartCall(c) \/ CancelCall(c) \/ SettleCall(c)
  BY DEF Next, PartitionCall, EndPartition, EndSpawn, EndWave, Abort, Returned, vars, waveVars
<1> QED BY <1>1, <1>2, <1>3, <1>4, <1>5, <1>6

-----------------------------------------------------------------------------
(* The invariant is inductive *)

\* The initial states satisfy the invariant.
LEMMA InitOInv == Init => OInv
<1> SUFFICES ASSUME Init PROVE OInv OBVIOUS
<1>1. WaveOrder
  <2>1. cursor = 1 /\ waves = <<>> /\ current = <<>> /\ Len(<<>>) = 0 BY DEF Init
  <2> QED BY <2>1 DEF WaveOrder, Ordered, Apart
<1>2. Passed BY DEF Init, Passed
<1> QED BY <1>1, <1>2, InitIInv DEF OInv

\* One iteration of the loop of partitionWaves: the call is put behind all calls
\* it must follow.
LEMMA PartitionCallOrder == OInv /\ PartitionCall => WaveOrder' /\ Passed'
<1> SUFFICES ASSUME OInv, PartitionCall PROVE WaveOrder' /\ Passed' OBVIOUS
<1>0. /\ waves \in Seq(Seq(Calls)) /\ current \in Seq(Calls) /\ cursor \in Calls
      /\ cursor \in Nat /\ phase = "partition" /\ phase' = "partition"
      /\ Shape(waves, current, cursor) /\ Ordered(Order, Barriers, waves, current, cursor)
      /\ cursor' = cursor + 1 /\ batch' = batch
  BY SizeAssumption DEF OInv, IInv, TypeOK, PartitionCall, Calls, WaveShape, WaveOrder
<1> DEFINE flush == MustFlush(cursor)
           ws == IF flush THEN Append(waves, current) ELSE waves
           kept == IF flush THEN <<>> ELSE current
<1>1. /\ Shape(ws, kept, cursor) /\ ws \in Seq(Seq(Calls)) /\ kept \in Seq(Calls)
      /\ Ordered(Order, Barriers, ws, kept, cursor)
  <2>1. CASE flush
    <3>1. current # <<>> BY <2>1 DEF MustFlush
    <3> QED BY <2>1, <3>1, <1>0, CloseWave, CloseOrdered
  <2>2. CASE ~flush BY <2>2, <1>0
  <2> QED BY <2>1, <2>2
<1>2. Ordered(Order, Barriers, waves', current', cursor + 1)
  <2>1. CASE IsSerialBarrier(cursor)
    <3>1. kept = <<>> BY <2>1 DEF MustFlush
    <3>2. waves' = Append(ws, <<cursor>>) /\ current' = kept
      BY <2>1 DEF PartitionCall
    <3> HIDE DEF ws, kept, flush
    <3> QED BY <3>1, <3>2, <1>0, <1>1, OrderType, BarrierOrdered
  <2>2. CASE ~IsSerialBarrier(cursor)
    <3>1. waves' = ws /\ current' = Append(kept, cursor)
      BY <2>2 DEF PartitionCall
    <3>2. cursor \notin Barriers BY <2>2 DEF Barriers
    <3>3. \A i \in 1..Len(kept) : kept[i] \notin Order[cursor]
      <4>1. CASE flush
        <5>1. Len(kept) = 0 BY <4>1
        <5> QED BY <5>1
      <4>2. CASE ~flush
        <5> SUFFICES ASSUME NEW i \in 1..Len(current) PROVE current[i] \notin MustFollow(cursor)
          BY <4>2, <1>0, OrderType
        <5>1. current # <<>> /\ i \in DOMAIN current BY <1>0
        <5>2. ~CallsConflict(cursor, current[i])
          BY <5>1, <4>2 DEF MustFlush, Conflicting
        <5>3. current[i] \in Calls /\ current[i] \notin Barriers BY <1>0 DEF Ordered
        <5>4. ~IsSerialBarrier(current[i]) BY <5>3 DEF Barriers
        <5> QED BY <2>2, <5>2, <5>4 DEF MustFollow
      <4> QED BY <4>1, <4>2
    <3> HIDE DEF ws, kept, flush
    <3> QED BY <3>1, <3>2, <3>3, <1>0, <1>1, OrderType, ExtendOrdered
  <2> QED BY <2>1, <2>2
<1>3. WaveOrder' BY <1>0, <1>2, OrderFixed DEF WaveOrder
<1> QED BY <1>0, <1>3 DEF Passed

\* Steps of the worker pool leave the partition alone.
LEMMA WaveOrderUnchanged ==
  ASSUME OInv, UNCHANGED <<batch, partitionVars>> PROVE WaveOrder'
BY OrderFixed DEF OInv, WaveOrder, partitionVars

\* Pushing the last wave: all calls are in waves now.
LEMMA EndPartitionOrder == OInv /\ EndPartition => WaveOrder' /\ Passed'
<1> SUFFICES ASSUME OInv, EndPartition PROVE WaveOrder' /\ Passed' OBVIOUS
<1>0. /\ waves \in Seq(Seq(Calls)) /\ current \in Seq(Calls) /\ cursor \in Nat
      /\ cursor = N + 1 /\ cursor' = cursor /\ batch' = batch /\ current' = <<>>
      /\ waves' = (IF current # <<>> THEN Append(waves, current) ELSE waves)
      /\ waveNo' = 1 /\ next' = 1 /\ phase' = IF waves' = <<>> THEN "returned" ELSE "spawn"
      /\ Shape(waves, current, cursor) /\ Ordered(Order, Barriers, waves, current, cursor)
  BY SizeAssumption
  DEF OInv, IInv, TypeOK, EndPartition, EnterWave, WaveShape, WaveOrder
<1>1. Ordered(Order, Barriers, waves', <<>>, cursor)
  <2>1. CASE current # <<>> BY <2>1, <1>0, CloseOrdered
  <2>2. CASE current = <<>> BY <2>2, <1>0
  <2> QED BY <2>1, <2>2
<1>2. WaveOrder' BY <1>0, <1>1, OrderFixed DEF WaveOrder
<1>3. CASE waves' = <<>>
  <2>1. ASSUME NEW c \in Calls PROVE FALSE
    <3>1. c \in 1..(cursor - 1) BY <1>0, SizeAssumption DEF Calls
    <3>2. InWaves(c, waves') \/ InWave(c, <<>>) BY <3>1, <1>1 DEF Ordered
    <3>3. Len(<<>>) = 0 OBVIOUS
    <3> QED BY <3>2, <3>3, <1>3 DEF InWaves, InWave
  <2> QED BY <2>1, <1>0, <1>2, <1>3 DEF Passed, Calls
<1>4. CASE waves' # <<>>
  <2>1. phase' = "spawn" BY <1>0, <1>4
  <2>2. \A v \in 1..Len(waves') : ~(v < waveNo') BY <1>0
  <2>3. \A i \in 1..Len(waves'[waveNo']) : ~(i < next') BY <1>0
  <2> QED BY <2>1, <2>2, <2>3, <1>0, <1>2 DEF Passed
<1> QED BY <1>3, <1>4

\* A wave whose workers have all returned is reported.
LEMMA WaveDone ==
  ASSUME OInv, phase = "run", live = 0
  PROVE  \A v \in 1..Len(waves) : v <= waveNo =>
           \A j \in 1..Len(waves[v]) : status[waves[v][j]] = "done"
<1>0. /\ waveNo \in 1..Len(waves) /\ waves \in Seq(Seq(Calls)) /\ next \in Nat
      /\ status \in [Calls -> States] /\ waveNo \in Nat
  BY DEF OInv, IInv, TypeOK, Unreached, States
<1>1. Len(waves[waveNo]) \in Nat /\ next > Len(waves[waveNo])
  <2>1. SlotLimit \in Nat /\ 1 <= SlotLimit BY <1>0, SlotLimitBounds DEF OInv, IInv
  <2>2. live >= SlotLimit \/ next > Len(waves[waveNo]) BY DEF OInv, Passed
  <2> HIDE DEF SlotLimit
  <2>3. ~(live >= SlotLimit) BY <2>1
  <2> QED BY <2>2, <2>3, <1>0, WaveTypes
<1>2. ActiveIn(status) = {} BY ActiveFinite, FS_EmptySet DEF OInv, IInv, PoolShape
<1>3. ASSUME NEW j \in 1..Len(waves[waveNo]) PROVE status[waves[waveNo][j]] = "done"
  <2>1. j < next BY <1>0, <1>1
  <2>2. status[waves[waveNo][j]] # "unclaimed" BY <2>1 DEF OInv, Passed
  <2>3. waves[waveNo][j] \in Calls BY <1>0, WaveTypes
  <2>4. status[waves[waveNo][j]] \in States BY <2>3, <1>0
  <2> QED BY <2>2, <2>3, <2>4, <1>2 DEF ActiveIn, ActiveStates, States
<1>4. ASSUME NEW v \in 1..Len(waves), v < waveNo, NEW j \in 1..Len(waves[v])
      PROVE  status[waves[v][j]] = "done"
  BY <1>4 DEF OInv, Passed
<1>5. \A v \in 1..Len(waves) : v <= waveNo => v = waveNo \/ v < waveNo BY <1>0
<1> QED BY <1>3, <1>4, <1>5

\* The end of a wave, or of the last one.
LEMMA EndWaveOrder == OInv /\ EndWave => WaveOrder' /\ Passed'
<1> SUFFICES ASSUME OInv, EndWave PROVE WaveOrder' /\ Passed' OBVIOUS
<1>0. /\ phase = "run" /\ live = 0 /\ waveNo \in 1..Len(waves) /\ waveNo \in Nat
      /\ waves \in Seq(Seq(Calls)) /\ status' = status /\ waves' = waves
      /\ cursor = N + 1 /\ current = <<>> /\ cursor' = cursor /\ current' = current
      /\ next' = 1 /\ UNCHANGED <<batch, partitionVars>>
  BY DEF OInv, IInv, TypeOK, Unreached, Passed, EndWave, EnterWave, partitionVars
<1>1. WaveOrder' BY <1>0, WaveOrderUnchanged
<1>2. CASE waveNo = Len(waves)
  <2>1. phase' = "returned" BY <1>2 DEF EndWave
  <2>2. ASSUME NEW c \in Calls PROVE status[c] = "done"
    <3>1. c \in 1..(cursor - 1) BY <1>0, SizeAssumption DEF Calls
    <3>2. InWaves(c, waves) \/ InWave(c, <<>>) BY <3>1, <1>0 DEF OInv, WaveOrder, Ordered
    <3>3. ~InWave(c, <<>>) BY DEF InWave
    <3>4. PICK w \in 1..Len(waves) : \E i \in 1..Len(waves[w]) : waves[w][i] = c
      BY <3>2, <3>3 DEF InWaves
    <3>5. w <= waveNo BY <1>0, <1>2
    <3> QED BY <3>4, <3>5, <1>0, WaveDone
  <2> QED BY <2>1, <2>2, <1>0, <1>1 DEF Passed, Calls
<1>3. CASE waveNo # Len(waves)
  <2>1. phase' = "spawn" /\ waveNo' = waveNo + 1 BY <1>3 DEF EndWave, EnterWave
  <2>2. \A v \in 1..Len(waves) : v < waveNo' => v <= waveNo BY <2>1, <1>0
  <2>3. \A i \in 1..Len(waves'[waveNo']) : ~(i < next') BY <1>0
  <2> QED BY <2>1, <2>2, <2>3, <1>0, <1>1, WaveDone DEF Passed
<1> QED BY <1>2, <1>3

\* The steps of a wave: what is passed stays passed.
LEMMA WaveStepPassed ==
  ASSUME OInv, Forward, phase \in {"spawn", "run"}, phase' \in {"spawn", "run"},
         UNCHANGED <<batch, partitionVars, waveNo>>, next' \in {next, next + 1},
         next' = next + 1 => \A i \in 1..Len(waves[waveNo]) :
                               i = next => status'[waves[waveNo][i]] # "unclaimed",
         phase' = "run" => live' >= SlotLimit \/ next' > Len(waves[waveNo])
  PROVE  WaveOrder' /\ Passed'
<1>0. /\ waveNo \in 1..Len(waves) /\ waves \in Seq(Seq(Calls)) /\ next \in Nat
      /\ waves' = waves /\ waveNo' = waveNo /\ cursor' = cursor /\ current' = current
      /\ cursor = N + 1 /\ current = <<>>
  BY DEF OInv, IInv, TypeOK, Unreached, Passed, partitionVars
<1>1. ASSUME NEW v \in 1..Len(waves), v < waveNo, NEW j \in 1..Len(waves[v])
      PROVE  status'[waves[v][j]] = "done"
  <2>1. waves[v][j] \in Calls BY <1>0, WaveTypes
  <2>2. status[waves[v][j]] = "done" BY <1>1 DEF OInv, Passed
  <2> QED BY <2>1, <2>2 DEF Forward
<1>2. ASSUME NEW i \in 1..Len(waves[waveNo]), i < next'
      PROVE  status'[waves[waveNo][i]] # "unclaimed"
  <2>1. waves[waveNo][i] \in Calls BY <1>0, WaveTypes
  <2>2. CASE i < next
    <3>1. status[waves[waveNo][i]] # "unclaimed" BY <2>2 DEF OInv, Passed
    <3> QED BY <2>1, <3>1 DEF Forward
  <2>3. CASE ~(i < next)
    <3>1. next' = next + 1 /\ i = next BY <1>2, <2>3, <1>0
    <3> QED BY <3>1
  <2> QED BY <2>2, <2>3
<1>3. SlotLimit' = SlotLimit BY <1>0 DEF SlotLimit, wave
<1>4. WaveOrder' BY WaveOrderUnchanged
<1> HIDE DEF SlotLimit
<1> QED BY <1>0, <1>1, <1>2, <1>3, <1>4 DEF Passed

\* Every step of the scheduler keeps the invariant.
LEMMA NextOInv == OInv /\ [Next]_vars => OInv'
<1> SUFFICES ASSUME OInv, [Next]_vars PROVE OInv' OBVIOUS
<1>0. IInv /\ IInv' /\ Forward BY NextIInv, NextForward DEF OInv
<1> SUFFICES WaveOrder' /\ Passed' BY <1>0 DEF OInv
<1>1. CASE PartitionCall BY <1>1, PartitionCallOrder
<1>2. CASE EndPartition BY <1>2, EndPartitionOrder
<1>3. CASE EndWave BY <1>3, EndWaveOrder
<1>4. CASE SpawnWorker
  <2>1. /\ phase = "spawn" /\ phase' = "spawn" /\ UNCHANGED <<batch, partitionVars, waveNo>>
    BY <1>4 DEF SpawnWorker
  <2>2. next' = next + 1 /\ status'[waves[waveNo][next]] # "unclaimed"
    BY <1>0, <1>4, SpawnEffect
  <2> QED BY <2>1, <2>2, <1>0, WaveStepPassed
<1>5. CASE EndSpawn
  <2>1. /\ phase = "spawn" /\ phase' = "run" /\ UNCHANGED <<batch, partitionVars, waveNo>>
        /\ next' = next /\ live' = live /\ spawned = SlotLimit
    BY <1>5 DEF EndSpawn, waveVars
  <2>2. live = spawned /\ next \in Nat /\ spawned \in Nat BY <1>0, <2>1 DEF IInv, PoolShape, TypeOK
  <2> HIDE DEF SlotLimit
  <2>3. live' >= SlotLimit /\ next' # next + 1 BY <2>1, <2>2
  <2> QED BY <2>1, <2>3, <1>0, WaveStepPassed
<1>6. ASSUME NEW c \in Calls, Recheck(c) \/ StartCall(c) PROVE WaveOrder' /\ Passed'
  <2>1. /\ phase = "run" /\ phase' = "run" /\ UNCHANGED <<batch, partitionVars, waveNo>>
        /\ next' = next /\ live' = live
    BY <1>6 DEF Recheck, StartCall
  <2>2. next' # next + 1 BY <2>1, <1>0 DEF IInv, TypeOK
  <2>3. live' >= SlotLimit \/ next' > Len(waves[waveNo]) BY <2>1 DEF OInv, Passed
  <2> QED BY <2>1, <2>2, <2>3, <1>0, WaveStepPassed
<1>7. ASSUME NEW c \in Calls, CancelCall(c) \/ SettleCall(c) PROVE WaveOrder' /\ Passed'
  <2>1. /\ phase = "run" /\ phase' = "run" /\ UNCHANGED <<batch, partitionVars, waveNo>>
        /\ status[c] \in {"ready", "running"} /\ ReportAndClaim(c)
    BY <1>7 DEF CancelCall, SettleCall
  <2>2. /\ next' = next + 1 /\ next \in Nat /\ Len(waves[waveNo]) \in Nat
        /\ \/ /\ next \in 1..Len(waves[waveNo]) /\ live' = live
              /\ status'[waves[waveNo][next]] \in {"ready", "waiting"}
           \/ next > Len(waves[waveNo])
    <3>1. Len(waves[waveNo]) \in Nat /\ next \in Nat
      BY <1>0, <2>1, WaveTypes DEF IInv, TypeOK, Unreached
    <3> QED BY <3>1, <2>1, <1>0, ReportEffect
  <2>3. \A i \in 1..Len(waves[waveNo]) : i = next => status'[waves[waveNo][i]] # "unclaimed"
    BY <2>2
  <2>4. live >= SlotLimit \/ next > Len(waves[waveNo]) BY <2>1 DEF OInv, Passed
  <2> HIDE DEF SlotLimit
  <2>5. live' >= SlotLimit \/ next' > Len(waves[waveNo]) BY <2>2, <2>4
  <2> QED BY <2>1, <2>2, <2>3, <2>5, <1>0, WaveStepPassed
<1>8. CASE Abort \/ Returned \/ UNCHANGED vars
  <2>1. UNCHANGED <<batch, phase, partitionVars, waveVars>>
    BY <1>8 DEF Abort, Returned, vars
  <2>2. WaveOrder' BY <2>1, WaveOrderUnchanged
  <2>3. Passed' BY <2>1 DEF OInv, Passed, SlotLimit, wave, Calls, partitionVars, waveVars
  <2> QED BY <2>2, <2>3
<1> QED BY <1>1, <1>2, <1>3, <1>4, <1>5, <1>6, <1>7, <1>8 DEF Next

-----------------------------------------------------------------------------
(* The order of the calls *)

\* The invariant holds in every reachable state of every instance.
THEOREM OrderInvariance == Spec => []OInv
BY InitOInv, NextOInv, PTL DEF Spec

\* A claimed call comes after the calls it must follow, wherever the workers are.
LEMMA OrderFromInvariant == OInv => OrderPreserved
<1> SUFFICES ASSUME OInv, NEW c \in Calls, status[c] # "unclaimed", NEW d \in MustFollow(c)
             PROVE  status[d] = "done"
  BY DEF OrderPreserved
<1>0. d \in Calls /\ d < c /\ c \in Nat /\ d \in Nat /\ d \in Order[c]
  BY OrderType, CallsFinite
<1>1. CASE phase = "partition" BY <1>1 DEF OInv, IInv, Unreached
<1>2. CASE phase = "returned" BY <1>0, <1>2 DEF OInv, Passed
<1>3. CASE phase \in {"spawn", "run"}
  <2>0. /\ waves \in Seq(Seq(Calls)) /\ waveNo \in 1..Len(waves) /\ cursor = N + 1
        /\ current = <<>> /\ Ordered(Order, Barriers, waves, <<>>, N + 1)
    BY <1>3 DEF OInv, IInv, TypeOK, Unreached, Passed, WaveOrder
  <2>1. \A x \in Calls : InWaves(x, waves)
    <3> SUFFICES ASSUME NEW x \in Calls PROVE InWaves(x, waves) OBVIOUS
    <3>1. x \in 1..((N + 1) - 1) BY SizeAssumption DEF Calls
    <3>2. ~InWave(x, <<>>) BY DEF InWave
    <3> QED BY <3>1, <3>2, <2>0 DEF Ordered
  <2>2. PICK w \in 1..Len(waves) : \E i \in 1..Len(waves[w]) : waves[w][i] = c
    BY <2>1 DEF InWaves
  <2>3. PICK v \in 1..Len(waves) : \E j \in 1..Len(waves[v]) : waves[v][j] = d
    BY <2>1, <1>0 DEF InWaves
  <2>4. w <= waveNo
    <3>1. ~(w > waveNo) BY <1>3, <2>2 DEF OInv, IInv, Unreached
    <3> QED BY <3>1, <2>0
  <2>5. ~(w < v)
    <3>1. w < v => c < d BY <2>0, <2>2, <2>3 DEF Ordered
    <3> QED BY <3>1, <1>0
  <2>6. w # v BY <2>0, <2>2, <2>3, <1>0 DEF Ordered, Apart
  <2>7. v < waveNo BY <2>0, <2>4, <2>5, <2>6
  <2> QED BY <2>3, <2>7, <1>3 DEF OInv, Passed
<1>4. phase \in {"partition", "spawn", "run", "returned"} BY DEF OInv, IInv, TypeOK
<1> QED BY <1>1, <1>2, <1>3, <1>4

\* Serial barriers and conflicting calls run in the order the model wrote them,
\* for every batch and all limits (partitionWaves, run).
THEOREM OrderHolds == Spec => []OrderPreserved
BY OrderInvariance, OrderFromInvariant, PTL

-----------------------------------------------------------------------------
(* The scheduler implements ToolBatch *)

\* What the contract sees of a call.
Shown(st) == [c \in Calls |-> IF st[c] \in {"running", "done"} THEN st[c] ELSE "pending"]

\* The initial states of the scheduler are initial states of the contract.
LEMMA RefinesInit == Init => Batch!Init
<1> SUFFICES ASSUME Init PROVE Batch!Init OBVIOUS
<1>1. Order \in [Calls -> SUBSET Calls] BY OrderType DEF Order
<1>2. \A c \in Calls : \A d \in Order[c] : d < c BY OrderType
<1>3. Shown(status) = [c \in Calls |-> "pending"] BY DEF Init, Shown
<1>4. aborted \in BOOLEAN BY DEF Init
<1> QED BY <1>1, <1>2, <1>3, <1>4 DEF Batch!Init, Batch!Indexes, Order, Shown, Calls

\* A call that changes from one shown state to another, with no other change.
LEMMA ShownChange ==
  ASSUME NEW c \in Calls, NEW s \in {"running", "done"}, status'[c] = s,
         \A d \in Calls \ {c} : Shown(status')[d] = Shown(status)[d]
  PROVE  Shown(status') = [Shown(status) EXCEPT ![c] = s]
<1>1. Shown(status')[c] = s BY DEF Shown
<1>2. DOMAIN Shown(status') = Calls /\ DOMAIN Shown(status) = Calls BY DEF Shown
<1>3. Shown(status') = [d \in Calls |-> Shown(status')[d]] BY DEF Shown
<1>4. [Shown(status) EXCEPT ![c] = s] = [d \in Calls |-> IF d = c THEN s ELSE Shown(status)[d]]
  BY <1>2
<1>5. \A d \in Calls : Shown(status')[d] = IF d = c THEN s ELSE Shown(status)[d] BY <1>1
<1> QED BY <1>3, <1>4, <1>5

\* The contract counts calls the way the scheduler does.
LEMMA SameCardinality == \A S : Batch!Cardinality(S) = Cardinality(S)
BY Zenon DEF Batch!Cardinality, Cardinality

\* A call starts: fewer calls run than workers live.
LEMMA RefinesStart ==
  ASSUME OInv, NEW c \in Calls, StartCall(c) PROVE Batch!Start(c)
<1>0. /\ status \in [Calls -> States] /\ status[c] = "ready" /\ ~aborted
      /\ status'[c] = "running" /\ \A d \in Calls \ {c} : status'[d] = status[d]
      /\ batch' = batch /\ aborted' = aborted
  BY DEF OInv, IInv, TypeOK, States, StartCall
<1>1. \A d \in MustFollow(c) : d \in Calls /\ status[d] = "done"
  BY <1>0, OrderFromInvariant, OrderType DEF OrderPreserved
<1>2. Cardinality(Running) < MaxOf(1, GlobalMax)
  <2>1. Running \cup {c} \subseteq ActiveIn(status) /\ c \notin Running /\ Running \subseteq Calls
    BY <1>0 DEF Running, ActiveIn, ActiveStates
  <2>2. IsFiniteSet(Running) BY <2>1, CallsFinite, FS_Subset
  <2>3. /\ Cardinality(Running \cup {c}) = Cardinality(Running) + 1
        /\ Cardinality(Running) \in Nat
    BY <2>1, <2>2, FS_AddElement, FS_CardinalityType
  <2>4. Cardinality(Running \cup {c}) <= Cardinality(ActiveIn(status))
    BY <2>1, ActiveFinite, FS_Subset
  <2>5. Cardinality(ActiveIn(status)) = live /\ live <= MaxOf(1, GlobalMax) /\ live \in Int
    BY DEF OInv, IInv, PoolShape, TypeOK
  <2>6. MaxOf(1, GlobalMax) \in Int BY LimitsAssumption DEF MaxOf
  <2> QED BY <2>3, <2>4, <2>5, <2>6
<1>3. Shown(status') = [Shown(status) EXCEPT ![c] = "running"]
  BY <1>0, ShownChange DEF Shown
<1>4. Shown(status)[c] = "pending" BY <1>0 DEF Shown
<1>5. \A d \in Order[c] : Shown(status)[d] = "done" BY <1>1, OrderType DEF Shown
<1>6. Order' = Order BY <1>0, OrderFixed
<1>7. Batch!Running = Running BY DEF Batch!Running, Batch!Indexes, Calls, Running
<1> QED BY <1>0, <1>2, <1>3, <1>4, <1>5, <1>6, <1>7, SameCardinality DEF Batch!Start, Order, Shown

\* A call is reported; the call its worker claims next stays pending.
LEMMA RefinesReport ==
  ASSUME OInv, NEW c \in Calls, CancelCall(c) \/ SettleCall(c)
  PROVE  Batch!Report(c) \/ Batch!ReportCancelled(c)
<1>0. /\ phase = "run" /\ status[c] \in {"ready", "running"} /\ ReportAndClaim(c)
      /\ status[c] = "ready" => aborted
      /\ batch' = batch /\ aborted' = aborted
  BY DEF CancelCall, SettleCall
<1>1. /\ status'[c] = "done"
      /\ \A d \in Calls \ {c} :
           \/ status'[d] = status[d]
           \/ status[d] = "unclaimed" /\ status'[d] \in {"ready", "waiting"}
  BY <1>0, ReportEffect DEF OInv
<1>2. Shown(status') = [Shown(status) EXCEPT ![c] = "done"]
  <2>1. \A d \in Calls \ {c} : Shown(status')[d] = Shown(status)[d] BY <1>1 DEF Shown
  <2> QED BY <2>1, <1>1, ShownChange
<1>3. Order' = Order BY <1>0, OrderFixed
<1>4. CASE status[c] = "running"
  <2>1. Shown(status)[c] = "running" BY <1>4 DEF Shown
  <2> QED BY <2>1, <1>0, <1>2, <1>3 DEF Batch!Report, Order, Shown
<1>5. CASE status[c] = "ready"
  <2>1. Shown(status)[c] = "pending" /\ aborted BY <1>0, <1>5 DEF Shown
  <2>2. \A d \in MustFollow(c) : d \in Calls /\ status[d] = "done"
    BY <1>5, OrderFromInvariant, OrderType DEF OrderPreserved
  <2>3. \A d \in Order[c] : Shown(status)[d] = "done" BY <2>2, OrderType DEF Shown
  <2> QED BY <2>1, <2>3, <1>0, <1>2, <1>3 DEF Batch!ReportCancelled, Order, Shown
<1> QED BY <1>0, <1>4, <1>5

\* Steps that start and report nothing are invisible.
LEMMA RefinesStutter ==
  ASSUME batch' = batch, aborted' = aborted, Shown(status') = Shown(status)
  PROVE  UNCHANGED Batch!batchVars
<1>1. Order' = Order BY OrderFixed
<1> QED BY <1>1 DEF Batch!batchVars, Order, Shown

\* Every step of the scheduler is a step of the contract, or invisible.
LEMMA RefinesNext == OInv /\ [Next]_vars => [Batch!Next]_(Batch!batchVars)
<1> SUFFICES ASSUME OInv, [Next]_vars PROVE [Batch!Next]_(Batch!batchVars) OBVIOUS
<1>0. IInv BY DEF OInv
<1>1. ASSUME NEW c \in Calls, StartCall(c) PROVE Batch!Next
  BY <1>1, RefinesStart DEF Batch!Next, Batch!Indexes, Calls
<1>2. ASSUME NEW c \in Calls, CancelCall(c) \/ SettleCall(c) PROVE Batch!Next
  BY <1>2, RefinesReport DEF Batch!Next, Batch!Indexes, Calls
<1>3. CASE Abort
  <2>1. ~aborted /\ aborted' = TRUE /\ batch' = batch /\ status' = status
    BY <1>3 DEF Abort, waveVars
  <2>2. Order' = Order /\ Shown(status') = Shown(status) BY <2>1, OrderFixed
  <2> QED BY <2>1, <2>2 DEF Batch!Next, Batch!Stop, Order, Shown
<1>4. CASE SpawnWorker
  <2>1. batch' = batch /\ aborted' = aborted BY <1>4 DEF SpawnWorker
  <2>2. Shown(status') = Shown(status) BY <1>0, <1>4, SpawnEffect DEF Shown
  <2> QED BY <2>1, <2>2, RefinesStutter
<1>5. ASSUME NEW c \in Calls, Recheck(c) PROVE UNCHANGED Batch!batchVars
  <2>1. batch' = batch /\ aborted' = aborted /\ status[c] = "waiting" BY <1>5 DEF Recheck
  <2>2. /\ status'[c] \in {"ready", "waiting"}
        /\ \A d \in Calls \ {c} : status'[d] = status[d]
    BY <1>0, <1>5, CheckStatus DEF Recheck
  <2>3. Shown(status') = Shown(status) BY <2>1, <2>2 DEF Shown
  <2> QED BY <2>1, <2>3, RefinesStutter
<1>6. CASE PartitionCall \/ EndPartition \/ EndSpawn \/ EndWave \/ Returned \/ UNCHANGED vars
  <2>1. batch' = batch /\ aborted' = aborted /\ status' = status
    BY <1>6 DEF PartitionCall, EndPartition, EndSpawn, EndWave, Returned, vars, waveVars
  <2> QED BY <2>1, RefinesStutter
<1> QED BY <1>1, <1>2, <1>3, <1>4, <1>5, <1>6 DEF Next

\* Waves, workers, slots and timers implement the contract of ToolBatch, for
\* every batch and all limits: calls start in an admissible order, at most
\* GlobalMax at once, and none after an abort.
THEOREM Refinement == Spec => ImplementsToolBatch
<1>1. OInv /\ [Next]_vars => [Batch!Next]_(Batch!batchVars) BY RefinesNext
<1> QED BY RefinesInit, <1>1, OrderInvariance, PTL DEF Spec, ImplementsToolBatch, Batch!Spec
-----------------------------------------------------------------------------
(* The results come back in call order *)

\* What comes before another result in the sorted order has a smaller place.
LEMMA PlaceLess ==
  ASSUME NEW s \in Seq(Calls), NEW i \in 1..Len(s), NEW j \in 1..Len(s),
         s[i] < s[j] \/ (s[i] = s[j] /\ i < j)
  PROVE  Cardinality(NotAfter(s, i)) < Cardinality(NotAfter(s, j))
<1> DEFINE A == NotAfter(s, i)  B == NotAfter(s, j)
<1>0. /\ DOMAIN s = 1..Len(s) /\ Len(s) \in Nat
      /\ \A k \in 1..Len(s) : s[k] \in Nat
  <2>1. DOMAIN s = 1..Len(s) /\ Len(s) \in Nat OBVIOUS
  <2>2. \A k \in 1..Len(s) : s[k] \in Calls OBVIOUS
  <2>3. Calls \subseteq Nat BY CallsFinite
  <2> QED BY <2>1, <2>2, <2>3
<1>1. A \subseteq B BY <1>0 DEF NotAfter
<1>2. j \in B /\ j \notin A BY <1>0 DEF NotAfter
<1>3. B \subseteq 1..Len(s) BY <1>0 DEF NotAfter
<1> HIDE DEF A, B
<1>4. IsFiniteSet(B)
  <2>1. IsFiniteSet(1..Len(s)) BY <1>0, FS_Interval
  <2> QED BY <2>1, <1>3, FS_Subset
<1>5. /\ Cardinality(A) <= Cardinality(B) /\ Cardinality(A) # Cardinality(B)
      /\ IsFiniteSet(A)
  BY <1>1, <1>2, <1>4, FS_Subset
<1>6. Cardinality(A) \in Nat /\ Cardinality(B) \in Nat BY <1>4, <1>5, FS_CardinalityType
<1> QED BY <1>5, <1>6 DEF A, B

\* Every position of the sorted results is the place of exactly one result.
LEMMA Places ==
  ASSUME NEW s \in Seq(Calls)
  PROVE  /\ \A k \in 1..Len(s) : \E i \in 1..Len(s) : Cardinality(NotAfter(s, i)) = k
         /\ \A i \in 1..Len(s) : Cardinality(NotAfter(s, i)) \in 1..Len(s)
<1> DEFINE n == Len(s)  P == [i \in 1..n |-> Cardinality(NotAfter(s, i))]
<1>0. /\ DOMAIN s = 1..n /\ n \in Nat
      /\ \A k \in 1..n : s[k] \in Nat
  <2>1. DOMAIN s = 1..n /\ n \in Nat OBVIOUS
  <2>2. \A k \in 1..n : s[k] \in Calls OBVIOUS
  <2>3. Calls \subseteq Nat BY CallsFinite
  <2> QED BY <2>1, <2>2, <2>3
<1>1. IsFiniteSet(1..n) /\ Cardinality(1..n) = n
  <2> SUFFICES ASSUME NEW m \in Nat PROVE IsFiniteSet(1..m) /\ Cardinality(1..m) = m
    BY <1>0
  <2>1. IsFiniteSet(1..m) /\ Cardinality(1..m) = IF 1 > m THEN 0 ELSE m - 1 + 1
    BY FS_Interval
  <2> QED BY <2>1
<1>2. ASSUME NEW i \in 1..n PROVE Cardinality(NotAfter(s, i)) \in 1..n
  <2>1. NotAfter(s, i) \subseteq 1..n /\ i \in NotAfter(s, i) BY <1>0 DEF NotAfter
  <2>2. /\ IsFiniteSet(NotAfter(s, i)) /\ Cardinality(NotAfter(s, i)) <= n
        /\ Cardinality(NotAfter(s, i)) \in Nat
    BY <2>1, <1>1, FS_Subset, FS_CardinalityType
  <2>3. Cardinality(NotAfter(s, i)) # 0 BY <2>1, <2>2, FS_EmptySet
  <2> QED BY <2>2, <2>3, <1>0
<1>3. P \in [1..n -> 1..n] BY <1>2
<1>4. ASSUME NEW i \in 1..n, NEW j \in 1..n, P[i] = P[j] PROVE i = j
  <2>1. \/ s[i] < s[j] \/ (s[i] = s[j] /\ i < j)
        \/ s[j] < s[i] \/ (s[j] = s[i] /\ j < i)
        \/ i = j
    BY <1>0
  <2>2. /\ Cardinality(NotAfter(s, i)) = Cardinality(NotAfter(s, j))
        /\ Cardinality(NotAfter(s, i)) \in Nat
    BY <1>2, <1>4
  <2>3. ~(Cardinality(NotAfter(s, i)) < Cardinality(NotAfter(s, j)))
        /\ ~(Cardinality(NotAfter(s, j)) < Cardinality(NotAfter(s, i)))
    BY <2>2
  <2> QED BY <2>1, <2>3, PlaceLess
<1> HIDE DEF P
<1>5. P \in Injection(1..n, 1..n) BY <1>3, <1>4 DEF Injection, IsInjective
<1>6. P \in Surjection(1..n, 1..n) BY <1>1, <1>5, FS_Injection
<1>7. \A k \in 1..n : \E i \in 1..n : P[i] = k BY <1>6 DEF Surjection
<1> QED BY <1>2, <1>7 DEF P

\* Sorting moves the results and changes nothing else: q[k] is the old position
\* of the k-th result.
LEMMA SortMoves ==
  ASSUME NEW s \in Seq(Calls)
  PROVE  \E q \in [1..Len(s) -> 1..Len(s)] :
           /\ \A k \in 1..Len(s) : Cardinality(NotAfter(s, q[k])) = k
           /\ ByIndex(s) = [k \in 1..Len(s) |-> s[q[k]]]
<1> DEFINE q == [k \in 1..Len(s) |->
                   CHOOSE i \in 1..Len(s) : Cardinality(NotAfter(s, i)) = k]
<1>1. DOMAIN s = 1..Len(s) OBVIOUS
<1>2. ASSUME NEW k \in 1..Len(s)
      PROVE  q[k] \in 1..Len(s) /\ Cardinality(NotAfter(s, q[k])) = k
  <2>1. \E i \in 1..Len(s) : Cardinality(NotAfter(s, i)) = k BY Places
  <2> QED BY <2>1
<1>3. q \in [1..Len(s) -> 1..Len(s)] BY <1>2
<1>4. ByIndex(s) = [k \in 1..Len(s) |-> s[q[k]]] BY <1>1 DEF ByIndex
<1> HIDE DEF q
<1> QED BY <1>2, <1>3, <1>4

\* The calls of a sequence, and that it repeats none.
CallsOf(s) == {d \in Calls : \E i \in 1..Len(s) : s[i] = d}
Repeatless(s) == \A i, j \in 1..Len(s) : s[i] = s[j] => i = j

\* Sorted results are those of the same calls.
LEMMA SortKeeps ==
  ASSUME NEW s \in Seq(Calls)
  PROVE  /\ ByIndex(s) \in Seq(Calls)
         /\ CallsOf(ByIndex(s)) = CallsOf(s)
         /\ Repeatless(s) => Repeatless(ByIndex(s))
<1> DEFINE n == Len(s)
<1>0. n \in Nat /\ \A i \in 1..n : s[i] \in Calls OBVIOUS
<1> HIDE DEF n
<1>1. PICK q \in [1..n -> 1..n] :
           /\ \A k \in 1..n : Cardinality(NotAfter(s, q[k])) = k
           /\ ByIndex(s) = [k \in 1..n |-> s[q[k]]]
  BY SortMoves DEF n
<1> DEFINE t == ByIndex(s)
<1>2. t = [k \in 1..n |-> s[q[k]]] BY <1>1
<1> HIDE DEF t
<1>3. t \in Seq(Calls) /\ Len(t) = n
  <2>1. t \in [1..n -> Calls] BY <1>0, <1>1, <1>2
  <2> QED BY <2>1, <1>0
<1>4. \A k \in 1..n : t[k] = s[q[k]] /\ q[k] \in 1..n BY <1>1, <1>2
<1>5. \A i \in 1..n : \E k \in 1..n : q[k] = i
  <2> SUFFICES ASSUME NEW i \in 1..n PROVE \E k \in 1..n : q[k] = i OBVIOUS
  <2> DEFINE k == Cardinality(NotAfter(s, i))
  <2>1. k \in 1..n BY Places DEF n
  <2>2. /\ q[k] \in 1..n /\ Cardinality(NotAfter(s, q[k])) = k
        /\ Cardinality(NotAfter(s, i)) = k
    BY <2>1, <1>1
  <2> HIDE DEF k
  <2>3. q[k] = i
    <3>1. /\ s[q[k]] \in Nat /\ s[i] \in Nat /\ q[k] \in Nat /\ i \in Nat
      <4>1. s[q[k]] \in Calls /\ s[i] \in Calls BY <2>2, <1>0
      <4>2. Calls \subseteq Nat BY CallsFinite
      <4>3. 1..n \subseteq Nat BY <1>0
      <4> QED BY <4>1, <4>2, <4>3, <2>2
    <3>2. \/ s[i] < s[q[k]] \/ (s[i] = s[q[k]] /\ i < q[k])
          \/ s[q[k]] < s[i] \/ (s[q[k]] = s[i] /\ q[k] < i)
          \/ i = q[k]
      BY <3>1
    <3>3. k \in Nat BY <2>1
    <3>4. ~(k < k) BY <3>3
    <3> QED BY <2>2, <3>2, <3>4, PlaceLess DEF n
  <2> QED BY <2>1, <2>3
<1>6. CallsOf(t) = CallsOf(s)
  <2>1. ASSUME NEW d \in Calls, NEW k \in 1..n, t[k] = d PROVE \E i \in 1..n : s[i] = d
    BY <2>1, <1>4
  <2>2. ASSUME NEW d \in Calls, NEW i \in 1..n, s[i] = d PROVE \E k \in 1..n : t[k] = d
    <3>1. PICK k \in 1..n : q[k] = i BY <1>5
    <3>2. t[k] = d BY <3>1, <2>2, <1>4
    <3> QED BY <3>2
  <2> QED BY <2>1, <2>2, <1>3 DEF CallsOf, n
<1>7. ASSUME Repeatless(s) PROVE Repeatless(t)
  <2> SUFFICES ASSUME NEW k \in 1..n, NEW l \in 1..n, t[k] = t[l] PROVE k = l
    BY <1>3 DEF Repeatless
  <2>1. s[q[k]] = s[q[l]] /\ q[k] \in 1..n /\ q[l] \in 1..n BY <1>4
  <2>2. q[k] = q[l] BY <2>1, <1>7 DEF Repeatless, n
  <2> QED BY <2>2, <1>1
<1> QED BY <1>3, <1>6, <1>7 DEF t

\* A sequence that holds every call once is sorted into the order of the batch.
LEMMA SortAll ==
  ASSUME NEW s \in Seq(Calls), Repeatless(s), CallsOf(s) = Calls
  PROVE  ByIndex(s) = [i \in 1..N |-> i]
<1> DEFINE n == Len(s)
<1>0. n \in Nat /\ (\A i \in 1..n : s[i] \in Calls) /\ DOMAIN s = 1..n OBVIOUS
<1>1. \A d \in Calls : \E i \in 1..n : s[i] = d BY DEF CallsOf
<1>2. \A i, j \in 1..n : s[i] = s[j] => i = j BY DEF Repeatless
<1>3. PICK q \in [1..n -> 1..n] :
           /\ \A k \in 1..n : Cardinality(NotAfter(s, q[k])) = k
           /\ ByIndex(s) = [k \in 1..n |-> s[q[k]]]
  BY SortMoves
<1> HIDE DEF n
<1>4. ASSUME NEW i \in 1..n PROVE Cardinality(NotAfter(s, i)) = s[i]
  <2> DEFINE S == NotAfter(s, i)  f == [j \in S |-> s[j]]
  <2>1. /\ s[i] \in Nat /\ s[i] >= 1 /\ s[i] <= N
        /\ \A j \in 1..n : s[j] \in Nat /\ s[j] >= 1 /\ s[j] <= N
    BY <1>0, SizeAssumption DEF Calls
  <2>2. S = {j \in 1..n : s[j] <= s[i]}
    <3>1. \A j \in 1..n : (s[j] < s[i] \/ (s[j] = s[i] /\ j <= i)) <=> s[j] <= s[i]
      <4> SUFFICES ASSUME NEW j \in 1..n
                   PROVE  (s[j] < s[i] \/ (s[j] = s[i] /\ j <= i)) <=> s[j] <= s[i]
        OBVIOUS
      <4>1. s[j] = s[i] => j = i BY <1>2
      <4>2. s[j] \in Nat /\ s[i] \in Nat /\ i \in Nat BY <2>1
      <4> QED BY <4>1, <4>2
    <3> QED BY <3>1, <1>0 DEF NotAfter
  <2> HIDE DEF S
  <2>3. f \in [S -> 1..s[i]] BY <2>1, <2>2
  <2>4. \A j, k \in S : f[j] = f[k] => j = k BY <2>2, <1>2
  <2>5. \A m \in 1..s[i] : \E j \in S : f[j] = m
    <3> SUFFICES ASSUME NEW m \in 1..s[i] PROVE \E j \in S : f[j] = m OBVIOUS
    <3>1. m \in Calls BY <2>1, SizeAssumption DEF Calls
    <3>2. PICK j \in 1..n : s[j] = m BY <3>1, <1>1
    <3>3. j \in S BY <3>2, <2>1, <2>2
    <3> QED BY <3>2, <3>3
  <2> HIDE DEF f
  <2>6. f \in Bijection(S, 1..s[i])
    BY <2>3, <2>4, <2>5 DEF Bijection, Injection, Surjection, IsInjective
  <2>7. ExistsBijection(S, 1..s[i]) BY <2>6 DEF ExistsBijection
  <2>8. IsFiniteSet(S)
    <3>1. S \subseteq 1..n BY <2>2
    <3>2. IsFiniteSet(1..n) BY <1>0, FS_Interval
    <3> QED BY <3>1, <3>2, FS_Subset
  <2>9. Cardinality(1..s[i]) = Cardinality(S) BY <2>7, <2>8, FS_Bijection
  <2>10. Cardinality(1..s[i]) = s[i]
    <3> SUFFICES ASSUME NEW m \in Nat, m >= 1 PROVE Cardinality(1..m) = m BY <2>1
    <3>1. Cardinality(1..m) = IF 1 > m THEN 0 ELSE m - 1 + 1 BY FS_Interval
    <3> QED BY <3>1
  <2> QED BY <2>9, <2>10 DEF S
<1>5. \A k \in 1..n : s[q[k]] = k BY <1>3, <1>4
<1>6. 1..n = 1..N
  <2>1. 1..n \subseteq Calls
    <3> SUFFICES ASSUME NEW k \in 1..n PROVE k \in Calls OBVIOUS
    <3>1. q[k] \in 1..n BY <1>3
    <3> QED BY <3>1, <1>5, <1>0
  <2>2. ASSUME NEW d \in Calls PROVE d \in 1..n
    <3>1. PICK i \in 1..n : s[i] = d BY <1>1
    <3>2. Cardinality(NotAfter(s, i)) \in 1..n BY Places DEF n
    <3> QED BY <3>1, <3>2, <1>4
  <2> QED BY <2>1, <2>2 DEF Calls
<1>7. ByIndex(s) = [k \in 1..n |-> k] BY <1>3, <1>5
<1> QED BY <1>6, <1>7
\* Every call has one result at most, and exactly the reported ones have theirs:
\* those of the wave that runs in results, the earlier ones in allResults.
Collected ==
    /\ allResults \in Seq(Calls) /\ Repeatless(allResults) /\ Repeatless(results)
    /\ phase = "partition" => allResults = <<>> /\ results = <<>>
    /\ phase \in {"spawn", "run"} =>
         /\ CallsOf(results) = {d \in Calls : InWave(d, waves[waveNo]) /\ status[d] = "done"}
         /\ CallsOf(allResults) =
              {d \in Calls : \E v \in 1..Len(waves) : v < waveNo /\ InWave(d, waves[v])}
    /\ phase = "returned" => allResults = [i \in 1..N |-> i]

\* The inductive invariant of the results (run and runWave).
RInv == OInv /\ Collected

\* No call is in the empty sequence.
LEMMA NoResults ==
  <<>> \in Seq(Calls) /\ Repeatless(<<>>) /\ CallsOf(<<>>) = {} /\ Len(<<>>) = 0
<1>1. <<>> \in Seq(Calls) /\ Len(<<>>) = 0 OBVIOUS
<1> QED BY <1>1 DEF Repeatless, CallsOf

\* Pushing a result that is not there yet.
LEMMA PushResult ==
  ASSUME NEW s \in Seq(Calls), Repeatless(s), NEW c \in Calls, c \notin CallsOf(s)
  PROVE  /\ Append(s, c) \in Seq(Calls) /\ Repeatless(Append(s, c))
         /\ CallsOf(Append(s, c)) = CallsOf(s) \cup {c}
<1> DEFINE t == Append(s, c)  n == Len(s)
<1>1. /\ t \in Seq(Calls) /\ Len(t) = n + 1 /\ n \in Nat /\ t[n + 1] = c
      /\ \A i \in 1..n : t[i] = s[i]
  OBVIOUS
<1> HIDE DEF t
<1>2. \A i \in 1..n : s[i] # c BY DEF CallsOf
<1>3. \A i \in 1..Len(t) : i \in 1..n \/ i = n + 1 BY <1>1
<1>4. n + 1 \in 1..Len(t) /\ \A i \in 1..n : i \in 1..Len(t) BY <1>1
<1>5. \A i, j \in 1..n : s[i] = s[j] => i = j BY DEF Repeatless
<1> HIDE DEF n
<1>6. Repeatless(t)
  <2> SUFFICES ASSUME NEW i \in 1..Len(t), NEW j \in 1..Len(t), t[i] = t[j] PROVE i = j
    BY DEF Repeatless
  <2>1. CASE i \in 1..n /\ j \in 1..n
    <3>1. s[i] = s[j] BY <2>1, <1>1
    <3> QED BY <2>1, <3>1, <1>5
  <2>2. CASE i = n + 1 /\ j \in 1..n BY <2>2, <1>1, <1>2
  <2>3. CASE j = n + 1 /\ i \in 1..n BY <2>3, <1>1, <1>2
  <2> QED BY <2>1, <2>2, <2>3, <1>3
<1>7. ASSUME NEW d \in Calls
      PROVE  (\E i \in 1..Len(t) : t[i] = d) <=> (\E i \in 1..n : s[i] = d) \/ d = c
  <2>1. ASSUME NEW i \in 1..Len(t), t[i] = d PROVE (\E k \in 1..n : s[k] = d) \/ d = c
    <3>1. CASE i \in 1..n BY <3>1, <2>1, <1>1
    <3>2. CASE i = n + 1 BY <3>2, <2>1, <1>1
    <3> QED BY <3>1, <3>2, <1>3
  <2>2. ASSUME NEW i \in 1..n, s[i] = d PROVE \E k \in 1..Len(t) : t[k] = d
    <3>1. i \in 1..Len(t) /\ t[i] = d BY <2>2, <1>1, <1>4
    <3> QED BY <3>1
  <2>3. ASSUME d = c PROVE \E k \in 1..Len(t) : t[k] = d BY <2>3, <1>1, <1>4
  <2> QED BY <2>1, <2>2, <2>3
<1>8. CallsOf(t) = CallsOf(s) \cup {c} BY <1>7 DEF CallsOf, n
<1> QED BY <1>1, <1>6, <1>8 DEF t

\* Putting the results of a wave behind those of other calls.
LEMMA JoinResults ==
  ASSUME NEW s \in Seq(Calls), Repeatless(s), NEW u \in Seq(Calls), Repeatless(u),
         CallsOf(s) \cap CallsOf(u) = {}
  PROVE  /\ s \o u \in Seq(Calls) /\ Repeatless(s \o u)
         /\ CallsOf(s \o u) = CallsOf(s) \cup CallsOf(u)
<1> DEFINE t == s \o u  n == Len(s)  m == Len(u)
<1>1. /\ t \in Seq(Calls) /\ Len(t) = n + m /\ n \in Nat /\ m \in Nat
      /\ \A i \in 1..n : t[i] = s[i]
      /\ \A i \in 1..Len(t) : i > n => t[i] = u[i - n]
      /\ \A i \in 1..n : s[i] \in Calls
      /\ \A i \in 1..m : u[i] \in Calls
  OBVIOUS
<1> HIDE DEF t
<1>2. \A i \in 1..n : \A j \in 1..m : s[i] # u[j] BY <1>1 DEF CallsOf
<1>3. \A i, j \in 1..n : s[i] = s[j] => i = j BY DEF Repeatless
<1>4. \A i, j \in 1..m : u[i] = u[j] => i = j BY DEF Repeatless
<1> HIDE DEF n, m
<1>5. ASSUME NEW i \in 1..Len(t)
      PROVE  \/ i \in 1..n /\ t[i] = s[i]
             \/ i - n \in 1..m /\ t[i] = u[i - n] /\ i \in Nat
  <2>1. i \in Nat /\ (i \in 1..n \/ (i > n /\ i - n \in 1..m)) BY <1>1
  <2> QED BY <2>1, <1>1
<1>6. Repeatless(t)
  <2> SUFFICES ASSUME NEW i \in 1..Len(t), NEW j \in 1..Len(t), t[i] = t[j] PROVE i = j
    BY DEF Repeatless
  <2>1. CASE i \in 1..n /\ t[i] = s[i] /\ j \in 1..n /\ t[j] = s[j] BY <2>1, <1>3
  <2>2. CASE i \in 1..n /\ t[i] = s[i] /\ j - n \in 1..m /\ t[j] = u[j - n]
    BY <2>2, <1>2
  <2>3. CASE j \in 1..n /\ t[j] = s[j] /\ i - n \in 1..m /\ t[i] = u[i - n]
    BY <2>3, <1>2
  <2>4. CASE /\ i - n \in 1..m /\ t[i] = u[i - n] /\ i \in Nat
             /\ j - n \in 1..m /\ t[j] = u[j - n] /\ j \in Nat
    <3>1. i - n = j - n BY <2>4, <1>4
    <3> QED BY <3>1, <2>4, <1>1
  <2> QED BY <2>1, <2>2, <2>3, <2>4, <1>5
<1>7. ASSUME NEW d \in Calls
      PROVE  (\E i \in 1..Len(t) : t[i] = d)
             <=> (\E i \in 1..n : s[i] = d) \/ (\E i \in 1..m : u[i] = d)
  <2>1. ASSUME NEW i \in 1..Len(t), t[i] = d
        PROVE (\E k \in 1..n : s[k] = d) \/ (\E k \in 1..m : u[k] = d)
    BY <2>1, <1>5
  <2>2. ASSUME NEW i \in 1..n, s[i] = d PROVE \E k \in 1..Len(t) : t[k] = d
    <3>1. i \in 1..Len(t) /\ t[i] = d BY <2>2, <1>1
    <3> QED BY <3>1
  <2>3. ASSUME NEW i \in 1..m, u[i] = d PROVE \E k \in 1..Len(t) : t[k] = d
    <3>1. n + i \in 1..Len(t) /\ n + i > n /\ (n + i) - n = i BY <1>1
    <3>2. t[n + i] = u[(n + i) - n] BY <3>1, <1>1
    <3> QED BY <3>1, <3>2, <2>3
  <2> QED BY <2>1, <2>2, <2>3
<1>8. CallsOf(t) = CallsOf(s) \cup CallsOf(u) BY <1>7 DEF CallsOf, n, m
<1> QED BY <1>1, <1>6, <1>8 DEF t
\* A call with a worker belongs to the wave that runs: the finished waves are
\* reported and the later ones unclaimed.
LEMMA WorkedInWave ==
  ASSUME OInv, phase = "run", NEW c \in Calls, status[c] \in {"ready", "running"}
  PROVE  InWave(c, waves[waveNo])
<1>0. /\ waveNo \in 1..Len(waves) /\ waves \in Seq(Seq(Calls)) /\ waveNo \in Nat
      /\ cursor = N + 1 /\ current = <<>>
  BY DEF OInv, IInv, TypeOK, Unreached, Passed
<1>1. c \in 1..(cursor - 1) BY <1>0, SizeAssumption DEF Calls
<1>2. InWaves(c, waves) \/ InWave(c, <<>>) BY <1>1, <1>0 DEF OInv, WaveOrder, Ordered
<1>3. ~InWave(c, <<>>) BY DEF InWave
<1>4. PICK w \in 1..Len(waves) : \E i \in 1..Len(waves[w]) : waves[w][i] = c
  BY <1>2, <1>3 DEF InWaves
<1>5. ~(w < waveNo) BY <1>4 DEF OInv, Passed
<1>6. ~(w > waveNo) BY <1>4 DEF OInv, IInv, Unreached
<1>7. w = waveNo BY <1>0, <1>5, <1>6
<1> QED BY <1>4, <1>7 DEF InWave

\* Two different waves have no call in common.
LEMMA WavesApart ==
  ASSUME OInv, NEW w \in 1..Len(waves), NEW v \in 1..Len(waves), w # v,
         NEW d, InWave(d, waves[w])
  PROVE  ~InWave(d, waves[v])
BY DEF OInv, IInv, WaveShape, Shape, InWave

\* The initial states have no result.
LEMMA InitRInv == Init => RInv
<1> SUFFICES ASSUME Init PROVE RInv OBVIOUS
<1>1. phase = "partition" /\ results = <<>> /\ allResults = <<>> BY DEF Init
<1> QED BY <1>1, InitOInv, NoResults DEF RInv, Collected

\* The waves are cut and nothing has run.
LEMMA EndPartitionCollects == RInv /\ EndPartition => Collected'
<1> SUFFICES ASSUME RInv, EndPartition PROVE Collected' OBVIOUS
<1>0. /\ phase = "partition" /\ allResults = <<>> /\ allResults' = allResults
      /\ results' = <<>> /\ waveNo' = 1 /\ phase' = IF waves' = <<>> THEN "returned" ELSE "spawn"
      /\ status = [c \in Calls |-> "unclaimed"] /\ status' = status
      /\ cursor = N + 1
  BY SizeAssumption
  DEF RInv, OInv, IInv, TypeOK, Unreached, Collected, EndPartition, EnterWave
<1>1. OInv' BY NextOInv DEF RInv, Next
<1>2. CASE waves' = <<>>
  <2>1. phase' = "returned" BY <1>0, <1>2
  <2>2. status' \in [Calls -> States] /\ \A c \in Calls : status'[c] = "done"
    BY <1>1, <2>1 DEF OInv, IInv, TypeOK, Passed, States
  <2>3. Calls = {} BY <2>2, <1>0
  <2>4. [i \in 1..N |-> i] = <<>> BY <2>3 DEF Calls
  <2> QED BY <2>1, <2>4, <1>0, NoResults DEF Collected
<1>3. CASE waves' # <<>>
  <2>1. phase' = "spawn" BY <1>0, <1>3
  <2>2. {d \in Calls : InWave(d, waves'[waveNo']) /\ status'[d] = "done"} = {}
    BY <1>0
  <2>3. {d \in Calls : \E v \in 1..Len(waves') : v < waveNo' /\ InWave(d, waves'[v])} = {}
    <3>1. \A v \in 1..Len(waves') : ~(v < waveNo') BY <1>0
    <3> QED BY <3>1
  <2> QED BY <2>1, <2>2, <2>3, <1>0, NoResults DEF Collected
<1> QED BY <1>2, <1>3

\* The wave is over: all its results are there, and they are put in order.
LEMMA EndWaveCollects == RInv /\ EndWave => Collected'
<1> SUFFICES ASSUME RInv, EndWave PROVE Collected' OBVIOUS
<1> DEFINE sorted == ByIndex(results)  all == allResults \o sorted
<1>0. /\ phase = "run" /\ live = 0 /\ waveNo \in 1..Len(waves) /\ waveNo \in Nat
      /\ Len(waves) \in Nat /\ waves' = waves /\ status' = status /\ results' = <<>>
      /\ results \in Seq(Calls) /\ allResults \in Seq(Calls)
      /\ Repeatless(results) /\ Repeatless(allResults) /\ OInv
      /\ cursor = N + 1 /\ current = <<>>
  <2>1. /\ phase = "run" /\ live = 0 /\ waves' = waves /\ status' = status /\ results' = <<>>
    BY DEF EndWave, EnterWave, partitionVars
  <2>2. /\ allResults \in Seq(Calls) /\ Repeatless(results) /\ Repeatless(allResults)
        /\ OInv
    BY DEF RInv, Collected
  <2>3. waves \in Seq(Seq(Calls)) /\ results \in Seq(Calls) /\ waveNo \in Nat
    BY <2>2 DEF OInv, IInv, TypeOK
  <2>4. waveNo \in 1..Len(waves) BY <2>1, <2>2 DEF OInv, IInv, Unreached
  <2>5. cursor = N + 1 /\ current = <<>> BY <2>1, <2>2 DEF OInv, Passed
  <2>6. Len(waves) \in Nat BY <2>3
  <2> QED BY <2>1, <2>2, <2>3, <2>4, <2>5, <2>6
<1>1. CallsOf(sorted) = {d \in Calls : InWave(d, waves[waveNo])}
  <2>1. CallsOf(sorted) = {d \in Calls : InWave(d, waves[waveNo]) /\ status[d] = "done"}
    BY <1>0, SortKeeps DEF RInv, Collected
  <2>2. \A d \in Calls : InWave(d, waves[waveNo]) => status[d] = "done"
    <3>1. waveNo <= waveNo BY <1>0
    <3> QED BY <3>1, <1>0, WaveDone DEF InWave
  <2> QED BY <2>1, <2>2
<1>2. sorted \in Seq(Calls) /\ Repeatless(sorted) BY <1>0, SortKeeps
<1>3. CallsOf(allResults) =
        {d \in Calls : \E v \in 1..Len(waves) : v < waveNo /\ InWave(d, waves[v])}
  BY <1>0 DEF RInv, Collected
<1>4. CallsOf(allResults) \cap CallsOf(sorted) = {}
  <2> SUFFICES ASSUME NEW d \in CallsOf(allResults), d \in CallsOf(sorted) PROVE FALSE
    OBVIOUS
  <2>1. PICK v \in 1..Len(waves) : v < waveNo /\ InWave(d, waves[v]) BY <1>3
  <2>2. v # waveNo BY <2>1, <1>0
  <2>3. InWave(d, waves[waveNo]) BY <1>1
  <2> QED BY <2>1, <2>2, <2>3, <1>0, WavesApart
<1>5. (allResults' = IF waveNo = Len(waves) THEN ByIndex(all) ELSE all)
  BY DEF EndWave
<1> HIDE DEF sorted
<1>6. /\ all \in Seq(Calls) /\ Repeatless(all)
      /\ CallsOf(all) = CallsOf(allResults) \cup CallsOf(sorted)
  BY <1>0, <1>2, <1>4, JoinResults
<1> HIDE DEF all
<1>7. CallsOf(all) =
        {d \in Calls : \E v \in 1..Len(waves) : v <= waveNo /\ InWave(d, waves[v])}
  <2>1. \A v \in 1..Len(waves) : v <= waveNo <=> v < waveNo \/ v = waveNo BY <1>0
  <2>2. ASSUME NEW d \in Calls
        PROVE  (\E v \in 1..Len(waves) : v <= waveNo /\ InWave(d, waves[v]))
               <=> \/ \E v \in 1..Len(waves) : v < waveNo /\ InWave(d, waves[v])
                   \/ InWave(d, waves[waveNo])
    BY <2>1, <1>0
  <2> QED BY <2>2, <1>1, <1>3, <1>6
<1>8. CASE waveNo = Len(waves)
  <2>1. phase' = "returned" /\ allResults' = ByIndex(all) BY <1>5, <1>8 DEF EndWave
  <2>2. CallsOf(all) = Calls
    <3> SUFFICES ASSUME NEW d \in Calls PROVE d \in CallsOf(all) BY <1>7
    <3>1. d \in 1..(cursor - 1) BY <1>0, SizeAssumption DEF Calls
    <3>2. InWaves(d, waves) \/ InWave(d, <<>>)
      BY <3>1, <1>0 DEF OInv, WaveOrder, Ordered
    <3>3. ~InWave(d, <<>>) BY DEF InWave
    <3>4. PICK w \in 1..Len(waves) : InWave(d, waves[w])
      BY <3>2, <3>3 DEF InWaves, InWave
    <3>5. w <= waveNo BY <1>0, <1>8
    <3> QED BY <3>4, <3>5, <1>7
  <2>3. allResults' = [i \in 1..N |-> i] BY <2>1, <2>2, <1>6, SortAll
  <2>4. allResults' \in Seq(Calls) /\ Repeatless(allResults')
    BY <2>1, <1>6, SortKeeps
  <2> QED BY <2>1, <2>3, <2>4, <1>0, NoResults DEF Collected
<1>9. CASE waveNo # Len(waves)
  <2>1. phase' = "spawn" /\ waveNo' = waveNo + 1 /\ allResults' = all
    BY <1>5, <1>9 DEF EndWave, EnterWave
  <2>2. waveNo + 1 \in 1..Len(waves) /\ waveNo + 1 > waveNo BY <1>0, <1>9
  <2>3. \A d \in Calls : InWave(d, waves[waveNo + 1]) => status[d] = "unclaimed"
    BY <2>2, <1>0 DEF OInv, IInv, Unreached, InWave
  <2>4. CallsOf(results') =
          {d \in Calls : InWave(d, waves'[waveNo']) /\ status'[d] = "done"}
    BY <2>1, <2>3, <1>0, NoResults
  <2>5. \A v \in 1..Len(waves) : v < waveNo' <=> v <= waveNo BY <2>1, <1>0
  <2>6. CallsOf(allResults') =
          {d \in Calls : \E v \in 1..Len(waves') : v < waveNo' /\ InWave(d, waves'[v])}
    BY <2>1, <2>5, <1>0, <1>7
  <2> QED BY <2>1, <2>4, <2>6, <1>0, <1>6, NoResults DEF Collected
<1> QED BY <1>8, <1>9

\* A step inside a wave that reports no call.
LEMMA QuietCollects ==
  ASSUME RInv, phase \in {"spawn", "run"}, phase' \in {"spawn", "run"},
         UNCHANGED <<waves, waveNo, results, allResults>>,
         \A d \in Calls : status'[d] = "done" <=> status[d] = "done"
  PROVE  Collected'
BY DEF RInv, Collected

\* A worker reports a call: its result is pushed once.
LEMMA ReportCollects ==
  ASSUME RInv, NEW c \in Calls, CancelCall(c) \/ SettleCall(c)
  PROVE  Collected'
<1>0. /\ phase = "run" /\ phase' = "run" /\ status[c] \in {"ready", "running"}
      /\ ReportAndClaim(c) /\ UNCHANGED <<waves, waveNo, allResults>>
      /\ results' = Append(results, c) /\ results \in Seq(Calls) /\ OInv /\ IInv
      /\ waveNo \in 1..Len(waves) /\ waves \in Seq(Seq(Calls))
  BY DEF CancelCall, SettleCall, ReportAndClaim, partitionVars, RInv, OInv, IInv, TypeOK,
         Unreached
<1>1. ASSUME NEW d \in Calls
      PROVE  status'[d] = "done" <=> status[d] = "done" \/ d = c
  <2>1. /\ status'[c] = "done"
        /\ \/ /\ next \in 1..Len(waves[waveNo])
              /\ status[waves[waveNo][next]] = "unclaimed"
              /\ status'[waves[waveNo][next]] \in {"ready", "waiting"}
              /\ \A e \in Calls \ {c, waves[waveNo][next]} : status'[e] = status[e]
           \/ \A e \in Calls \ {c} : status'[e] = status[e]
    BY <1>0, ReportEffect
  <2> QED BY <2>1
<1>2. InWave(c, waves[waveNo]) BY <1>0, WorkedInWave
<1>3. c \notin CallsOf(results) BY <1>0 DEF RInv, Collected
<1>4. /\ Repeatless(results')
      /\ CallsOf(results') = CallsOf(results) \cup {c}
  BY <1>0, <1>3, PushResult DEF RInv, Collected
<1>5. CallsOf(results') = {d \in Calls : InWave(d, waves'[waveNo']) /\ status'[d] = "done"}
  BY <1>0, <1>1, <1>2, <1>4 DEF RInv, Collected
<1> QED BY <1>0, <1>4, <1>5 DEF RInv, Collected

\* Every step keeps the results in step with the reports.
LEMMA NextRInv == RInv /\ [Next]_vars => RInv'
<1> SUFFICES ASSUME RInv, [Next]_vars PROVE RInv' OBVIOUS
<1>0. OInv' /\ IInv BY NextOInv DEF RInv, OInv
<1> SUFFICES Collected' BY <1>0 DEF RInv
<1>1. CASE PartitionCall
  <2>1. /\ phase = "partition" /\ phase' = "partition"
        /\ results' = results /\ allResults' = allResults
    BY <1>1 DEF PartitionCall, waveVars
  <2> QED BY <2>1, NoResults DEF RInv, Collected
<1>2. CASE EndPartition BY <1>2, EndPartitionCollects
<1>3. CASE EndWave BY <1>3, EndWaveCollects
<1>4. CASE SpawnWorker
  <2>1. /\ phase = "spawn" /\ phase' = "spawn"
        /\ UNCHANGED <<waves, waveNo, results, allResults>>
    BY <1>4 DEF SpawnWorker, partitionVars
  <2>2. \A d \in Calls : status'[d] = "done" <=> status[d] = "done"
    BY <1>0, <1>4, SpawnEffect
  <2> QED BY <2>1, <2>2, QuietCollects
<1>5. CASE EndSpawn
  <2>1. /\ phase = "spawn" /\ phase' = "run" /\ status' = status
        /\ UNCHANGED <<waves, waveNo, results, allResults>>
    BY <1>5 DEF EndSpawn, partitionVars, waveVars
  <2> QED BY <2>1, QuietCollects
<1>6. ASSUME NEW c \in Calls, Recheck(c) PROVE Collected'
  <2>1. /\ phase = "run" /\ phase' = "run" /\ status[c] = "waiting"
        /\ UNCHANGED <<waves, waveNo, results, allResults>>
    BY <1>6 DEF Recheck, partitionVars
  <2>2. \A d \in Calls : status'[d] = "done" <=> status[d] = "done"
    BY <1>0, <1>6, <2>1, CheckStatus DEF Recheck
  <2> QED BY <2>1, <2>2, QuietCollects
<1>7. ASSUME NEW c \in Calls, StartCall(c) PROVE Collected'
  <2>1. /\ phase = "run" /\ phase' = "run" /\ status[c] = "ready"
        /\ UNCHANGED <<waves, waveNo, results, allResults>>
        /\ status' = [status EXCEPT ![c] = "running"]
    BY <1>7 DEF StartCall, partitionVars
  <2>2. \A d \in Calls : status'[d] = "done" <=> status[d] = "done"
    BY <1>0, <2>1 DEF IInv, TypeOK
  <2> QED BY <2>1, <2>2, QuietCollects
<1>8. ASSUME NEW c \in Calls, CancelCall(c) \/ SettleCall(c) PROVE Collected'
  BY <1>8, ReportCollects
<1>9. CASE Abort \/ Returned \/ UNCHANGED vars
  <2>1. UNCHANGED <<phase, waves, waveNo, status, results, allResults>>
    BY <1>9 DEF Abort, Returned, vars, partitionVars, waveVars
  <2> QED BY <2>1 DEF RInv, Collected
<1> QED BY <1>1, <1>2, <1>3, <1>4, <1>5, <1>6, <1>7, <1>8, <1>9 DEF Next

\* run returns one result for every call, in the order of the batch, whatever
\* the order in which the calls settled or were cancelled (the three sorts by
\* index of run).
THEOREM ResultsCanonical == Spec => []CanonicalResults
<1>1. RInv => CanonicalResults BY DEF RInv, Collected, CanonicalResults
<1> QED BY <1>1, InitRInv, NextRInv, PTL DEF Spec
=============================================================================
