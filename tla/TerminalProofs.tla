----------------------------- MODULE TerminalProofs -----------------------------
(***************************************************************************)
(* Proofs about Terminal for every set of processes and sessions and every *)
(* capacity of the channels: the types, that a published exit is the last  *)
(* of the output of its process, and that a subscription leaves no gap.    *)
(***************************************************************************)
EXTENDS Terminal, SequenceTheorems, FunctionTheorems, FiniteSetTheorems, TLAPS

-----------------------------------------------------------------------------
(* Sequences.  Facts about data are proved by looking at the least number   *)
(* for which they fail.                                                      *)

\* Every set of naturals that is not empty has a least element.
LEMMA LeastNatural ==
    ASSUME NEW T, T \subseteq Nat, T # {}
    PROVE  \E n \in T : \A m \in T : n <= m
  <1> DEFINE R == {ss \in Nat \X Nat : ss[1] < ss[2]}
  <1>1. IsWellFoundedOn(R, Nat)
    BY NatLessThanWellFounded DEF OpToRel
  <1>2. \E x \in T : \A y \in T : ~(<<y, x>> \in R)
    BY <1>1, WFMin
  <1>3. PICK x \in T : \A y \in T : ~(<<y, x>> \in R)
    BY <1>2
  <1>4. ASSUME NEW y \in T PROVE x <= y
    <2>1. x \in Nat /\ y \in Nat
      OBVIOUS
    <2>2. ~(y < x)
      BY <1>3, <2>1
    <2>3. QED
      BY <2>1, <2>2
  <1>5. QED
    BY <1>4

\* Induction, stated for a set instead of a predicate.
LEMMA InductionOverNat ==
    ASSUME NEW T, 0 \in T, \A n \in Nat : n \in T => n + 1 \in T
    PROVE  Nat \subseteq T
  <1> SUFFICES ASSUME Nat \ T # {} PROVE FALSE
    OBVIOUS
  <1>1. PICK n \in Nat \ T : \A m \in Nat \ T : n <= m
    BY LeastNatural
  <1>2. n # 0 /\ n - 1 \in Nat
    BY <1>1
  <1>3. n - 1 \in T
    BY <1>1, <1>2
  <1>4. n = (n - 1) + 1
    BY <1>1
  <1>5. QED
    BY <1>1, <1>2, <1>3, <1>4

\* The partial results of FlattenSeq.
Flat(ss, f) == f = [i \in 1..Len(ss) |-> IF i = 1 THEN ss[i] ELSE f[i - 1] \o ss[i]]

\* The flattening of finitely many sequences is defined.
LEMMA FlatExists ==
    ASSUME NEW S, NEW ss \in Seq(Seq(S)), Len(ss) # 0
    PROVE  \E f \in [1..Len(ss) -> Seq(S)] : Flat(ss, f)
  <1> DEFINE Part(n, f) == \A i \in 1..n : f[i] = IF i = 1 THEN ss[i] ELSE f[i - 1] \o ss[i]
             T == {n \in Nat : n <= Len(ss) => \E f \in [1..n -> Seq(S)] : Part(n, f)}
  <1>1. 0 \in T
    <2>1. [i \in 1..0 |-> <<>>] \in [1..0 -> Seq(S)]
      OBVIOUS
    <2>2. Part(0, [i \in 1..0 |-> <<>>])
      OBVIOUS
    <2> QED BY <2>1, <2>2
  <1>2. ASSUME NEW n \in Nat, n \in T PROVE n + 1 \in T
    <2> SUFFICES ASSUME n + 1 <= Len(ss)
                 PROVE  \E f \in [1..(n + 1) -> Seq(S)] : Part(n + 1, f)
      OBVIOUS
    <2>1. PICK g \in [1..n -> Seq(S)] : Part(n, g)
      <3>1. n <= Len(ss)
        BY LenProperties
      <3> QED BY <1>2, <3>1
    <2>2. ss[n + 1] \in Seq(S)
      BY LenProperties
    <2> DEFINE last == IF n = 0 THEN ss[n + 1] ELSE g[n] \o ss[n + 1]
               f == [i \in 1..(n + 1) |-> IF i = n + 1 THEN last ELSE g[i]]
    <2>3. last \in Seq(S)
      <3>1. CASE n = 0 BY <3>1, <2>2
      <3>2. CASE n # 0
        <4>1. g[n] \in Seq(S)
          BY <3>2
        <4> QED BY <3>2, <4>1, <2>2, ConcatProperties
      <3> QED BY <3>1, <3>2
    <2> HIDE DEF last
    <2>4. f \in [1..(n + 1) -> Seq(S)]
      BY <2>3
    <2>5. ASSUME NEW i \in 1..(n + 1)
          PROVE  f[i] = IF i = 1 THEN ss[i] ELSE f[i - 1] \o ss[i]
      <3>1. CASE i = n + 1
        BY <3>1 DEF last
      <3>2. CASE i # n + 1
        <4>1. i \in 1..n /\ f[i] = g[i]
          BY <3>2
        <4>2. i # 1 => i - 1 \in 1..n /\ f[i - 1] = g[i - 1]
          BY <4>1
        <4> QED BY <4>1, <4>2, <2>1
      <3> QED BY <3>1, <3>2
    <2> QED BY <2>4, <2>5
  <1> HIDE DEF T
  <1>3. Nat \subseteq T
    BY <1>1, <1>2, InductionOverNat
  <1>4. Len(ss) \in T /\ Len(ss) \in Nat
    BY <1>3, LenProperties
  <1>5. PICK f \in [1..Len(ss) -> Seq(S)] : Part(Len(ss), f)
    BY <1>4 DEF T
  <1>6. f = [i \in 1..Len(ss) |-> IF i = 1 THEN ss[i] ELSE f[i - 1] \o ss[i]]
    BY <1>5
  <1> QED BY <1>5, <1>6 DEF Flat

\* What a sequence holds; a concatenation holds what its parts hold.
Holds(q, x) == \E k \in 1..Len(q) : q[k] = x

\* A concatenation holds what its parts hold.
LEMMA ConcatHolds ==
    ASSUME NEW S, NEW q \in Seq(S), NEW r \in Seq(S)
    PROVE  \A x : Holds(q \o r, x) <=> Holds(q, x) \/ Holds(r, x)
  <1> DEFINE t == q \o r
  <1>1. /\ Len(t) = Len(q) + Len(r)
        /\ \A i \in 1..(Len(q) + Len(r)) :
              t[i] = IF i <= Len(q) THEN q[i] ELSE r[i - Len(q)]
    BY ConcatProperties
  <1>2. Len(q) \in Nat /\ Len(r) \in Nat
    BY LenProperties
  <1> HIDE DEF t
  <1>3. ASSUME NEW x, Holds(t, x) PROVE Holds(q, x) \/ Holds(r, x)
    <2>1. PICK k \in 1..Len(t) : t[k] = x
      BY <1>3 DEF Holds
    <2>2. CASE k <= Len(q)
      BY <2>1, <2>2, <1>1, <1>2 DEF Holds
    <2>3. CASE ~(k <= Len(q))
      <3>1. k - Len(q) \in 1..Len(r) /\ r[k - Len(q)] = x
        BY <2>1, <2>3, <1>1, <1>2
      <3> QED BY <3>1 DEF Holds
    <2> QED BY <2>2, <2>3
  <1>4. ASSUME NEW x, Holds(q, x) PROVE Holds(t, x)
    BY <1>4, <1>1, <1>2 DEF Holds
  <1>5. ASSUME NEW x, Holds(r, x) PROVE Holds(t, x)
    <2>1. PICK k \in 1..Len(r) : r[k] = x
      BY <1>5 DEF Holds
    <2>2. /\ Len(q) + k \in 1..Len(t) /\ ~(Len(q) + k <= Len(q))
          /\ (Len(q) + k) - Len(q) = k
      BY <1>1, <1>2
    <2>3. t[Len(q) + k] = x
      BY <2>1, <2>2, <1>1
    <2> QED BY <2>2, <2>3 DEF Holds
  <1> QED BY <1>3, <1>4, <1>5 DEF t

\* Every element of every sequence is in the flat one, and nothing strange.
LEMMA FlattenHolds ==
    ASSUME NEW S, NEW ss \in Seq(Seq(S))
    PROVE  /\ FlattenSeq(ss) \in Seq(S)
           /\ \A x : \A i \in 1..Len(ss) : Holds(ss[i], x) => Holds(FlattenSeq(ss), x)
  <1>0. CASE Len(ss) = 0
    BY <1>0 DEF FlattenSeq
  <1>1. CASE Len(ss) # 0
    <2> DEFINE h == CHOOSE f : Flat(ss, f)
               Keeps(n) == /\ h[n] \in Seq(S)
                           /\ \A x : \A i \in 1..n : Holds(ss[i], x) => Holds(h[n], x)
               T == {n \in Nat : n \in 1..Len(ss) => Keeps(n)}
    <2>1. Flat(ss, h)
      BY <1>1, FlatExists
    <2>2. FlattenSeq(ss) = h[Len(ss)]
      BY <1>1 DEF FlattenSeq, Flat
    <2> HIDE DEF h
    <2>3. 0 \in T
      OBVIOUS
    <2>4. ASSUME NEW n \in Nat, n \in T, n + 1 \in 1..Len(ss) PROVE Keeps(n + 1)
      <3>1. ss[n + 1] \in Seq(S)
        BY <2>4, LenProperties
      <3>2. CASE n = 0
        <4>1. h[n + 1] = ss[n + 1]
          BY <2>1, <2>4, <3>2 DEF Flat
        <4> QED BY <4>1, <3>1, <3>2
      <3>3. CASE n # 0
        <4>1. n \in 1..Len(ss)
          BY <2>4, <3>3, LenProperties
        <4>2. Keeps(n)
          BY <2>4, <4>1
        <4>3. n + 1 # 1 /\ (n + 1) - 1 = n
          BY <3>3
        <4>4. h[n + 1] = h[n] \o ss[n + 1]
          BY <2>1, <2>4, <4>3 DEF Flat
        <4>5. h[n + 1] \in Seq(S)
          BY <4>2, <4>4, <3>1, ConcatProperties
        <4>6. \A x : Holds(h[n + 1], x) <=> Holds(h[n], x) \/ Holds(ss[n + 1], x)
          BY <4>2, <4>4, <3>1, ConcatHolds
        <4>7. \A i \in 1..(n + 1) : i = n + 1 \/ i \in 1..n
          OBVIOUS
        <4> QED BY <4>2, <4>5, <4>6, <4>7
      <3> QED BY <3>2, <3>3
    <2> HIDE DEF Keeps
    <2>5. ASSUME NEW n \in Nat, n \in T PROVE n + 1 \in T
      <3>1. n + 1 \in 1..Len(ss) => Keeps(n + 1)
        BY <2>4, <2>5
      <3> QED BY <3>1
    <2> HIDE DEF T
    <2>6. Nat \subseteq T
      BY <2>3, <2>5, InductionOverNat
    <2>7. Len(ss) \in T /\ Len(ss) \in 1..Len(ss)
      BY <2>6, <1>1, LenProperties
    <2>8. Keeps(Len(ss))
      BY <2>7 DEF T
    <2> QED BY <2>2, <2>8 DEF Keeps
  <1> QED BY <1>0, <1>1

\* A sequence made of a finite set holds each of its members.
LEMMA SetToSeqHolds ==
    ASSUME NEW S, IsFiniteSet(S)
    PROVE  SetToSeq(S) \in Seq(S) /\ \A x \in S : Holds(SetToSeq(S), x)
  <1> DEFINE n == Cardinality(S)
             q == SetToSeq(S)
  <1>1. n \in Nat /\ ExistsBijection(1..n, S)
    BY FS_CardinalityType
  <1>2. \E f \in [1..n -> S] : IsInjective(f)
    BY <1>1, Fun_BijectionProperties DEF ExistsBijection, IsInjective
  <1>3. q \in [1..n -> S] /\ IsInjective(q)
    BY <1>2 DEF SetToSeq
  <1> HIDE DEF q
  <1>4. q \in Injection(1..n, S)
    BY <1>3 DEF IsInjective, Injection
  <1>5. IsFiniteSet(1..n) /\ Cardinality(1..n) = n
    BY <1>1, FS_Interval
  <1>6. q \in Surjection(1..n, S)
    BY <1>4, <1>5, FS_Injection
  <1> HIDE DEF n
  <1>7. \A x \in S : \E i \in 1..n : q[i] = x
    BY <1>6 DEF Surjection
  <1>8. q \in Seq(S) /\ Len(q) = n
    BY <1>1, <1>3
  <1> QED BY <1>7, <1>8 DEF q, Holds

\* The last n elements of a sequence: a suffix of it, all of it when it fits.
LEMMA LastNSuffix ==
    ASSUME NEW S, NEW q \in Seq(S), NEW n \in Nat \ {0}
    PROVE  /\ LastN(q, n) \in Seq(S)
           /\ Len(LastN(q, n)) <= n
           /\ Len(q) <= n => LastN(q, n) = q
           /\ \E k \in 0..Len(q) :
                 /\ Len(LastN(q, n)) = Len(q) - k
                 /\ \A i \in 1..(Len(q) - k) : LastN(q, n)[i] = q[i + k]
  <1>1. Len(q) \in Nat
    BY LenProperties
  <1>2. CASE Len(q) <= n
    <2>1. LastN(q, n) = q
      BY <1>2 DEF LastN
    <2>2. 0 \in 0..Len(q) /\ Len(q) = Len(q) - 0 /\ \A i \in 1..(Len(q) - 0) : i + 0 = i
      BY <1>1
    <2> QED BY <1>1, <1>2, <2>1, <2>2
  <1>3. CASE ~(Len(q) <= n)
    <2> DEFINE k == Len(q) - n
    <2>1. LastN(q, n) = SubSeq(q, k + 1, Len(q))
      BY <1>3 DEF LastN
    <2>2. \A i \in (k + 1)..Len(q) : q[i] \in S
      BY <1>1, <1>3, ElementOfSeq
    <2>3. k \in Nat /\ k \in 0..Len(q) /\ k + 1 <= Len(q) /\ Len(q) - k = n
      BY <1>1, <1>3
    <2> HIDE DEF k
    <2>4. /\ SubSeq(q, k + 1, Len(q)) \in Seq(S)
          /\ Len(SubSeq(q, k + 1, Len(q))) = Len(q) - (k + 1) + 1
          /\ \A i \in 1..(Len(q) - (k + 1) + 1) :
                SubSeq(q, k + 1, Len(q))[i] = q[(k + 1) + i - 1]
      BY <1>1, <2>2, <2>3, SubSeqProperties
    <2>5. Len(q) - (k + 1) + 1 = Len(q) - k /\ \A i \in Int : (k + 1) + i - 1 = i + k
      BY <1>1, <2>3
    <2> DEFINE l == SubSeq(q, k + 1, Len(q))
    <2>6. Len(l) = Len(q) - k
      BY <2>4, <2>5
    <2>7. ASSUME NEW i \in 1..(Len(q) - k) PROVE l[i] = q[i + k]
      <3>1. i \in Int /\ i \in 1..(Len(q) - (k + 1) + 1)
        BY <2>5
      <3>2. l[i] = q[(k + 1) + i - 1]
        BY <2>4, <3>1
      <3> QED BY <2>5, <3>1, <3>2
    <2>8. /\ LastN(q, n) \in Seq(S)
          /\ Len(LastN(q, n)) = Len(q) - k
          /\ \A i \in 1..(Len(q) - k) : LastN(q, n)[i] = q[i + k]
      BY <2>1, <2>4, <2>6, <2>7
    <2> QED BY <1>1, <1>3, <2>3, <2>8
  <1> QED BY <1>2, <1>3

-----------------------------------------------------------------------------
(* Types.                                                                    *)

ReaderStates == [at : {"off", "idle", "read", "pushed", "done"}, chunk : Nat]

\* The events of a process are events.
LEMMA EventTypes ==
    ASSUME NEW p \in Procs
    PROVE  /\ \A s \in Streams, n \in Nat : OutputEvent(p, s, n) \in ProcEvents
           /\ \A how \in {"exited", "failed"} : EndEvent(p, how) \in ProcEvents
  BY DEF OutputEvent, EndEvent, ProcEvents

\* What a publisher adds is typed, and the oldest events make room.
LEMMA EmitTypes ==
    ASSUME ProcTypeOK, NEW es \in Seq(ProcEvents), Emit(es)
    PROVE  /\ events' \in Seq(ProcEvents) /\ Len(events') <= EventCap
           /\ lagged' \in BOOLEAN
           /\ events' = LastN(events \o es, EventCap)
  <1>1. events \o es \in Seq(ProcEvents) /\ EventCap \in Nat \ {0}
    BY ConcatProperties, ProcessSupervisorAssumption DEF ProcTypeOK
  <1> QED BY <1>1, LastNSuffix DEF Emit, ProcTypeOK

\* Setting one reader changes that one only.
LEMMA SetReaderTypes ==
    ASSUME ProcTypeOK, NEW p \in Procs, NEW s \in Streams, NEW r \in ReaderStates,
           SetReader(p, s, r)
    PROVE  /\ reader' \in [Procs -> [Streams -> ReaderStates]]
           /\ reader'[p][s] = r
           /\ \A q \in Procs, t \in Streams :
                 q # p \/ t # s => reader'[q][t] = reader[q][t]
  BY DEF SetReader, ProcTypeOK, ReaderStates

\* The supervisor starts with its types.
LEMMA ProcInitTypes == ProcInit => ProcTypeOK
  <1> SUFFICES ASSUME ProcInit PROVE ProcTypeOK
    OBVIOUS
  <1>1. Off \in ReaderStates
    BY DEF Off, ReaderStates
  <1>2. reader \in [Procs -> [Streams -> ReaderStates]]
    BY <1>1 DEF ProcInit
  <1>3. \A S : <<>> \in Seq(S) /\ Len(<<>>) = 0
    OBVIOUS
  <1>4. /\ inbox \in [Procs -> Seq(Requests)]
        /\ buffer \in [Procs -> Seq([stream : Streams, chunk : Nat])]
        /\ \A p \in Procs : Len(buffer[p]) <= ReplayLimit
        /\ events \in Seq(ProcEvents) /\ Len(events) <= EventCap
    BY <1>3, ProcessSupervisorAssumption DEF ProcInit
  <1> QED BY <1>2, <1>4 DEF ProcInit, ProcTypeOK, ReaderStates, Stages

\* Readers keep the types.
LEMMA ReaderTypes ==
    ASSUME ProcTypeOK, NEW p \in Procs, NEW s \in Streams,
           \/ ReadChunk(p, s) \/ ReaderStep(p, s) \/ ReadEnd(p, s)
           \/ ReadFails(p, s) \/ ReadCut(p, s)
    PROVE  ProcTypeOK'
  <1> USE DEF ReaderOnly, Quiet
  <1>0. /\ Idle \in ReaderStates /\ Done \in ReaderStates
        /\ reader[p][s] \in ReaderStates /\ reader[p][s].chunk \in Nat
        /\ [reader[p][s] EXCEPT !.at = "pushed"] \in ReaderStates
        /\ \A n \in Nat : [at |-> "read", chunk |-> n] \in ReaderStates
    <2>1. Idle \in ReaderStates /\ Done \in ReaderStates
      BY DEF ReaderStates, Idle, Done
    <2>2. \A n \in Nat : [at |-> "read", chunk |-> n] \in ReaderStates
      BY DEF ReaderStates
    <2>3. reader[p][s] \in ReaderStates
      BY DEF ProcTypeOK, ReaderStates
    <2>4. \A r \in ReaderStates :
              r.chunk \in Nat /\ [r EXCEPT !.at = "pushed"] \in ReaderStates
      BY DEF ReaderStates
    <2> QED BY <2>1, <2>2, <2>3, <2>4
  <1>1. CASE ReadChunk(p, s)
    <2>1. made[p] + 1 \in Nat /\ made' \in [Procs -> Nat]
      BY <1>1 DEF ReadChunk, ProcTypeOK
    <2>2. reader' \in [Procs -> [Streams -> ReaderStates]]
      BY <1>1, <1>0, <2>1, SetReaderTypes DEF ReadChunk
    <2> QED BY <1>1, <2>1, <2>2 DEF ReadChunk, ProcTypeOK, ReaderStates
  <1>2. CASE KeepChunk(p, s)
    <2>1. reader' \in [Procs -> [Streams -> ReaderStates]]
      BY <1>2, <1>0, SetReaderTypes DEF KeepChunk
    <2>2. kept' \in [Procs -> SUBSET Nat]
      <3>1. kept[p] \cup {reader[p][s].chunk} \in SUBSET Nat
        BY <1>0 DEF ProcTypeOK
      <3>2. CASE gate[p]
        <4>1. kept' = [kept EXCEPT ![p] = kept[p] \cup {reader[p][s].chunk}]
          BY <1>2, <3>2 DEF KeepChunk
        <4> QED BY <3>1, <4>1 DEF ProcTypeOK
      <3>3. CASE ~gate[p]
        BY <1>2, <3>3 DEF KeepChunk, ProcTypeOK
      <3> QED BY <3>2, <3>3
    <2> DEFINE Chunks == [stream : Streams, chunk : Nat]
               c == [stream |-> s, chunk |-> reader[p][s].chunk]
    <2>3. c \in Chunks /\ buffer[p] \in Seq(Chunks) /\ ReplayLimit \in Nat \ {0}
      BY <1>0, ProcessSupervisorAssumption DEF ProcTypeOK
    <2>4. Append(buffer[p], c) \in Seq(Chunks)
      BY <2>3, AppendProperties
    <2>5. /\ PushChunk(buffer[p], c) \in Seq(Chunks)
          /\ Len(PushChunk(buffer[p], c)) <= ReplayLimit
      BY <2>3, <2>4, LastNSuffix DEF PushChunk
    <2>6. /\ buffer' \in [Procs -> Seq(Chunks)]
          /\ \A q \in Procs : Len(buffer'[q]) <= ReplayLimit
      BY <1>2, <2>5 DEF KeepChunk, ProcTypeOK
    <2> QED BY <1>2, <2>1, <2>2, <2>6 DEF KeepChunk, ProcTypeOK, ReaderStates
  <1>3. CASE SendChunk(p, s)
    <2> DEFINE es == <<OutputEvent(p, s, reader[p][s].chunk)>>
    <2>1. es \in Seq(ProcEvents)
      BY <1>0, EventTypes
    <2>2. /\ events' \in Seq(ProcEvents) /\ Len(events') <= EventCap
          /\ lagged' \in BOOLEAN
      BY <1>3, <2>1, EmitTypes DEF SendChunk
    <2>3. reader' \in [Procs -> [Streams -> ReaderStates]]
      BY <1>3, <1>0, SetReaderTypes DEF SendChunk
    <2> QED BY <1>3, <2>2, <2>3 DEF SendChunk, ProcTypeOK, ReaderStates
  <1>4. CASE ReadEnd(p, s)
    BY <1>4, <1>0, SetReaderTypes DEF ReadEnd, ProcTypeOK, ReaderStates
  <1>5. CASE ReadFails(p, s)
    <2>1. <<EndEvent(p, "failed")>> \in Seq(ProcEvents)
      BY EventTypes
    <2>2. /\ events' \in Seq(ProcEvents) /\ Len(events') <= EventCap
          /\ lagged' \in BOOLEAN
      BY <1>5, <2>1, EmitTypes DEF ReadFails
    <2>3. reader' \in [Procs -> [Streams -> ReaderStates]]
      BY <1>5, <1>0, SetReaderTypes DEF ReadFails
    <2> QED BY <1>5, <2>2, <2>3 DEF ReadFails, ProcTypeOK, ReaderStates
  <1>6. CASE ReadCut(p, s)
    BY <1>6, <1>0, SetReaderTypes DEF ReadCut, ProcTypeOK, ReaderStates
  <1> QED BY <1>1, <1>2, <1>3, <1>4, <1>5, <1>6 DEF ReaderStep

\* Watchers keep the types.
LEMMA WatcherTypes ==
    ASSUME ProcTypeOK, NEW p \in Procs, WatcherStep(p)
    PROVE  ProcTypeOK'
  <1> USE DEF WatcherOnly, Quiet, SetStage, Stages
  <1>1. CASE WaitReturns(p)
    <2>1. PICK how \in {"exited", "failed"} : ending' = [ending EXCEPT ![p] = how]
      BY <1>1 DEF WaitReturns
    <2>2. ending' \in [Procs -> {"none", "exited", "killed", "failed"}]
      BY <2>1 DEF ProcTypeOK
    <2> QED BY <1>1, <2>2 DEF WaitReturns, ProcTypeOK
  <1>2. CASE KillReturns(p)
    BY <1>2 DEF KillReturns, ProcTypeOK
  <1>3. CASE Unlist(p)
    BY <1>3 DEF Unlist, ProcTypeOK
  <1>4. ASSUME NEW s \in Streams, Drained(p, s) PROVE ProcTypeOK'
    BY <1>4 DEF Drained, AfterDrain, ProcTypeOK
  <1>5. ASSUME NEW s \in Streams, DrainTimeout(p, s) PROVE ProcTypeOK'
    BY <1>5 DEF DrainTimeout, ProcTypeOK
  <1>6. CASE PublishEnd(p)
    <2>1. \A failed \in BOOLEAN : EndEvents(p, failed) \in Seq(ProcEvents)
      BY EventTypes DEF EndEvents
    <2>2. \E failed \in BOOLEAN : Emit(EndEvents(p, failed))
      BY <1>6 DEF PublishEnd
    <2>3. /\ events' \in Seq(ProcEvents) /\ Len(events') <= EventCap
          /\ lagged' \in BOOLEAN
      BY <2>1, <2>2, EmitTypes
    <2> QED BY <1>6, <2>3 DEF PublishEnd, ProcTypeOK
  <1> QED BY <1>1, <1>2, <1>3, <1>4, <1>5, <1>6 DEF WatcherStep

\* Control requests keep the types.
LEMMA ControlTypes ==
    ASSUME ProcTypeOK, NEW p \in Procs,
           \/ \E r \in Controls : SendControl(p, r)
           \/ ServeInput(p) \/ ServeResize(p) \/ ServeKill(p) \/ ControlEnds(p)
    PROVE  ProcTypeOK'
  <1> USE DEF ControlOnly, PipesOnly, Quiet
  <1>1. ASSUME NEW r \in Controls, SendControl(p, r) PROVE ProcTypeOK'
    <2>1. Append(inbox[p], r) \in Seq(Requests)
      BY AppendProperties, ProcessSupervisorAssumption DEF ProcTypeOK
    <2>2. inbox' \in [Procs -> Seq(Requests)]
      BY <1>1, <2>1 DEF SendControl, ProcTypeOK
    <2> QED BY <1>1, <2>2 DEF SendControl, ProcTypeOK
  <1>2. ASSUME TakeControl(p) PROVE inbox' \in [Procs -> Seq(Requests)]
    <2>1. Tail(inbox[p]) \in Seq(Requests)
      BY <1>2, HeadTailProperties DEF TakeControl, ProcTypeOK
    <2> QED BY <1>2, <2>1 DEF TakeControl, ProcTypeOK
  <1>3. ASSUME \/ Quiet \/ Emit(<<EndEvent(p, "failed")>>)
        PROVE  /\ events' \in Seq(ProcEvents) /\ Len(events') <= EventCap
               /\ lagged' \in BOOLEAN
    <2>1. <<EndEvent(p, "failed")>> \in Seq(ProcEvents)
      BY EventTypes
    <2> QED BY <1>3, <2>1, EmitTypes DEF ProcTypeOK
  <1>4. CASE ServeInput(p)
    BY <1>4, <1>2, <1>3 DEF ServeInput, TakeControl, ProcTypeOK
  <1>5. CASE ServeResize(p)
    BY <1>5, <1>2, <1>3 DEF ServeResize, TakeControl, ProcTypeOK
  <1>6. CASE ServeKill(p)
    BY <1>6, <1>2, <1>3 DEF ServeKill, TakeControl, ProcTypeOK
  <1>7. CASE ControlEnds(p)
    BY <1>7 DEF ControlEnds, ProcTypeOK
  <1> QED BY <1>1, <1>4, <1>5, <1>6, <1>7

\* So does a write that waits for room, or ends to wait.
LEMMA WaitTypes ==
    ASSUME ProcTypeOK, NEW p \in Procs, AwaitRoom(p) \/ RoomFound(p) \/ RoomGone(p)
    PROVE  ProcTypeOK'
  <1>1. Append(inbox[p], "input") \in Seq(Requests)
    BY AppendProperties DEF ProcTypeOK, Requests
  <1>2. inbox' \in [Procs -> Seq(Requests)] /\ stalled' \subseteq Procs
    BY <1>1 DEF AwaitRoom, RoomFound, RoomGone, ProcTypeOK
  <1> QED BY <1>2 DEF AwaitRoom, RoomFound, RoomGone, PipesOnly, Quiet, ProcTypeOK

\* What those steps leave alone.
LEMMA WaitLeaves ==
    ASSUME NEW p, AwaitRoom(p) \/ RoomFound(p) \/ RoomGone(p)
    PROVE  UNCHANGED <<kind, child, holder, listed, reader, gate, stage, ending, made,
                       buffer, kept, events, lagged>>
  BY DEF AwaitRoom, RoomFound, RoomGone, PipesOnly, Quiet

\* Every supervisor step keeps the types.
LEMMA ProcTypes ==
    ASSUME ProcTypeOK, ProcNext
    PROVE  ProcTypeOK'
  <1>1. ASSUME NEW p \in Procs, NEW k \in Kinds, StartProcess(p, k)
        PROVE  ProcTypeOK'
    <2>1. k \in {"pipe", "pty"}
      BY ProcessSupervisorAssumption
    <2>2. [s \in Streams |-> IF s \in StreamsOf(k) THEN Idle ELSE Off]
              \in [Streams -> ReaderStates]
      BY DEF Idle, Off, ReaderStates
    <2>3. reader' \in [Procs -> [Streams -> ReaderStates]]
      BY <1>1, <2>2 DEF StartProcess, ProcTypeOK, ReaderStates
    <2> QED
      BY <1>1, <2>1, <2>3
      DEF StartProcess, Quiet, ProcTypeOK, ReaderStates, Stages
  <1>2. ASSUME NEW p \in Procs, ChildExits(p) \/ HolderLeaves(p)
        PROVE  ProcTypeOK'
    BY <1>2 DEF ChildExits, HolderLeaves, Quiet, ProcTypeOK
  <1> QED BY <1>1, <1>2, ReaderTypes, WatcherTypes, ControlTypes DEF ProcNext

\* A live process replays typed output events, whatever the processes named.
LEMMA SnapshotTypes ==
    ASSUME ProcTypeOK, NEW p \in Procs
    PROVE  /\ Snapshot(p) \in Seq(ProcEvents)
           /\ p \in listed =>
                 /\ Len(Snapshot(p)) = Len(buffer[p])
                 /\ \A i \in 1..Len(buffer[p]) : Snapshot(p)[i] =
                       OutputEvent(p, buffer[p][i].stream, buffer[p][i].chunk)
           /\ p \notin listed => Snapshot(p) = <<>>
  <1>1. CASE p \notin listed
    BY <1>1 DEF Snapshot
  <1>2. CASE p \in listed
    <2> DEFINE Chunks == [stream : Streams, chunk : Nat]
    <2>1. buffer[p] \in Seq(Chunks)
      BY DEF ProcTypeOK
    <2>2. Len(buffer[p]) \in Nat /\ DOMAIN buffer[p] = 1..Len(buffer[p])
      BY <2>1, LenProperties
    <2>3. \A i \in 1..Len(buffer[p]) :
              buffer[p][i].stream \in Streams /\ buffer[p][i].chunk \in Nat
      <3>1. \A i \in 1..Len(buffer[p]) : buffer[p][i] \in Chunks
        BY <2>1, ElementOfSeq
      <3> QED BY <3>1
    <2>4. \A i \in 1..Len(buffer[p]) :
              OutputEvent(p, buffer[p][i].stream, buffer[p][i].chunk) \in ProcEvents
      BY <2>3, EventTypes
    <2>5. Snapshot(p) = [i \in 1..Len(buffer[p]) |->
              OutputEvent(p, buffer[p][i].stream, buffer[p][i].chunk)]
      BY <1>2, <2>2 DEF Snapshot
    <2> QED BY <1>2, <2>2, <2>4, <2>5
  <1> QED BY <1>1, <1>2

\* A replay holds the snapshots of all the processes asked for.
LEMMA ReplayHolds ==
    ASSUME ProcTypeOK, NEW ps \in SUBSET Procs, IsFiniteSet(ps)
    PROVE  /\ Replay(SetToSeq(ps)) \in Seq(ProcEvents)
           /\ \A x : \A p \in ps :
                 Holds(Snapshot(p), x) => Holds(Replay(SetToSeq(ps)), x)
  <1> DEFINE order == SetToSeq(ps)
             ss == [i \in DOMAIN order |-> Snapshot(order[i])]
  <1>1. order \in Seq(ps) /\ \A p \in ps : Holds(order, p)
    BY SetToSeqHolds
  <1> HIDE DEF order
  <1>2. Len(order) \in Nat /\ DOMAIN order = 1..Len(order)
        /\ \A i \in 1..Len(order) : order[i] \in ps
    BY <1>1, LenProperties, ElementOfSeq
  <1>3. \A p \in ps : Snapshot(p) \in Seq(ProcEvents)
    BY SnapshotTypes
  <1>4. ss \in Seq(Seq(ProcEvents)) /\ Len(ss) = Len(order)
        /\ \A i \in 1..Len(order) : ss[i] = Snapshot(order[i])
    BY <1>2, <1>3
  <1>5. Replay(order) = FlattenSeq(ss)
    BY DEF Replay
  <1> HIDE DEF ss
  <1>6. /\ FlattenSeq(ss) \in Seq(ProcEvents)
        /\ \A x : \A i \in 1..Len(ss) : Holds(ss[i], x) => Holds(FlattenSeq(ss), x)
    BY <1>4, FlattenHolds
  <1>7. ASSUME NEW x, NEW p \in ps, Holds(Snapshot(p), x)
        PROVE  Holds(Replay(order), x)
    <2>1. PICK i \in 1..Len(order) : order[i] = p
      BY <1>1 DEF Holds
    <2> QED BY <1>4, <1>5, <1>6, <1>7, <2>1
  <1> QED BY <1>5, <1>6, <1>7 DEF order

-----------------------------------------------------------------------------
\* The types of the socket, with those Terminal adds.
SocketTypes == /\ SocketTypeOK
               /\ hubq \in Seq(ClientEvents)
               /\ direct \in Seq(ClientEvents)
               /\ commands \in Seq(Commands)
               /\ got \subseteq ClientEvents

\* What is published is typed, and the oldest events make room.
LEMMA ReceivedTypes ==
    ASSUME SocketTypes, NEW es \in Seq(ClientEvents), Received(es)
    PROVE  /\ hubq' \in Seq(ClientEvents) /\ Len(hubq') <= HubCap
           /\ missed' \in BOOLEAN /\ gap' \in BOOLEAN
           /\ conn # "closed" => /\ hubq' = LastN(hubq \o es, HubCap)
                                 /\ gap' = (gap \/ Len(hubq \o es) > HubCap)
  <1>1. hubq \o es \in Seq(ClientEvents) /\ HubCap \in Nat \ {0}
    BY ConcatProperties, EventSocketAssumption DEF SocketTypes
  <1>2. Len(hubq \o es) \in Nat
    BY <1>1, LenProperties
  <1>3. CASE conn = "closed"
    BY <1>3 DEF Received, SocketTypes, SocketTypeOK
  <1>4. CASE conn # "closed"
    <2>1. hubq' = LastN(hubq \o es, HubCap)
      BY <1>1, <1>2, <1>4 DEF Received, LastN
    <2>2. /\ missed' = (missed \/ Len(hubq \o es) > HubCap)
          /\ gap' = (gap \/ Len(hubq \o es) > HubCap)
      BY <1>4 DEF Received
    <2>3. missed' \in BOOLEAN /\ gap' \in BOOLEAN
      BY <2>2 DEF SocketTypes, SocketTypeOK
    <2> QED BY <1>1, <2>1, <2>2, <2>3, LastNSuffix
  <1> QED BY <1>3, <1>4

\* Delivering an event keeps the types.
LEMMA DeliverTypes ==
    ASSUME SocketTypes, NEW e \in ClientEvents, Deliver(e)
    PROVE  /\ got' \subseteq ClientEvents
           /\ conn' \in {"closed", "open", "deaf", "blocked"}
  BY DEF Deliver, SocketTypes, SocketTypeOK

\* The socket starts with its types.
LEMMA SocketInitTypes == SocketInit => SocketTypes
  <1> SUFFICES ASSUME SocketInit PROVE SocketTypes
    OBVIOUS
  <1>1. \A S : <<>> \in Seq(S) /\ Len(<<>>) = 0
    OBVIOUS
  <1>2. EveryChat \in ChatSubs
    BY DEF ChatSubs
  <1>3. counts \in Counts
    BY DEF SocketInit, Counts
  <1>4. got \subseteq ClientEvents /\ boards \subseteq Sessions
    BY DEF SocketInit
  <1>5. /\ hubq \in Seq(ClientEvents) /\ direct \in Seq(ClientEvents)
        /\ commands \in Seq(Commands)
        /\ Len(hubq) <= HubCap /\ Len(direct) <= DirectCap
        /\ Len(commands) <= CommandCap
    BY <1>1, EventSocketAssumption DEF SocketInit
  <1> QED BY <1>2, <1>3, <1>4, <1>5
          DEF SocketInit, SocketTypes, SocketTypeOK

\* The hub and the socket task keep the types.
LEMMA DeliveryTypes ==
    ASSUME SocketTypes, Delivery
    PROVE  SocketTypes'
  <1>1. CASE DeliverDirect
    <2>1. Head(direct) \in ClientEvents /\ direct' \in Seq(ClientEvents)
          /\ Len(direct') <= DirectCap
      BY <1>1, HeadTailProperties, LenProperties, EventSocketAssumption
      DEF DeliverDirect, SocketTypes, SocketTypeOK
    <2> QED BY <1>1, <2>1, DeliverTypes
            DEF DeliverDirect, SocketTypes, SocketTypeOK
  <1>2. CASE DeliverHub
    <2>1. Head(hubq) \in ClientEvents /\ hubq' \in Seq(ClientEvents)
          /\ Len(hubq') <= HubCap
      BY <1>2, HeadTailProperties, LenProperties, EventSocketAssumption
      DEF DeliverHub, SocketTypes, SocketTypeOK, ClientEvents
    <2> QED BY <1>2, <2>1, DeliverTypes
            DEF DeliverHub, SocketTypes, SocketTypeOK
  <1>3. CASE DeliverLagged
    <2>1. Reply \in ClientEvents
      BY DEF ClientEvents
    <2> QED BY <1>3, <2>1, DeliverTypes
            DEF DeliverLagged, SocketTypes, SocketTypeOK
  <1> QED BY <1>1, <1>2, <1>3 DEF Delivery

\* What is sent to the client alone fits its channel, or the task waits.
LEMMA SendDirectTypes ==
    ASSUME SocketTypes, NEW es \in Seq(ClientEvents), SendDirect(es),
           Len(direct) = DirectCap \/ Len(direct) + Len(es) <= DirectCap
    PROVE  /\ direct' \in Seq(ClientEvents) /\ Len(direct') <= DirectCap
           /\ conn' \in {"closed", "open", "deaf", "blocked"}
  <1>1. /\ direct \o es \in Seq(ClientEvents)
        /\ Len(direct \o es) = Len(direct) + Len(es)
        /\ Len(direct) \in Nat /\ Len(es) \in Nat
    BY ConcatProperties, LenProperties DEF SocketTypes
  <1> QED BY <1>1, EventSocketAssumption DEF SendDirect, SocketTypes, SocketTypeOK

\* What the command queue holds, and what remains of it.
LEMMA CommandTypes ==
    ASSUME SocketTypes, commands # <<>>
    PROVE  /\ Head(commands) \in Commands
           /\ Tail(commands) \in Seq(Commands) /\ Len(Tail(commands)) <= CommandCap
           /\ Head(commands).op = "subscribe" =>
                 /\ Head(commands).boards \subseteq Sessions
                 /\ Head(commands).chats \in ChatSubs
                 /\ Head(commands).procs \subseteq Procs
                 /\ IsFiniteSet(Head(commands).procs)
           /\ Head(commands).op = "control" =>
                 /\ Head(commands).proc \in Procs
                 /\ Head(commands).what \in Controls
  <1>1. /\ Head(commands) \in Commands
        /\ Tail(commands) \in Seq(Commands) /\ Len(Tail(commands)) <= CommandCap
    BY HeadTailProperties, LenProperties, EventSocketAssumption
    DEF SocketTypes, SocketTypeOK
  <1>2. \A c \in Commands :
            /\ c.op = "subscribe" => /\ c.boards \subseteq Sessions
                                     /\ c.chats \in ChatSubs
                                     /\ c.procs \subseteq Procs
                                     /\ IsFiniteSet(c.procs)
            /\ c.op = "control" => c.proc \in Procs /\ c.what \in Controls
    BY DEF Commands
  <1> QED BY <1>1, <1>2

-----------------------------------------------------------------------------
(* Every step keeps the types.  A proof below that looks at one step at a   *)
(* time uses the same cases.                                                *)

\* The bounds of the model count.
LEMMA CountSteps ==
    ASSUME NEW c \in Counts
    PROVE  /\ [c EXCEPT !.connects = @ + 1] \in Counts
           /\ [c EXCEPT !.commands = @ + 1] \in Counts
           /\ \A s \in Sessions :
                 [c EXCEPT !.events = @ + 1, !.spoken = @ \cup {s}] \in Counts
  <1>1. c.connects + 1 \in Nat /\ c.commands + 1 \in Nat /\ c.events + 1 \in Nat
    BY DEF Counts
  <1>2. \A s \in Sessions : c.spoken \cup {s} \in SUBSET Sessions
    BY DEF Counts
  <1> QED BY <1>1, <1>2 DEF Counts

\* Clients and publishers keep the types.
LEMMA SocketStepTypes ==
    ASSUME SocketTypes,
           \/ Command \/ Leave \/ ClientCommand
           \/ \E e \in SessionEvents : PublishSession(e)
           \/ \E s \in Sessions : RegisterBoard(s) \/ DeleteSession(s)
    PROVE  SocketTypes'
  <1>1. CASE HandleAnswered
    <2>1. commands # <<>> /\ commands' = Tail(commands)
      BY <1>1 DEF HandleAnswered, TakeCommand
    <2>2. <<Reply>> \in Seq(ClientEvents) /\ Len(<<Reply>>) = 1
      BY DEF ClientEvents
    <2>3. Len(direct) \in Nat /\ Len(direct) <= DirectCap /\ DirectCap \in Nat
      BY LenProperties, EventSocketAssumption DEF SocketTypes, SocketTypeOK
    <2>4. Len(direct) = DirectCap \/ Len(direct) + Len(<<Reply>>) <= DirectCap
      BY <2>2, <2>3
    <2>5. /\ direct' \in Seq(ClientEvents) /\ Len(direct') <= DirectCap
          /\ conn' \in {"closed", "open", "deaf", "blocked"}
      BY <1>1, <2>2, <2>4, SendDirectTypes DEF HandleAnswered
    <2> QED BY <1>1, <2>1, <2>5, CommandTypes
            DEF HandleAnswered, TakeCommand, SocketTypes, SocketTypeOK
  <1>2. CASE HandleSilent
    BY <1>2, CommandTypes DEF HandleSilent, TakeCommand, SocketTypes, SocketTypeOK
  <1>3. CASE Leave
    BY <1>3 DEF Leave, SocketTypes, SocketTypeOK
  <1>4. ASSUME NEW c \in Commands, ClientSends(c) PROVE SocketTypes'
    <2>1. commands' \in Seq(Commands) /\ Len(commands') <= CommandCap
      BY <1>4, AppendProperties, LenProperties, EventSocketAssumption
      DEF ClientSends, SocketTypes, SocketTypeOK
    <2>2. counts' \in Counts
      BY <1>4, CountSteps DEF ClientSends, SocketTypes, SocketTypeOK
    <2> QED BY <1>4, <2>1, <2>2 DEF ClientSends, SocketTypes, SocketTypeOK
  <1>5. ASSUME NEW e \in SessionEvents, PublishSession(e) PROVE SocketTypes'
    <2>1. <<e>> \in Seq(ClientEvents)
      BY DEF ClientEvents
    <2>2. /\ hubq' \in Seq(ClientEvents) /\ Len(hubq') <= HubCap
          /\ missed' \in BOOLEAN /\ gap' \in BOOLEAN
      BY <1>5, <2>1, ReceivedTypes DEF PublishSession
    <2>3. e.session \in Sessions
      BY DEF SessionEvents, ChatEvent, StatusEvent
    <2>4. counts' \in Counts
      BY <1>5, <2>3, CountSteps DEF PublishSession, SocketTypes, SocketTypeOK
    <2> QED BY <1>5, <2>2, <2>4 DEF PublishSession, SocketTypes, SocketTypeOK
  <1>6. ASSUME NEW s \in Sessions, RegisterBoard(s) PROVE SocketTypes'
    BY <1>6 DEF RegisterBoard, SocketTypes, SocketTypeOK, Counts
  <1>7. ASSUME NEW s \in Sessions, DeleteSession(s) PROVE SocketTypes'
    <2>1. <<Reply>> \in Seq(ClientEvents)
      BY DEF ClientEvents
    <2>2. /\ hubq' \in Seq(ClientEvents) /\ Len(hubq') <= HubCap
          /\ missed' \in BOOLEAN /\ gap' \in BOOLEAN
      BY <1>7, <2>1, ReceivedTypes DEF DeleteSession
    <2> QED BY <1>7, <2>2 DEF DeleteSession, SocketTypes, SocketTypeOK
  <1> QED BY <1>1, <1>2, <1>3, <1>4, <1>5, <1>6, <1>7 DEF ClientCommand, Command

\* A connection keeps the types.
LEMMA ConnectTypes ==
    ASSUME SocketTypes, Connect
    PROVE  SocketTypes'
  <1>1. hubq' = <<>> /\ direct' = <<Reply, Reply>> /\ commands' = <<>> /\ got' = {}
    BY DEF Connect
  <1>2. /\ <<Reply, Reply>> \in Seq(ClientEvents) /\ Len(<<Reply, Reply>>) = 2
        /\ <<>> \in Seq(ClientEvents) /\ <<>> \in Seq(Commands) /\ Len(<<>>) = 0
    BY DEF ClientEvents
  <1>3. counts' \in Counts
    BY CountSteps DEF Connect, SocketTypes, SocketTypeOK
  <1>4. EveryChat \in ChatSubs
    BY DEF ChatSubs
  <1>5. /\ hubq' \in Seq(ClientEvents) /\ Len(hubq') <= HubCap
        /\ direct' \in Seq(ClientEvents) /\ Len(direct') <= DirectCap
        /\ commands' \in Seq(Commands) /\ Len(commands') <= CommandCap
        /\ got' \subseteq ClientEvents
    BY <1>1, <1>2, EventSocketAssumption
  <1> QED BY <1>3, <1>4, <1>5 DEF Connect, SocketTypes, SocketTypeOK

\* The bridge: what it hands over is typed, and what it leaves.
LEMMA BridgeTypes ==
    ASSUME ProcTypeOK, SocketTypes, Bridge
    PROVE  ProcTypeOK' /\ SocketTypes' /\ <<Head(events)>> \in Seq(ClientEvents)
  <1>1. /\ Head(events) \in ProcEvents /\ events' \in Seq(ProcEvents)
        /\ Len(events') <= EventCap
    BY HeadTailProperties, LenProperties, ProcessSupervisorAssumption
    DEF Bridge, ProcTypeOK
  <1>2. <<Head(events)>> \in Seq(ClientEvents)
    BY <1>1 DEF ClientEvents
  <1>3. /\ hubq' \in Seq(ClientEvents) /\ Len(hubq') <= HubCap
        /\ missed' \in BOOLEAN /\ gap' \in BOOLEAN
    BY <1>2, ReceivedTypes DEF Bridge
  <1>4. ProcTypeOK'
    BY <1>1 DEF Bridge, ProcTypeOK
  <1>5. SocketTypes'
    BY <1>3 DEF Bridge, SocketTypes, SocketTypeOK
  <1> QED BY <1>2, <1>4, <1>5

\* A control command keeps the types.
LEMMA ControlCommandTypes ==
    ASSUME ProcTypeOK, SocketTypes, ControlCommand
    PROVE  ProcTypeOK' /\ SocketTypes'
  <1> DEFINE c == Head(commands)
  <1>1. c.proc \in Procs /\ c.what \in Controls
    BY CommandTypes DEF ControlCommand, TakeCommand
  <1>2. TakeCommand("control")
    BY DEF ControlCommand
  <1>3. /\ commands' \in Seq(Commands) /\ Len(commands') <= CommandCap
        /\ hubq' = hubq /\ missed' = missed /\ boards' = boards /\ got' = got
        /\ counts' = counts
    BY <1>2, CommandTypes DEF TakeCommand
  <1>4. boardSubs' = boardSubs /\ chatSubs' = chatSubs /\ gap' = gap
    BY DEF ControlCommand
  <1>5. \/ conn' = conn /\ direct' = direct
        \/ SendDirect(<<Reply>>)
    BY DEF ControlCommand
  <1>6. /\ direct' \in Seq(ClientEvents) /\ Len(direct') <= DirectCap
        /\ conn' \in {"closed", "open", "deaf", "blocked"}
    <2>1. CASE conn' = conn /\ direct' = direct
      BY <2>1 DEF SocketTypes, SocketTypeOK
    <2>2. CASE SendDirect(<<Reply>>)
      <3>1. <<Reply>> \in Seq(ClientEvents) /\ Len(<<Reply>>) = 1
        BY DEF ClientEvents
      <3>2. Len(direct) \in Nat /\ Len(direct) <= DirectCap /\ DirectCap \in Nat
        BY LenProperties, EventSocketAssumption DEF SocketTypes, SocketTypeOK
      <3>3. Len(direct) = DirectCap \/ Len(direct) + Len(<<Reply>>) <= DirectCap
        BY <3>1, <3>2
      <3> QED BY <2>2, <3>1, <3>3, SendDirectTypes
    <2> QED BY <1>5, <2>1, <2>2
  <1>7. SocketTypes'
    BY <1>3, <1>4, <1>6 DEF SocketTypes, SocketTypeOK
  <1>8. ProcTask \/ SendControl(c.proc, c.what) \/ AwaitRoom(c.proc)
    BY DEF ControlCommand
  <1>9. ProcTypeOK'
    <2>1. CASE ProcTask
      BY <2>1 DEF ProcTask, procVars, ProcTypeOK
    <2>2. CASE SendControl(c.proc, c.what)
      BY <1>1, <2>2, ControlTypes
    <2>3. CASE AwaitRoom(c.proc)
      BY <1>1, <2>3, WaitTypes
    <2> QED BY <1>8, <2>1, <2>2, <2>3
  <1> QED BY <1>7, <1>9

\* So does the end of its wait for room.
LEMMA ResumeTypes ==
    ASSUME ProcTypeOK, SocketTypes, ResumeInput
    PROVE  ProcTypeOK' /\ SocketTypes'
  <1>1. PICK p \in stalled :
            \/ RoomFound(p) /\ SocketTask
            \/ /\ RoomGone(p) /\ SendDirect(<<Reply>>)
               /\ UNCHANGED <<hubq, missed, commands, boardSubs, chatSubs, boards, got,
                              gap, counts>>
    BY DEF ResumeInput
  <1>0. p \in Procs
    BY DEF ProcTypeOK
  <1>2. ProcTypeOK'
    BY <1>0, <1>1, WaitTypes
  <1>3. CASE SocketTask
    <2>1. SocketTypes'
      BY <1>3 DEF SocketTask, socketVars, SocketTypes, SocketTypeOK
    <2> QED BY <1>2, <2>1
  <1>4. CASE SendDirect(<<Reply>>) /\ ~SocketTask
    <2>1. <<Reply>> \in Seq(ClientEvents) /\ Len(<<Reply>>) = 1
      BY DEF ClientEvents
    <2>2. Len(direct) \in Nat /\ Len(direct) <= DirectCap /\ DirectCap \in Nat
      BY LenProperties, EventSocketAssumption DEF SocketTypes, SocketTypeOK
    <2>3. Len(direct) = DirectCap \/ Len(direct) + Len(<<Reply>>) <= DirectCap
      BY <2>1, <2>2
    <2>4. /\ direct' \in Seq(ClientEvents) /\ Len(direct') <= DirectCap
          /\ conn' \in {"closed", "open", "deaf", "blocked"}
      BY <1>4, <2>1, <2>3, SendDirectTypes
    <2>5. SocketTypes'
      BY <1>1, <1>4, <2>4 DEF SocketTypes, SocketTypeOK
    <2> QED BY <1>2, <2>5
  <1> QED BY <1>1, <1>2, <1>3, <1>4

\* What a subscription sends: a typed beginning of the answer, the agent
\* events and the replay; all of it unless the client is told of a gap.
LEMMA SubscribeSends ==
    ASSUME ProcTypeOK, SocketTypes, Subscribe
    PROVE  LET ps == Head(commands).procs
               replay == Replay(SetToSeq(ps))
           IN /\ ps \subseteq Procs /\ IsFiniteSet(ps)
              /\ Head(commands).op = "subscribe"
              /\ direct' \in Seq(ClientEvents) /\ Len(direct') <= DirectCap
              /\ conn' \in {conn, "blocked"}
              /\ conn' = conn /\ ~gap' =>
                    \A x : Holds(direct, x) \/ Holds(replay, x)
                               => Holds(direct', x)
              /\ gap => gap'
              /\ gap' \in BOOLEAN
  <1> DEFINE ps == Head(commands).procs
             replay == Replay(SetToSeq(ps))
             room == DirectCap - Len(direct)
  <1>1. PICK agents \in {<<>>} \cup {<<ChatEvent(s)>> : s \in counts.spoken} :
            HandleSubscribe(agents, replay)
    BY DEF Subscribe
  <1>2. TakeCommand("subscribe")
    BY <1>1 DEF HandleSubscribe
  <1>3. /\ Head(commands).op = "subscribe" /\ ps \subseteq Procs
        /\ IsFiniteSet(ps)
    BY <1>2, CommandTypes DEF TakeCommand
  <1>4. replay \in Seq(ProcEvents)
    BY <1>3, ReplayHolds
  <1> DEFINE all == <<Reply>> \o agents \o replay
             part == SubSeq(all, 1, IF room < Len(all) THEN room ELSE Len(all))
  <1> HIDE DEF replay
  <1>5. agents \in Seq(ClientEvents)
    <2>1. counts.spoken \subseteq Sessions
      BY DEF SocketTypes, SocketTypeOK, Counts
    <2>2. \A s \in Sessions : ChatEvent(s) \in ClientEvents
      BY DEF ClientEvents, SessionEvents
    <2>3. CASE agents = <<>>
      BY <2>3
    <2>4. ASSUME NEW s \in Sessions, agents = <<ChatEvent(s)>>
          PROVE  agents \in Seq(ClientEvents)
      <3>1. ChatEvent(s) \in ClientEvents
        BY <2>2
      <3> HIDE DEF ChatEvent
      <3> QED BY <2>4, <3>1
    <2> QED BY <2>1, <2>3, <2>4
  <1>6. replay \in Seq(ClientEvents)
    BY <1>4, SeqMonotonic DEF ClientEvents
  <1>7. <<Reply>> \in Seq(ClientEvents)
    BY DEF ClientEvents
  <1>8. all \in Seq(ClientEvents) /\ \A x : Holds(replay, x) => Holds(all, x)
    <2>1. <<Reply>> \o agents \in Seq(ClientEvents)
      BY <1>5, <1>7, ConcatProperties
    <2> QED BY <1>6, <2>1, ConcatProperties, ConcatHolds
  <1>9. SendDirect(part) /\ gap' = (gap \/ Len(all) > room)
    BY <1>1 DEF HandleSubscribe
  <1> HIDE DEF all
  <1>10. /\ Len(direct) \in Nat /\ Len(direct) <= DirectCap /\ DirectCap \in Nat
         /\ Len(all) \in Nat /\ room \in Nat
    BY <1>8, LenProperties, EventSocketAssumption DEF SocketTypes, SocketTypeOK
  <1>11. /\ part \in Seq(ClientEvents) /\ Len(part) <= room
         /\ Len(all) <= room => part = all
    <2>1. \A i \in 1..Len(all) : all[i] \in ClientEvents
      BY <1>8, ElementOfSeq
    <2>2. CASE room < Len(all)
      <3>1. part = SubSeq(all, 1, room)
        BY <2>2
      <3>2. \A i \in 1..room : all[i] \in ClientEvents
        BY <2>1, <2>2, <1>10
      <3>3. /\ SubSeq(all, 1, room) \in Seq(ClientEvents)
            /\ Len(SubSeq(all, 1, room)) = IF 1 <= room THEN room - 1 + 1 ELSE 0
        BY <1>10, <3>2, SubSeqProperties
      <3> QED BY <3>1, <3>3, <2>2, <1>10
    <2>3. CASE ~(room < Len(all))
      <3>1. part = all
        BY <2>3, <1>8, SubSeqFull
      <3> QED BY <3>1, <1>8, <2>3, <1>10
    <2> QED BY <2>2, <2>3
  <1> HIDE DEF part
  <1>12. /\ direct' \in Seq(ClientEvents) /\ Len(direct') <= DirectCap
    BY <1>9, <1>10, <1>11, SendDirectTypes
  <1>13. conn' \in {conn, "blocked"}
    BY <1>9 DEF SendDirect
  <1>14. ASSUME conn' = conn, ~gap', NEW x, Holds(direct, x) \/ Holds(replay, x)
         PROVE  Holds(direct', x)
    <2>1. conn # "blocked"
      BY <1>2 DEF TakeCommand
    <2>2. direct' = direct \o part
      BY <1>9, <1>14, <2>1 DEF SendDirect
    <2>3. ~(Len(all) > room)
      BY <1>9, <1>14, Zenon
    <2>4. part = all
      BY <1>10, <1>11, <2>3
    <2> QED BY <1>8, <1>14, <2>2, <2>4, ConcatHolds DEF SocketTypes
  <1>15. gap' \in BOOLEAN /\ (gap => gap')
    BY <1>9 DEF SocketTypes, SocketTypeOK
  <1> QED BY <1>3, <1>12, <1>13, <1>14, <1>15 DEF replay

\* A subscription keeps the types.
LEMMA SubscribeTypes ==
    ASSUME TypeOK, Subscribe
    PROVE  ProcTypeOK' /\ SocketTypes' /\ old' \in [Procs -> SUBSET Nat]
  <1>1. ProcTypeOK /\ SocketTypes /\ old \in [Procs -> SUBSET Nat]
    BY DEF TypeOK, SocketTypes
  <1>2. ProcTypeOK'
    BY <1>1 DEF Subscribe, ProcTask, procVars, ProcTypeOK
  <1>3. old' \in [Procs -> SUBSET Nat]
    BY <1>1 DEF Subscribe
  <1>4. PICK agents, replay : HandleSubscribe(agents, replay)
    BY DEF Subscribe
  <1>5. /\ direct' \in Seq(ClientEvents) /\ Len(direct') <= DirectCap
        /\ conn' \in {conn, "blocked"} /\ gap' \in BOOLEAN
    BY <1>1, SubscribeSends
  <1>6. TakeCommand("subscribe") /\ boardSubs' = Head(commands).boards \cap boards
        /\ chatSubs' = Head(commands).chats
    BY <1>4 DEF HandleSubscribe
  <1>7. /\ commands' \in Seq(Commands) /\ Len(commands') <= CommandCap
        /\ chatSubs' \in ChatSubs
    BY <1>1, <1>6, CommandTypes DEF TakeCommand
  <1>8. SocketTypes'
    BY <1>1, <1>5, <1>6, <1>7 DEF TakeCommand, SocketTypes, SocketTypeOK
  <1> QED BY <1>2, <1>3, <1>8

\* Types hold at first.
LEMMA TypeInit == Init => TypeOK
  <1> SUFFICES ASSUME Init PROVE TypeOK
    OBVIOUS
  <1>1. old \in [Procs -> SUBSET Nat]
    BY DEF Init
  <1> QED BY <1>1, ProcInitTypes, SocketInitTypes DEF Init, TypeOK, SocketTypes

\* Every step keeps the types.
LEMMA TypeStep == TypeOK /\ [Next]_vars => TypeOK'
  <1> SUFFICES ASSUME TypeOK, [Next]_vars PROVE TypeOK'
    OBVIOUS
  <1>0. ProcTypeOK /\ SocketTypes /\ old \in [Procs -> SUBSET Nat]
    BY DEF TypeOK, SocketTypes
  <1>1. SUFFICES ProcTypeOK' /\ SocketTypes' /\ old' \in [Procs -> SUBSET Nat]
    BY DEF TypeOK, SocketTypes
  <1>2. ASSUME SocketTask PROVE SocketTypes'
    BY <1>0, <1>2 DEF SocketTask, socketVars, SocketTypes, SocketTypeOK
  <1>3. ASSUME ProcTask PROVE ProcTypeOK'
    BY <1>0, <1>3 DEF ProcTask, procVars, ProcTypeOK
  <1>4. CASE ProcNext /\ SocketTask /\ UNCHANGED old
    BY <1>0, <1>2, <1>4, ProcTypes
  <1>5. CASE (Bridge \/ ControlCommand \/ ResumeInput) /\ UNCHANGED old
    BY <1>0, <1>5, BridgeTypes, ControlCommandTypes, ResumeTypes
  <1>6. CASE /\ \/ Delivery \/ Command \/ Leave \/ ClientCommand
                \/ \E e \in SessionEvents : PublishSession(e)
                \/ \E s \in Sessions : RegisterBoard(s) \/ DeleteSession(s)
             /\ ProcTask /\ UNCHANGED old
    BY <1>0, <1>3, <1>6, DeliveryTypes, SocketStepTypes
  <1>7. CASE Connect /\ ProcTask /\ old' = kept
    <2>1. kept \in [Procs -> SUBSET Nat]
      BY <1>0 DEF ProcTypeOK
    <2> QED BY <1>0, <1>3, <1>7, <2>1, ConnectTypes
  <1>8. CASE Subscribe
    BY <1>8, SubscribeTypes
  <1>9. CASE UNCHANGED vars
    BY <1>0, <1>2, <1>3, <1>9 DEF vars, ProcTask, SocketTask
  <1> QED BY <1>4, <1>5, <1>6, <1>7, <1>8, <1>9 DEF Next

\* The types of every variable hold in every state: no channel exceeds its
\* capacity, and what the client is sent is an event of a process or a session
\* or an answer to itself (processes_and_websocket.rs, iowb-process lib.rs).
THEOREM TypeCorrect == Spec => []TypeOK
  BY TypeInit, TypeStep, PTL DEF Spec

-----------------------------------------------------------------------------
(* The readers of a pipe are done when its watcher has drained them; a PTY's *)
(* gate is closed, with no reader behind it, when its exit is published.     *)

EndsInOrder(p) ==
    /\ kind[p] = "none" => /\ stage[p] = "none"
                           /\ \A s \in Streams : reader[p][s].at = "off"
    /\ kind[p] = "pipe" /\ stage[p] \in {"stderr", "cut stderr", "drained", "over"}
          => reader[p]["stdout"].at = "done"
    /\ kind[p] = "pipe" /\ stage[p] \in {"drained", "over"}
          => reader[p]["stderr"].at = "done"
    /\ kind[p] = "pty" /\ stage[p] = "over"
          => ~gate[p] /\ \A s \in Streams : reader[p][s].at # "pushed"
DrainOrder == \A p \in Procs : EndsInOrder(p)

\* What a sequence of events says of a process.
Exited(q, p) == \E i \in 1..Len(q) : q[i].type = "exited" /\ q[i].proc = p
Speaks(q, p) == \E i \in 1..Len(q) : q[i].type = "output" /\ q[i].proc = p
ExitIsLast(q) ==
    \A p \in Procs : \A i, j \in 1..Len(q) :
        i < j /\ q[i].type = "exited" /\ q[i].proc = p
            => ~(q[j].type = "output" /\ q[j].proc = p)

ExitOrder ==
    /\ ExitIsLast(hubq) /\ ExitIsLast(events)
    /\ \A p \in Procs : Exited(hubq, p) => ~Speaks(events, p)
    /\ \A p \in Procs : Exited(hubq, p) \/ Exited(events, p) => stage[p] = "over"

\* A chunk of a process in a sequence of events, or anywhere on its way.
Carries(q, p, n) ==
    \E i \in 1..Len(q) : q[i].type = "output" /\ q[i].proc = p /\ q[i].chunk = n
OnItsWay(p, n) ==
    \/ \E e \in got : e.type = "output" /\ e.proc = p /\ e.chunk = n
    \/ Carries(direct, p, n) \/ Carries(hubq, p, n) \/ Carries(events, p, n)
    \/ \E s \in Streams : reader[p][s].at = "pushed" /\ reader[p][s].chunk = n
NothingMissing ==
    conn = "open" /\ ~gap /\ ~lagged =>
        \A p \in Procs : \A n \in kept[p] \ old[p] : OnItsWay(p, n)

IInv == TypeOK /\ DrainOrder /\ ExitOrder /\ NothingMissing

\* Nothing is read or drained at first.
LEMMA DrainInit == Init => DrainOrder
  BY DEF Init, ProcInit, DrainOrder, EndsInOrder, Off

\* What a reader may do to itself: nothing once it is done, and behind a
\* closed gate it never holds a chunk that is stored and not yet sent.
LEMMA ReaderMoves ==
    ASSUME TypeOK, NEW p \in Procs, NEW s \in Streams,
           \/ ReadChunk(p, s) \/ ReaderStep(p, s) \/ ReadEnd(p, s)
           \/ ReadFails(p, s) \/ ReadCut(p, s)
    PROVE  /\ \A q \in Procs, t \in Streams :
                 q # p \/ t # s => reader'[q][t] = reader[q][t]
           /\ reader[p][s].at \notin {"done", "off"}
           /\ reader'[p][s].at = "pushed" => gate[p]
           /\ UNCHANGED <<kind, stage, gate>>
  <1>0. ProcTypeOK
    BY DEF TypeOK
  <1>1. /\ Idle \in ReaderStates /\ Done \in ReaderStates
        /\ \A n \in Nat : [at |-> "read", chunk |-> n] \in ReaderStates
    BY DEF ReaderStates, Idle, Done
  <1>2. /\ reader[p][s] \in ReaderStates /\ made[p] + 1 \in Nat
        /\ [reader[p][s] EXCEPT !.at = "pushed"] \in ReaderStates
    <2>1. reader[p][s] \in ReaderStates /\ made[p] + 1 \in Nat
      BY <1>0 DEF ProcTypeOK, ReaderStates
    <2> QED BY <2>1 DEF ReaderStates
  <1>3. Idle.at = "idle" /\ Done.at = "done"
    BY DEF Idle, Done
  <1>4. UNCHANGED <<kind, stage, gate>>
    BY DEF ReadChunk, ReaderStep, KeepChunk, SendChunk, ReadEnd, ReadFails,
           ReadCut, ReaderOnly
  <1>5. reader[p][s].at \notin {"done", "off"}
    BY DEF ReadChunk, ReaderStep, KeepChunk, SendChunk, ReadEnd, ReadFails, ReadCut
  <1>6. CASE KeepChunk(p, s)
    <2>1. CASE gate[p]
      <3>1. SetReader(p, s, [reader[p][s] EXCEPT !.at = "pushed"])
        BY <1>6, <2>1 DEF KeepChunk
      <3> QED BY <1>0, <1>2, <1>4, <1>5, <2>1, <3>1, SetReaderTypes
    <2>2. CASE ~gate[p]
      <3>1. SetReader(p, s, Idle)
        BY <1>6, <2>2 DEF KeepChunk
      <3> QED BY <1>0, <1>1, <1>3, <1>4, <1>5, <3>1, SetReaderTypes
    <2> QED BY <2>1, <2>2
  <1>7. CASE ~KeepChunk(p, s)
    <2>1. PICK r \in {Idle, Done, [at |-> "read", chunk |-> made[p] + 1]} :
              SetReader(p, s, r)
      BY <1>7 DEF ReadChunk, ReaderStep, SendChunk, ReadEnd, ReadFails, ReadCut
    <2>2. r \in ReaderStates /\ r.at # "pushed"
      BY <1>1, <1>2, <1>3
    <2> QED BY <1>0, <1>4, <1>5, <2>1, <2>2, SetReaderTypes
  <1> QED BY <1>6, <1>7

\* A step that leaves a process alone, and one of its watcher.
LEMMA EndsUnchanged ==
    ASSUME NEW q, EndsInOrder(q), reader'[q] = reader[q], kind'[q] = kind[q],
           stage'[q] = stage[q], gate'[q] = gate[q]
    PROVE  EndsInOrder(q)'
  BY DEF EndsInOrder

\* The watcher ends a process after its readers.
LEMMA WatcherEnds ==
    ASSUME TypeOK, DrainOrder, NEW p \in Procs, WatcherStep(p)
    PROVE  DrainOrder'
  <1>0. ProcTypeOK
    BY DEF TypeOK
  <1>1. reader' = reader /\ kind' = kind
    BY DEF WatcherStep, WaitReturns, KillReturns, Unlist, Drained,
           DrainTimeout, PublishEnd, WatcherOnly
  <1>2. \A q \in Procs : q # p => stage'[q] = stage[q]
    BY <1>0 DEF WatcherStep, WaitReturns, KillReturns, Unlist, Drained,
                DrainTimeout, PublishEnd, SetStage, ProcTypeOK
  <1>3. \A q \in Procs : q # p => gate'[q] = gate[q]
    BY <1>0 DEF WatcherStep, WaitReturns, KillReturns, Unlist, Drained,
                DrainTimeout, PublishEnd, ProcTypeOK
  <1>4. \A q \in Procs : EndsInOrder(q)
    BY DEF DrainOrder
  <1>5. SUFFICES EndsInOrder(p)'
    BY <1>1, <1>2, <1>3, <1>4, EndsUnchanged DEF DrainOrder
  <1>6. stage[p] # "none"
    BY DEF WatcherStep, WaitReturns, KillReturns, Unlist, Drained, DrainTimeout,
           PublishEnd, Streams
  <1>7. kind[p] \in {"pipe", "pty"}
    <2>1. kind[p] \in {"none", "pipe", "pty"}
      BY <1>0 DEF ProcTypeOK
    <2> QED BY <1>4, <1>6, <2>1 DEF EndsInOrder
  <1>8. CASE WaitReturns(p) \/ KillReturns(p) \/ Unlist(p)
    <2>1. stage'[p] \in {"ended", "stdout"}
      BY <1>0, <1>8 DEF WaitReturns, KillReturns, Unlist, SetStage, ProcTypeOK
    <2> QED BY <1>1, <1>7, <2>1 DEF EndsInOrder
  <1>9. ASSUME NEW s \in Streams, Drained(p, s) PROVE EndsInOrder(p)'
    <2>1. stage'[p] = AfterDrain(p) /\ reader[p][s].at = "done"
          /\ stage[p] \in (IF s = "stdout" THEN {"stdout", "cut stdout"}
                                           ELSE {"stderr", "cut stderr"})
      BY <1>0, <1>9 DEF Drained, SetStage, ProcTypeOK
    <2>2. s \in {"stdout", "stderr"}
      BY DEF Streams
    <2>3. CASE kind[p] = "pty"
      <3>1. stage'[p] = "drained"
        BY <2>1, <2>3 DEF AfterDrain
      <3> QED BY <1>1, <2>3, <3>1 DEF EndsInOrder
    <2>4. CASE kind[p] = "pipe" /\ s = "stdout"
      <3>1. stage'[p] = "stderr" /\ reader[p]["stdout"].at = "done"
        BY <2>1, <2>4 DEF AfterDrain
      <3> QED BY <1>1, <2>4, <3>1 DEF EndsInOrder
    <2>5. CASE kind[p] = "pipe" /\ s = "stderr"
      <3>1. /\ stage'[p] = "drained" /\ reader[p]["stderr"].at = "done"
            /\ stage[p] \in {"stderr", "cut stderr"}
        BY <2>1, <2>5 DEF AfterDrain
      <3>2. reader[p]["stdout"].at = "done"
        BY <1>4, <2>5, <3>1 DEF EndsInOrder
      <3> QED BY <1>1, <2>5, <3>1, <3>2 DEF EndsInOrder
    <2> QED BY <1>7, <2>2, <2>3, <2>4, <2>5
  <1>10. ASSUME NEW s \in Streams, DrainTimeout(p, s) PROVE EndsInOrder(p)'
    <2>1. stage[p] = s
          /\ stage'[p] = (IF kind[p] = "pty" THEN "drained"
                 ELSE IF s = "stdout" THEN "cut stdout" ELSE "cut stderr")
      BY <1>0, <1>10 DEF DrainTimeout, SetStage, ProcTypeOK
    <2>2. s \in {"stdout", "stderr"}
      BY DEF Streams
    <2>3. CASE kind[p] = "pty"
      BY <1>1, <2>1, <2>3 DEF EndsInOrder
    <2>4. CASE kind[p] = "pipe"
      BY <1>1, <1>4, <2>1, <2>2, <2>4 DEF EndsInOrder
    <2> QED BY <1>7, <2>3, <2>4
  <1>11. CASE PublishEnd(p)
    <2>1. /\ stage[p] = "drained" /\ stage'[p] = "over"
          /\ kind[p] = "pty" => \A s \in Streams : reader[p][s].at # "pushed"
      BY <1>0, <1>11 DEF PublishEnd, SetStage, ProcTypeOK
    <2>2. kind[p] = "pty" => ~gate'[p]
      BY <1>0, <1>11 DEF PublishEnd, ProcTypeOK
    <2> QED BY <1>1, <1>4, <1>7, <2>1, <2>2 DEF EndsInOrder
  <1> QED BY <1>8, <1>9, <1>10, <1>11 DEF WatcherStep

\* Every step keeps readers before the end.
LEMMA DrainStep == TypeOK /\ DrainOrder /\ [Next]_vars => DrainOrder'
  <1> SUFFICES ASSUME TypeOK, DrainOrder, [Next]_vars PROVE DrainOrder'
    OBVIOUS
  <1>0. ProcTypeOK
    BY DEF TypeOK
  <1>1. CASE UNCHANGED <<kind, stage, gate, reader>>
    BY <1>1, EndsUnchanged DEF DrainOrder
  <1>2. ASSUME NEW p \in Procs, NEW k \in Kinds, StartProcess(p, k)
        PROVE  DrainOrder'
    <2>1. k \in {"pipe", "pty"}
      BY ProcessSupervisorAssumption
    <2>2. kind' = [kind EXCEPT ![p] = k] /\ stage' = [stage EXCEPT ![p] = "waiting"]
          /\ gate' = gate
          /\ \A q \in Procs : q # p => reader'[q] = reader[q]
      BY <1>2 DEF StartProcess
    <2>3. /\ kind'[p] = k /\ stage'[p] = "waiting"
          /\ \A q \in Procs : q # p => /\ kind'[q] = kind[q] /\ stage'[q] = stage[q]
                                       /\ gate'[q] = gate[q] /\ reader'[q] = reader[q]
      BY <1>0, <2>2 DEF ProcTypeOK
    <2>4. EndsInOrder(p)'
      BY <2>1, <2>3 DEF EndsInOrder
    <2> QED BY <2>3, <2>4, EndsUnchanged DEF DrainOrder
  <1>3. ASSUME NEW p \in Procs, NEW s \in Streams,
               \/ ReadChunk(p, s) \/ ReaderStep(p, s) \/ ReadEnd(p, s)
               \/ ReadFails(p, s) \/ ReadCut(p, s)
        PROVE  DrainOrder'
    <2>1. /\ \A q \in Procs, t \in Streams :
                q # p \/ t # s => reader'[q][t] = reader[q][t]
          /\ reader[p][s].at \notin {"done", "off"}
          /\ reader'[p][s].at = "pushed" => gate[p]
          /\ UNCHANGED <<kind, stage, gate>>
      BY <1>3, ReaderMoves
    <2>2. "stdout" \in Streams /\ "stderr" \in Streams
      BY DEF Streams
    <2>3. reader[p][s].at \in {"idle", "read", "pushed"}
      BY <1>0, <2>1 DEF ProcTypeOK
    <2>4. EndsInOrder(p)'
      <3>1. EndsInOrder(p)
        BY DEF DrainOrder
      <3>2. kind[p] # "none"
        BY <2>3, <3>1 DEF EndsInOrder
      <3>3. kind[p] = "pipe" => EndsInOrder(p)'
        BY <2>1, <2>2, <3>1 DEF EndsInOrder
      <3>4. kind[p] = "pty" => EndsInOrder(p)'
        BY <2>1, <3>1 DEF EndsInOrder
      <3> QED BY <1>0, <3>2, <3>3, <3>4 DEF ProcTypeOK
    <2>5. ASSUME NEW q \in Procs, q # p PROVE EndsInOrder(q)'
      <3>1. reader[q] \in [Streams -> ReaderStates]
            /\ reader'[q] \in [Streams -> ReaderStates]
        BY <1>0, TypeStep DEF TypeOK, ProcTypeOK, ReaderStates
      <3>2. reader'[q] = reader[q]
        BY <2>1, <2>5, <3>1
      <3> QED BY <2>1, <3>2, EndsUnchanged DEF DrainOrder
    <2> QED BY <2>4, <2>5 DEF DrainOrder
  <1>4. ASSUME NEW p \in Procs, WatcherStep(p) PROVE DrainOrder'
    BY <1>4, WatcherEnds
  <1>5. \/ UNCHANGED <<kind, stage, gate, reader>>
        \/ \E p \in Procs, k \in Kinds : StartProcess(p, k)
        \/ \E p \in Procs, s \in Streams :
              \/ ReadChunk(p, s) \/ ReaderStep(p, s) \/ ReadEnd(p, s)
              \/ ReadFails(p, s) \/ ReadCut(p, s)
        \/ \E p \in Procs : WatcherStep(p)
    <2>1. CASE ProcNext
      BY <2>1 DEF ProcNext, ChildExits, HolderLeaves, SendControl, ServeInput,
              ServeResize, ServeKill, ControlEnds, TakeControl, ControlOnly, PipesOnly
    <2>2. CASE ControlCommand \/ ResumeInput
      BY <2>2, WaitLeaves DEF ControlCommand, ResumeInput, SendControl, ControlOnly,
              PipesOnly, ProcTask, procVars
    <2>3. CASE Bridge \/ ProcTask \/ UNCHANGED vars
      BY <2>3 DEF Bridge, ProcTask, procVars, vars
    <2> QED BY <2>1, <2>2, <2>3 DEF Next, Subscribe
  <1> QED BY <1>1, <1>2, <1>3, <1>4, <1>5

\* Behind a published end no reader holds a chunk it has still to send.
LEMMA OverIsSilent ==
    ASSUME TypeOK, DrainOrder, NEW p \in Procs, stage[p] = "over", NEW s \in Streams
    PROVE  reader[p][s].at # "pushed"
  <1>1. kind[p] \in {"none", "pipe", "pty"} /\ s \in {"stdout", "stderr"}
    BY DEF TypeOK, ProcTypeOK, Streams
  <1>2. EndsInOrder(p)
    BY DEF DrainOrder
  <1> QED BY <1>1, <1>2 DEF EndsInOrder

-----------------------------------------------------------------------------
(* Channels that lose their oldest events keep the order of the others.      *)

SuffixOf(r, q) == \E k \in 0..Len(q) : /\ Len(r) = Len(q) - k
                                       /\ \A i \in 1..Len(r) : r[i] = q[i + k]

\* The last n elements are a suffix.
LEMMA LastNIsSuffix ==
    ASSUME NEW S, NEW q \in Seq(S), NEW n \in Nat \ {0}
    PROVE  SuffixOf(LastN(q, n), q)
  <1>1. PICK k \in 0..Len(q) :
            /\ Len(LastN(q, n)) = Len(q) - k
            /\ \A i \in 1..(Len(q) - k) : LastN(q, n)[i] = q[i + k]
    BY LastNSuffix
  <1> QED BY <1>1 DEF SuffixOf

\* A tail is a suffix.
LEMMA TailIsSuffix ==
    ASSUME NEW S, NEW q \in Seq(S), q # <<>>
    PROVE  SuffixOf(Tail(q), q)
  <1>1. /\ Len(Tail(q)) = Len(q) - 1 /\ Len(q) \in Nat \ {0}
        /\ \A i \in 1..Len(Tail(q)) : Tail(q)[i] = q[i + 1]
    BY HeadTailProperties, LenProperties, EmptySeq
  <1>2. 1 \in 0..Len(q)
    BY <1>1
  <1> QED BY <1>1, <1>2 DEF SuffixOf

\* A suffix speaks of no more, and keeps exits last.
LEMMA SuffixKeeps ==
    ASSUME NEW S, NEW q \in Seq(S), NEW r \in Seq(S), SuffixOf(r, q)
    PROVE  /\ \A p : Exited(r, p) => Exited(q, p)
           /\ \A p : Speaks(r, p) => Speaks(q, p)
           /\ ExitIsLast(q) => ExitIsLast(r)
  <1>1. Len(q) \in Nat /\ Len(r) \in Nat
    BY LenProperties
  <1>2. PICK k \in 0..Len(q) : /\ Len(r) = Len(q) - k
                               /\ \A i \in 1..Len(r) : r[i] = q[i + k]
    BY DEF SuffixOf
  <1>3. \A i \in 1..Len(r) : i + k \in 1..Len(q) /\ r[i] = q[i + k]
    BY <1>1, <1>2
  <1>4. \A i, j \in 1..Len(r) : i < j => i + k < j + k
    BY <1>1, <1>2
  <1>5. ASSUME NEW p, Exited(r, p) PROVE Exited(q, p)
    BY <1>3, <1>5 DEF Exited
  <1>6. ASSUME NEW p, Speaks(r, p) PROVE Speaks(q, p)
    BY <1>3, <1>6 DEF Speaks
  <1>7. ASSUME ExitIsLast(q) PROVE ExitIsLast(r)
    <2> SUFFICES ASSUME NEW p \in Procs, NEW i \in 1..Len(r), NEW j \in 1..Len(r),
                        i < j, r[i].type = "exited", r[i].proc = p
                 PROVE  ~(r[j].type = "output" /\ r[j].proc = p)
      BY DEF ExitIsLast
    <2> QED BY <1>3, <1>4, <1>7 DEF ExitIsLast
  <1> QED BY <1>5, <1>6, <1>7

\* A concatenation keeps exits last when the second part is silent about those who left.
LEMMA ConcatKeeps ==
    ASSUME NEW S, NEW q \in Seq(S), NEW r \in Seq(S)
    PROVE  /\ \A p : Exited(q \o r, p) <=> Exited(q, p) \/ Exited(r, p)
           /\ \A p : Speaks(q \o r, p) <=> Speaks(q, p) \/ Speaks(r, p)
           /\ (/\ ExitIsLast(q) /\ ExitIsLast(r)
               /\ \A p \in Procs : Exited(q, p) => ~Speaks(r, p))
                 => ExitIsLast(q \o r)
  <1> DEFINE t == q \o r
             l == Len(q)
  <1>1. l \in Nat /\ Len(r) \in Nat /\ Len(t) = l + Len(r)
        /\ \A i \in 1..(l + Len(r)) : t[i] = IF i <= l THEN q[i] ELSE r[i - l]
    BY ConcatProperties, LenProperties
  <1> HIDE DEF t
  <1>2. \A i \in 1..Len(t) : \/ i \in 1..l /\ t[i] = q[i]
                             \/ ~(i <= l) /\ i - l \in 1..Len(r) /\ t[i] = r[i - l]
    BY <1>1
  <1>3. \A i \in 1..l : i \in 1..Len(t) /\ t[i] = q[i]
    BY <1>1
  <1>4. ASSUME NEW i \in 1..Len(r) PROVE l + i \in 1..Len(t) /\ t[l + i] = r[i]
    <2>1. l + i \in 1..Len(t) /\ ~(l + i <= l) /\ (l + i) - l = i
      BY <1>1
    <2> QED BY <1>1, <2>1
  <1>5. ASSUME NEW p PROVE Exited(t, p) <=> Exited(q, p) \/ Exited(r, p)
    <2>1. ASSUME Exited(t, p) PROVE Exited(q, p) \/ Exited(r, p)
      BY <1>2, <2>1 DEF Exited
    <2>2. ASSUME Exited(q, p) PROVE Exited(t, p)
      BY <1>3, <2>2 DEF Exited
    <2>3. ASSUME Exited(r, p) PROVE Exited(t, p)
      BY <1>4, <2>3 DEF Exited
    <2> QED BY <2>1, <2>2, <2>3
  <1>6. ASSUME NEW p PROVE Speaks(t, p) <=> Speaks(q, p) \/ Speaks(r, p)
    <2>1. ASSUME Speaks(t, p) PROVE Speaks(q, p) \/ Speaks(r, p)
      BY <1>2, <2>1 DEF Speaks
    <2>2. ASSUME Speaks(q, p) PROVE Speaks(t, p)
      BY <1>3, <2>2 DEF Speaks
    <2>3. ASSUME Speaks(r, p) PROVE Speaks(t, p)
      BY <1>4, <2>3 DEF Speaks
    <2> QED BY <2>1, <2>2, <2>3
  <1>7. ASSUME ExitIsLast(q), ExitIsLast(r),
               \A p \in Procs : Exited(q, p) => ~Speaks(r, p)
        PROVE  ExitIsLast(t)
    <2> SUFFICES ASSUME NEW p \in Procs, NEW i \in 1..Len(t), NEW j \in 1..Len(t),
                        i < j, t[i].type = "exited", t[i].proc = p,
                        t[j].type = "output", t[j].proc = p
                 PROVE  FALSE
      BY DEF ExitIsLast
    <2>1. CASE i \in 1..l /\ t[i] = q[i] /\ j \in 1..l /\ t[j] = q[j]
      BY <1>7, <2>1 DEF ExitIsLast
    <2>2. CASE i \in 1..l /\ t[i] = q[i] /\ j - l \in 1..Len(r) /\ t[j] = r[j - l]
      <3>1. Exited(q, p) /\ Speaks(r, p)
        BY <2>2 DEF Exited, Speaks
      <3> QED BY <1>7, <3>1
    <2>3. CASE i - l \in 1..Len(r) /\ t[i] = r[i - l]
               /\ j - l \in 1..Len(r) /\ t[j] = r[j - l]
      <3>1. i - l < j - l
        BY <1>1
      <3> QED BY <1>7, <2>3, <3>1 DEF ExitIsLast
    <2>4. CASE ~(i <= l) /\ j \in 1..l
      BY <1>1, <2>4
    <2> QED BY <1>2, <2>1, <2>2, <2>3, <2>4
  <1> QED BY <1>5, <1>6, <1>7 DEF t

\* A queue of one event.
LEMMA OneEvent ==
    ASSUME NEW e
    PROVE  /\ ExitIsLast(<<e>>)
           /\ \A p : Exited(<<e>>, p) <=> e.type = "exited" /\ e.proc = p
           /\ \A p : Speaks(<<e>>, p) <=> e.type = "output" /\ e.proc = p
  <1>1. Len(<<e>>) = 1 /\ <<e>>[1] = e /\ \A i \in 1..1 : i = 1
    OBVIOUS
  <1>2. \A i, j \in 1..1 : ~(i < j)
    OBVIOUS
  <1>3. ExitIsLast(<<e>>)
    BY <1>1, <1>2 DEF ExitIsLast
  <1> QED BY <1>1, <1>3 DEF Exited, Speaks

\* An event is the head of what it was taken from.
LEMMA TakenApart ==
    ASSUME NEW S, NEW q \in Seq(S), q # <<>>, ExitIsLast(q)
    PROVE  /\ Head(q) \in S /\ Tail(q) \in Seq(S)
           /\ ExitIsLast(Tail(q))
           /\ \A p : Exited(<<Head(q)>>, p) \/ Exited(Tail(q), p) => Exited(q, p)
           /\ \A p : Speaks(<<Head(q)>>, p) \/ Speaks(Tail(q), p) => Speaks(q, p)
           /\ \A p \in Procs : Exited(<<Head(q)>>, p) => ~Speaks(Tail(q), p)
  <1>1. /\ Head(q) \in S /\ Tail(q) \in Seq(S) /\ Len(Tail(q)) = Len(q) - 1
        /\ \A i \in 1..Len(Tail(q)) : Tail(q)[i] = q[i + 1]
        /\ Len(q) \in Nat \ {0} /\ Head(q) = q[1]
    BY HeadTailProperties, LenProperties, EmptySeq
  <1>2. SuffixOf(Tail(q), q)
    BY TailIsSuffix
  <1>3. 1 \in 1..Len(q)
    BY <1>1
  <1>4. ASSUME NEW p \in Procs, Exited(<<Head(q)>>, p), Speaks(Tail(q), p)
        PROVE  FALSE
    <2>1. q[1].type = "exited" /\ q[1].proc = p
      BY <1>1, <1>4, OneEvent
    <2>2. PICK j \in 1..Len(Tail(q)) :
              Tail(q)[j].type = "output" /\ Tail(q)[j].proc = p
      BY <1>4 DEF Speaks
    <2>3. j + 1 \in 1..Len(q) /\ 1 < j + 1 /\ Tail(q)[j] = q[j + 1]
      BY <1>1, <2>2
    <2> QED BY <1>3, <2>1, <2>2, <2>3 DEF ExitIsLast
  <1>5. ASSUME NEW p PROVE /\ Exited(<<Head(q)>>, p) => Exited(q, p)
                           /\ Speaks(<<Head(q)>>, p) => Speaks(q, p)
    BY <1>1, <1>3, OneEvent DEF Exited, Speaks
  <1> QED BY <1>1, <1>2, <1>4, <1>5, SuffixKeeps

-----------------------------------------------------------------------------
(* A published exit is the last of the output of its process.                *)

\* What a step of a process publishes: output only before the end.
LEMMA EmitOrder ==
    ASSUME TypeOK, ExitOrder, NEW es \in Seq(ProcEvents), Emit(es), UNCHANGED hubq,
           ExitIsLast(es),
           \A p \in Procs : Speaks(es, p) => stage[p] # "over",
           \A p \in Procs : Exited(es, p) => stage'[p] = "over",
           \A p \in Procs : stage[p] = "over" => stage'[p] = "over"
    PROVE  ExitOrder'
  <1>1. events \in Seq(ProcEvents) /\ EventCap \in Nat \ {0} /\ hubq \in Seq(ClientEvents)
    BY ProcessSupervisorAssumption DEF TypeOK, ProcTypeOK
  <1>2. events' = LastN(events \o es, EventCap)
    BY EmitTypes DEF TypeOK
  <1>3. events \o es \in Seq(ProcEvents)
    BY <1>1, ConcatProperties
  <1>4. SuffixOf(events', events \o es) /\ events' \in Seq(ProcEvents)
    BY <1>1, <1>2, <1>3, LastNIsSuffix, LastNSuffix
  <1>5. ExitIsLast(events \o es)
    BY <1>1, ConcatKeeps DEF ExitOrder
  <1>6. /\ ExitIsLast(events')
        /\ \A p : Exited(events', p) => Exited(events, p) \/ Exited(es, p)
        /\ \A p : Speaks(events', p) => Speaks(events, p) \/ Speaks(es, p)
    BY <1>1, <1>3, <1>4, <1>5, SuffixKeeps, ConcatKeeps
  <1>7. /\ ExitIsLast(hubq') /\ ExitIsLast(events)
        /\ \A p : Exited(hubq', p) <=> Exited(hubq, p)
    BY DEF ExitOrder
  <1>8. \A p \in Procs : Exited(hubq', p) => ~Speaks(events', p)
    BY <1>6, <1>7 DEF ExitOrder
  <1>9. \A p \in Procs : Exited(hubq', p) \/ Exited(events', p) => stage'[p] = "over"
    BY <1>6, <1>7 DEF ExitOrder
  <1>10. ExitIsLast(hubq)' /\ ExitIsLast(events)'
    BY <1>6, <1>7 DEF ExitIsLast
  <1> QED BY <1>8, <1>9, <1>10 DEF ExitOrder, Exited, Speaks

\* What the watcher publishes: an end, or the failure of a process.
LEMMA EndEventsOrder ==
    ASSUME NEW p \in Procs, NEW failed \in BOOLEAN
    PROVE  /\ EndEvents(p, failed) \in Seq(ProcEvents)
           /\ ExitIsLast(EndEvents(p, failed))
           /\ \A q : ~Speaks(EndEvents(p, failed), q)
           /\ \A q : Exited(EndEvents(p, failed), q) => q = p
  <1> DEFINE es == EndEvents(p, failed)
  <1>1. es \in Seq(ProcEvents)
    BY EventTypes DEF EndEvents
  <1>2. \A i \in 1..Len(es) : es[i].type # "output" /\ es[i].proc = p
    BY DEF EndEvents, EndEvent
  <1> HIDE DEF es
  <1>3. ExitIsLast(es) /\ \A q : ~Speaks(es, q) /\ (Exited(es, q) => q = p)
    BY <1>2 DEF ExitIsLast, Speaks, Exited
  <1> QED BY <1>1, <1>3 DEF es

\* A failure is neither output nor an exit.
LEMMA FailureOrder ==
    ASSUME NEW p \in Procs
    PROVE  /\ <<EndEvent(p, "failed")>> \in Seq(ProcEvents)
           /\ ExitIsLast(<<EndEvent(p, "failed")>>)
           /\ \A q : /\ ~Speaks(<<EndEvent(p, "failed")>>, q)
                     /\ ~Exited(<<EndEvent(p, "failed")>>, q)
  <1> DEFINE e == EndEvent(p, "failed")
  <1>1. e \in ProcEvents /\ e.type = "failed"
    BY EventTypes DEF EndEvent
  <1> HIDE DEF e
  <1>2. <<e>> \in Seq(ProcEvents)
    BY <1>1
  <1> QED BY <1>1, <1>2, OneEvent DEF e

\* A step that leaves the queues alone keeps the order.
LEMMA QuietOrder ==
    ASSUME ExitOrder, UNCHANGED <<hubq, events>>,
           \A p \in Procs : stage[p] = "over" => stage'[p] = "over"
    PROVE  ExitOrder'
  BY DEF ExitOrder, ExitIsLast, Exited, Speaks

\* The stage of a watcher is final.
LEMMA OverIsFinal ==
    ASSUME TypeOK, DrainOrder, [Next]_vars
    PROVE  \A p \in Procs : stage[p] = "over" => stage'[p] = "over"
  <1>0. ProcTypeOK
    BY DEF TypeOK
  <1> SUFFICES ASSUME NEW p \in Procs, stage[p] = "over" PROVE stage'[p] = "over"
    OBVIOUS
  <1>1. ASSUME NEW q \in Procs, NEW k \in Kinds, StartProcess(q, k)
        PROVE  stage'[p] = "over"
    BY <1>0, <1>1 DEF StartProcess, DrainOrder, EndsInOrder, ProcTypeOK
  <1>2. ASSUME NEW q \in Procs, WatcherStep(q) PROVE stage'[p] = "over"
    BY <1>0, <1>2 DEF WatcherStep, WaitReturns, KillReturns, Unlist, Drained,
          DrainTimeout, PublishEnd, SetStage, ProcTypeOK, Streams
  <1>3. \/ UNCHANGED stage
        \/ \E q \in Procs, k \in Kinds : StartProcess(q, k)
        \/ \E q \in Procs : WatcherStep(q)
    <2>1. CASE ProcNext
      <3>1. ASSUME NEW q \in Procs, NEW s \in Streams,
                   \/ ReadChunk(q, s) \/ ReaderStep(q, s) \/ ReadEnd(q, s)
                   \/ ReadFails(q, s) \/ ReadCut(q, s)
            PROVE  UNCHANGED stage
        BY <3>1, ReaderMoves
      <3>2. ASSUME NEW q \in Procs,
                   \/ ChildExits(q) \/ HolderLeaves(q) \/ ServeInput(q)
                   \/ ServeResize(q) \/ ServeKill(q) \/ ControlEnds(q)
                   \/ \E r \in Controls : SendControl(q, r)
            PROVE  UNCHANGED stage
        BY <3>2 DEF ChildExits, HolderLeaves, SendControl, ServeInput,
              ServeResize, ServeKill, ControlEnds, TakeControl, ControlOnly, PipesOnly
      <3> QED BY <2>1, <3>1, <3>2 DEF ProcNext
    <2>2. CASE ControlCommand \/ ResumeInput
      BY <2>2, WaitLeaves DEF ControlCommand, ResumeInput, SendControl, ControlOnly,
              PipesOnly, ProcTask, procVars
    <2>3. CASE Bridge \/ ProcTask \/ UNCHANGED vars
      BY <2>3 DEF Bridge, ProcTask, procVars, vars
    <2> QED BY <2>1, <2>2, <2>3 DEF Next, Subscribe
  <1> QED BY <1>1, <1>2, <1>3

\* Every step of a process publishes nothing, a failure, a chunk of a process
\* whose end is not published yet, or that end.
LEMMA ProcOrder ==
    ASSUME TypeOK, DrainOrder, ExitOrder, ProcNext, UNCHANGED hubq,
           \A p \in Procs : stage[p] = "over" => stage'[p] = "over"
    PROVE  ExitOrder'
  <1>0. ProcTypeOK
    BY DEF TypeOK
  <1>1. ASSUME NEW p \in Procs, Emit(<<EndEvent(p, "failed")>>) PROVE ExitOrder'
    BY <1>1, FailureOrder, EmitOrder
  <1>2. ASSUME NEW p \in Procs, NEW s \in Streams, SendChunk(p, s)
        PROVE  ExitOrder'
    <2> DEFINE e == OutputEvent(p, s, reader[p][s].chunk)
    <2>1. reader[p][s].at = "pushed" /\ Emit(<<e>>)
      BY <1>2 DEF SendChunk
    <2>2. stage[p] # "over"
      BY <2>1, OverIsSilent
    <2>3. reader[p][s].chunk \in Nat
      BY <1>0 DEF ProcTypeOK
    <2>4. e \in ProcEvents /\ e.type = "output" /\ e.proc = p
      BY <2>3, EventTypes DEF OutputEvent
    <2> HIDE DEF e
    <2>5. <<e>> \in Seq(ProcEvents)
      BY <2>4
    <2>6. /\ ExitIsLast(<<e>>)
          /\ \A q \in Procs : Speaks(<<e>>, q) => stage[q] # "over"
          /\ \A q \in Procs : Exited(<<e>>, q) => stage'[q] = "over"
      BY <2>2, <2>4, OneEvent
    <2> QED BY <2>1, <2>5, <2>6, EmitOrder
  <1>3. ASSUME NEW p \in Procs, PublishEnd(p) PROVE ExitOrder'
    <2>1. PICK failed \in BOOLEAN : Emit(EndEvents(p, failed))
      BY <1>3 DEF PublishEnd
    <2>2. stage'[p] = "over"
      BY <1>0, <1>3 DEF PublishEnd, SetStage, ProcTypeOK
    <2> QED BY <2>1, <2>2, EndEventsOrder, EmitOrder
  <1>4. \/ Quiet
        \/ \E p \in Procs : \/ Emit(<<EndEvent(p, "failed")>>)
                            \/ \E s \in Streams : SendChunk(p, s)
                            \/ PublishEnd(p)
    <2>1. ASSUME NEW p \in Procs,
                 \/ \E k \in Kinds : StartProcess(p, k)
                 \/ ChildExits(p) \/ HolderLeaves(p)
          PROVE  Quiet
      BY <2>1 DEF StartProcess, ChildExits, HolderLeaves
    <2>2. ASSUME NEW p \in Procs, NEW s \in Streams,
                 \/ ReadChunk(p, s) \/ ReaderStep(p, s) \/ ReadEnd(p, s)
                 \/ ReadFails(p, s) \/ ReadCut(p, s)
          PROVE  Quiet \/ Emit(<<EndEvent(p, "failed")>>) \/ SendChunk(p, s)
      BY <2>2 DEF ReadChunk, ReaderStep, KeepChunk, ReadEnd, ReadFails, ReadCut
    <2>3. ASSUME NEW p \in Procs, WatcherStep(p)
          PROVE  Quiet \/ PublishEnd(p)
      BY <2>3 DEF WatcherStep, WaitReturns, KillReturns, Unlist, Drained,
                  DrainTimeout
    <2>4. ASSUME NEW p \in Procs,
                 \/ \E r \in Controls : SendControl(p, r)
                 \/ ServeInput(p) \/ ServeResize(p) \/ ServeKill(p) \/ ControlEnds(p)
          PROVE  Quiet \/ Emit(<<EndEvent(p, "failed")>>)
      BY <2>4 DEF SendControl, ServeInput, ServeResize, ServeKill, ControlEnds
    <2> QED BY <2>1, <2>2, <2>3, <2>4 DEF ProcNext
  <1>5. CASE Quiet
    BY <1>5, QuietOrder DEF Quiet
  <1> QED BY <1>1, <1>2, <1>3, <1>4, <1>5

\* Taking events from the hub, and giving it events that are no process's.
LEMMA HubOrder ==
    ASSUME TypeOK, ExitOrder, UNCHANGED stage, NEW q \in Seq(ClientEvents),
           hubq' \in Seq(ClientEvents), SuffixOf(hubq', q), events' \in Seq(ProcEvents),
           ExitIsLast(q), ExitIsLast(events'),
           \A p \in Procs : Exited(q, p) => ~Speaks(events', p) /\ stage[p] = "over",
           \A p \in Procs : Exited(events', p) => stage[p] = "over"
    PROVE  ExitOrder'
  <1>1. /\ \A p : Exited(hubq', p) => Exited(q, p)
        /\ ExitIsLast(hubq')
    BY SuffixKeeps
  <1>2. ExitIsLast(hubq)' /\ ExitIsLast(events)'
    BY <1>1 DEF ExitIsLast
  <1> QED BY <1>1, <1>2 DEF ExitOrder, Exited, Speaks

\* A queue is its own suffix.
LEMMA SameIsSuffix ==
    ASSUME NEW S, NEW q \in Seq(S)
    PROVE  SuffixOf(q, q)
  <1>1. Len(q) \in Nat /\ 0 \in 0..Len(q) /\ Len(q) = Len(q) - 0
        /\ \A i \in 1..Len(q) : i + 0 = i
    BY LenProperties
  <1> QED BY <1>1 DEF SuffixOf

\* What the hub queue receives comes after what it has.
LEMMA ReceivedOrder ==
    ASSUME TypeOK, NEW es \in Seq(ClientEvents), Received(es)
    PROVE  /\ hubq' \in Seq(ClientEvents)
           /\ SuffixOf(hubq', hubq) \/ SuffixOf(hubq', hubq \o es)
  <1>0. SocketTypes
    BY DEF TypeOK, SocketTypes
  <1>1. hubq' \in Seq(ClientEvents) /\ hubq \in Seq(ClientEvents)
    BY <1>0, ReceivedTypes DEF SocketTypes
  <1>2. CASE conn = "closed"
    <2>1. hubq' = hubq
      BY <1>2 DEF Received
    <2> QED BY <1>1, <2>1, SameIsSuffix
  <1>3. CASE conn # "closed"
    <2>1. hubq' = LastN(hubq \o es, HubCap)
      BY <1>0, <1>3, ReceivedTypes
    <2>2. hubq \o es \in Seq(ClientEvents) /\ HubCap \in Nat \ {0}
      BY <1>1, ConcatProperties, EventSocketAssumption
    <2> QED BY <1>1, <2>1, <2>2, LastNIsSuffix
  <1> QED BY <1>2, <1>3

\* The bridge keeps the order.
LEMMA BridgeOrder ==
    ASSUME TypeOK, ExitOrder, Bridge
    PROVE  ExitOrder'
  <1> DEFINE h == <<Head(events)>>
  <1>0. /\ events \in Seq(ProcEvents) /\ hubq \in Seq(ClientEvents)
        /\ events # <<>> /\ events' = Tail(events) /\ UNCHANGED stage
        /\ Received(h) /\ h \in Seq(ClientEvents) /\ h \in Seq(ProcEvents)
    <2>1. events \in Seq(ProcEvents) /\ hubq \in Seq(ClientEvents)
      BY DEF TypeOK, ProcTypeOK
    <2>2. events # <<>> /\ events' = Tail(events) /\ UNCHANGED stage /\ Received(h)
      BY DEF Bridge
    <2>3. h \in Seq(ClientEvents)
      BY BridgeTypes DEF TypeOK, SocketTypes
    <2>4. h \in Seq(ProcEvents)
      BY <2>1, <2>2, HeadTailProperties
    <2> QED BY <2>1, <2>2, <2>3, <2>4
  <1>1. /\ events' \in Seq(ProcEvents) /\ ExitIsLast(events')
        /\ \A p : Exited(h, p) \/ Exited(events', p) => Exited(events, p)
        /\ \A p : Speaks(h, p) \/ Speaks(events', p) => Speaks(events, p)
        /\ \A p \in Procs : Exited(h, p) => ~Speaks(events', p)
    BY <1>0, TakenApart DEF ExitOrder
  <1>2. ExitIsLast(h)
    BY OneEvent
  <1>3. /\ hubq' \in Seq(ClientEvents)
        /\ SuffixOf(hubq', hubq) \/ SuffixOf(hubq', hubq \o h)
    BY <1>0, ReceivedOrder
  <1> HIDE DEF h
  <1>4. CASE SuffixOf(hubq', hubq)
    BY <1>0, <1>1, <1>3, <1>4, HubOrder DEF ExitOrder
  <1>5. CASE SuffixOf(hubq', hubq \o h)
    <2>1. hubq \o h \in Seq(ClientEvents)
      BY <1>0, ConcatProperties
    <2>2. /\ \A p : Exited(hubq \o h, p) <=> Exited(hubq, p) \/ Exited(h, p)
          /\ ExitIsLast(hubq \o h)
      BY <1>0, <1>1, <1>2, ConcatKeeps DEF ExitOrder
    <2>3. \A p \in Procs : Exited(hubq \o h, p)
              => ~Speaks(events', p) /\ stage[p] = "over"
      BY <1>1, <2>2 DEF ExitOrder
    <2>4. \A p \in Procs : Exited(events', p) => stage[p] = "over"
      BY <1>1 DEF ExitOrder
    <2> QED BY <1>0, <1>1, <1>3, <1>5, <2>1, <2>2, <2>3, <2>4, HubOrder
  <1> QED BY <1>3, <1>4, <1>5

\* Session events and answers keep the order.
LEMMA PublishOrder ==
    ASSUME TypeOK, ExitOrder, NEW e \in SessionEvents \cup {Reply}, Received(<<e>>),
           UNCHANGED <<events, stage>>
    PROVE  ExitOrder'
  <1>0. events \in Seq(ProcEvents) /\ hubq \in Seq(ClientEvents)
    BY DEF TypeOK, ProcTypeOK
  <1>1. e.type \in {"chat", "status", "reply"} /\ e \in ClientEvents
    BY DEF SessionEvents, ChatEvent, StatusEvent, ClientEvents, Reply
  <1>2. <<e>> \in Seq(ClientEvents)
    BY <1>1
  <1>3. ExitIsLast(<<e>>) /\ \A p : ~Exited(<<e>>, p) /\ ~Speaks(<<e>>, p)
    BY <1>1, OneEvent
  <1>4. /\ hubq' \in Seq(ClientEvents)
        /\ SuffixOf(hubq', hubq) \/ SuffixOf(hubq', hubq \o <<e>>)
    BY <1>2, ReceivedOrder
  <1>5. hubq \o <<e>> \in Seq(ClientEvents)
    BY <1>0, <1>2, ConcatProperties
  <1>6. /\ \A p : Exited(hubq \o <<e>>, p) <=> Exited(hubq, p)
        /\ ExitIsLast(hubq \o <<e>>)
    BY <1>0, <1>2, <1>3, ConcatKeeps DEF ExitOrder
  <1>7. events' = events
    OBVIOUS
  <1> QED BY <1>0, <1>4, <1>5, <1>6, <1>7, HubOrder DEF ExitOrder

\* The order holds at first.
LEMMA OrderInit == Init => ExitOrder
  <1> SUFFICES ASSUME Init PROVE ExitOrder
    OBVIOUS
  <1>1. hubq = <<>> /\ events = <<>>
    BY DEF Init, ProcInit, SocketInit
  <1>2. Len(<<>>) = 0 /\ \A i \in 1..0 : FALSE
    OBVIOUS
  <1> QED BY <1>1, <1>2 DEF ExitOrder, ExitIsLast, Exited, Speaks

\* Every step keeps it.
LEMMA OrderStep == TypeOK /\ DrainOrder /\ ExitOrder /\ [Next]_vars => ExitOrder'
  <1> SUFFICES ASSUME TypeOK, DrainOrder, ExitOrder, [Next]_vars PROVE ExitOrder'
    OBVIOUS
  <1>0. \A p \in Procs : stage[p] = "over" => stage'[p] = "over"
    BY OverIsFinal
  <1>1. CASE ProcNext /\ SocketTask
    BY <1>0, <1>1, ProcOrder DEF SocketTask, socketVars
  <1>2. CASE Bridge
    BY <1>2, BridgeOrder
  <1>3. ASSUME NEW e \in SessionEvents \cup {Reply}, Received(<<e>>), ProcTask
        PROVE  ExitOrder'
    BY <1>3, PublishOrder DEF ProcTask, procVars
  <1>4. CASE DeliverHub /\ ProcTask
    <2>1. /\ hubq \in Seq(ClientEvents) /\ hubq # <<>> /\ hubq' = Tail(hubq)
          /\ events \in Seq(ProcEvents) /\ UNCHANGED <<events, stage>>
      BY <1>4 DEF DeliverHub, ProcTask, procVars, TypeOK, ProcTypeOK
    <2>2. SuffixOf(hubq', hubq) /\ hubq' \in Seq(ClientEvents)
      BY <2>1, TailIsSuffix, HeadTailProperties
    <2>3. events' = events
      BY <2>1
    <2> QED BY <2>1, <2>2, <2>3, HubOrder DEF ExitOrder
  <1>5. CASE Connect /\ ProcTask
    <2>1. hubq' = <<>> /\ events' = events /\ stage' = stage
      BY <1>5 DEF Connect, ProcTask, procVars
    <2>2. Len(<<>>) = 0 /\ \A i \in 1..0 : FALSE
      OBVIOUS
    <2> QED BY <2>1, <2>2 DEF ExitOrder, ExitIsLast, Exited, Speaks
  <1>6. CASE UNCHANGED <<hubq, events>>
    BY <1>0, <1>6, QuietOrder
  <1>7. \/ ProcNext /\ SocketTask
        \/ Bridge
        \/ \E e \in SessionEvents \cup {Reply} : Received(<<e>>) /\ ProcTask
        \/ DeliverHub /\ ProcTask
        \/ Connect /\ ProcTask
        \/ UNCHANGED <<hubq, events>>
    <2>1. CASE ResumeInput
      BY <2>1, WaitLeaves DEF ResumeInput, SocketTask, socketVars
    <2>2. CASE ControlCommand
      <3>1. UNCHANGED events
        BY <2>2, WaitLeaves DEF ControlCommand, SendControl, Quiet, ProcTask, procVars
      <3> QED BY <2>2, <3>1 DEF ControlCommand, TakeCommand
    <2>3. CASE /\ \/ \E e \in SessionEvents : PublishSession(e)
                  \/ \E s \in Sessions : DeleteSession(s)
               /\ ProcTask
      BY <2>3 DEF PublishSession, DeleteSession
    <2>4. CASE ~ResumeInput /\ ~ControlCommand
      BY <2>3, <2>4
      DEF Next, vars, procVars, socketVars, ProcTask, Delivery, DeliverDirect,
          DeliverLagged, Command, HandleAnswered, HandleSilent, TakeCommand, Leave,
          ClientCommand, ClientSends, RegisterBoard, Subscribe, HandleSubscribe
    <2> QED BY <2>1, <2>2, <2>4
  <1> QED BY <1>1, <1>2, <1>3, <1>4, <1>5, <1>6, <1>7

\* What the invariant says is what the property says.
LEMMA OrderSays == TypeOK /\ DrainOrder /\ ExitOrder => NoOutputFollowsExit
  <1> SUFFICES ASSUME TypeOK, DrainOrder, ExitOrder PROVE NoOutputFollowsExit
    OBVIOUS
  <1>1. hubq \in Seq(ClientEvents) /\ events \in Seq(ClientEvents)
    BY SeqMonotonic DEF TypeOK, ProcTypeOK, ClientEvents
  <1>2. Pipeline \in Seq(ClientEvents) /\ ExitIsLast(Pipeline)
    BY <1>1, ConcatProperties, ConcatKeeps DEF ExitOrder, Pipeline
  <1>3. Len(Pipeline) \in Nat /\ DOMAIN Pipeline = 1..Len(Pipeline)
    BY <1>2, LenProperties
  <1>4. ASSUME NEW i \in DOMAIN Pipeline, NEW j \in (i + 1)..Len(Pipeline)
        PROVE  i \in 1..Len(Pipeline) /\ j \in 1..Len(Pipeline) /\ i < j
    BY <1>3
  <1>5. ASSUME NEW p \in Procs, stage[p] = "over", NEW s \in Streams
        PROVE  reader[p][s].at # "pushed"
    BY <1>5, OverIsSilent
  <1> HIDE DEF Pipeline
  <1>6. ASSUME NEW p \in Procs, NEW i \in DOMAIN Pipeline,
               Pipeline[i].type = "exited" /\ Pipeline[i].proc = p,
               NEW j \in (i + 1)..Len(Pipeline)
        PROVE  ~(Pipeline[j].type = "output" /\ Pipeline[j].proc = p)
    BY <1>2, <1>4, <1>6 DEF ExitIsLast
  <1> QED BY <1>5, <1>6 DEF NoOutputFollowsExit

-----------------------------------------------------------------------------
(* No gap: a chunk that was stored stays in some hand until the client has   *)
(* it, from its reader over the events and the hub, or from the replay.      *)

Shows(x, p, n) == x.type = "output" /\ x.proc = p /\ x.chunk = n

\* A queue carries a chunk when one of its events shows it.
LEMMA CarriesShown ==
    \A q, p, n : Carries(q, p, n) <=> \E x : Holds(q, x) /\ Shows(x, p, n)
  BY DEF Carries, Holds, Shows

\* No step takes an output event from the channels but to hand it on.
WayKept ==
    /\ got \subseteq got'
    /\ \A x : x.type = "output" /\ Holds(direct, x) => Holds(direct', x) \/ x \in got'
    /\ \A x : x.type = "output" /\ Holds(hubq, x) => Holds(hubq', x) \/ x \in got'
    /\ \A x : Holds(events, x) => Holds(events', x) \/ Holds(hubq', x)
    /\ \A p \in Procs, s \in Streams : reader[p][s].at = "pushed" =>
          \/ reader'[p][s] = reader[p][s]
          \/ Holds(events', OutputEvent(p, s, reader[p][s].chunk))

\* A chunk on its way stays on its way.
LEMMA WayKeeps ==
    ASSUME WayKept, NEW p \in Procs, NEW n, OnItsWay(p, n)
    PROVE  OnItsWay(p, n)'
  <1>1. CASE \E e \in got : Shows(e, p, n)
    BY <1>1 DEF WayKept, OnItsWay, Shows
  <1>2. CASE Carries(direct, p, n) \/ Carries(hubq, p, n)
    <2>1. PICK x : (Holds(direct, x) \/ Holds(hubq, x)) /\ Shows(x, p, n)
      BY <1>2, CarriesShown
    <2>2. Holds(direct', x) \/ Holds(hubq', x) \/ x \in got'
      BY <2>1 DEF WayKept, Shows
    <2>3. Holds(direct', x) => Carries(direct', p, n)
      BY <2>1, CarriesShown
    <2>4. Holds(hubq', x) => Carries(hubq', p, n)
      BY <2>1, CarriesShown
    <2> QED BY <2>1, <2>2, <2>3, <2>4 DEF OnItsWay, Shows, Carries
  <1>3. CASE Carries(events, p, n)
    <2>1. PICK x : Holds(events, x) /\ Shows(x, p, n)
      BY <1>3, CarriesShown
    <2>2. Holds(events', x) \/ Holds(hubq', x)
      BY <2>1 DEF WayKept
    <2>3. Carries(events', p, n) \/ Carries(hubq', p, n)
      BY <2>1, <2>2, CarriesShown
    <2> QED BY <2>3 DEF OnItsWay, Carries
  <1>4. ASSUME NEW s \in Streams, reader[p][s].at = "pushed",
               reader[p][s].chunk = n
        PROVE  OnItsWay(p, n)'
    <2>1. CASE reader'[p][s] = reader[p][s]
      BY <1>4, <2>1 DEF OnItsWay
    <2>2. CASE Holds(events', OutputEvent(p, s, n))
      <3>1. Shows(OutputEvent(p, s, n), p, n)
        BY DEF Shows, OutputEvent
      <3>2. Carries(events', p, n)
        BY <2>2, <3>1, CarriesShown
      <3> QED BY <3>2 DEF OnItsWay, Carries
    <2> QED BY <1>4, <2>1, <2>2 DEF WayKept
  <1> QED BY <1>1, <1>2, <1>3, <1>4 DEF OnItsWay, Shows

\* A connection that stays as it was, in a step that drops nothing.
Steady == /\ conn' = "open" /\ ~gap' /\ ~lagged'
             => conn = "open" /\ ~gap /\ ~lagged

\* Steps that keep all chunks on their way miss none.
LEMMA WayStep ==
    ASSUME NothingMissing, Steady, UNCHANGED <<kept, old>>,
           conn' = "open" /\ ~gap' /\ ~lagged' => WayKept
    PROVE  NothingMissing'
  <1> SUFFICES ASSUME conn' = "open" /\ ~gap' /\ ~lagged',
                      NEW p \in Procs, NEW n \in kept'[p] \ old'[p]
               PROVE  OnItsWay(p, n)'
    BY Zenon DEF NothingMissing
  <1>1. n \in kept[p] \ old[p]
    OBVIOUS
  <1>2. OnItsWay(p, n)
    BY <1>1 DEF NothingMissing, Steady
  <1> QED BY <1>2, WayKeeps

\* What is added to a channel that has room leaves what it held.
LEMMA EmitKeeps ==
    ASSUME ProcTypeOK, NEW es \in Seq(ProcEvents), Emit(es), ~lagged'
    PROVE  ~lagged /\ \A x : Holds(events, x) \/ Holds(es, x) => Holds(events', x)
  <1>1. ~lagged /\ ~(Len(events \o es) > EventCap)
    BY Zenon DEF Emit
  <1>2. /\ events \in Seq(ProcEvents) /\ events \o es \in Seq(ProcEvents)
        /\ EventCap \in Nat \ {0}
    BY ConcatProperties, ProcessSupervisorAssumption DEF ProcTypeOK
  <1>3. Len(events \o es) \in Nat
    BY <1>2, LenProperties
  <1>4. events' = LastN(events \o es, EventCap)
    BY DEF Emit
  <1>5. events' = events \o es
    BY <1>1, <1>2, <1>3, <1>4 DEF LastN
  <1> QED BY <1>1, <1>2, <1>5, ConcatHolds

\* As long as nothing is skipped the hub queue keeps what it has and receives.
LEMMA ReceivedKeeps ==
    ASSUME SocketTypes, NEW es \in Seq(ClientEvents), Received(es),
           conn = "open", ~gap'
    PROVE  ~gap /\ \A x : Holds(hubq, x) \/ Holds(es, x) => Holds(hubq', x)
  <1>1. ~gap /\ ~(Len(hubq \o es) > HubCap)
    BY Zenon DEF Received
  <1>2. /\ hubq \in Seq(ClientEvents) /\ hubq \o es \in Seq(ClientEvents)
        /\ HubCap \in Nat \ {0}
    BY ConcatProperties, EventSocketAssumption DEF SocketTypes
  <1>3. Len(hubq \o es) \in Nat
    BY <1>2, LenProperties
  <1>4. hubq' = LastN(hubq \o es, HubCap)
    BY ReceivedTypes
  <1>5. hubq' = hubq \o es
    BY <1>1, <1>2, <1>3, <1>4 DEF LastN
  <1> QED BY <1>1, <1>2, <1>5, ConcatHolds

\* A direct send keeps the direct queue.
LEMMA SendDirectKeeps ==
    ASSUME SocketTypes, NEW es \in Seq(ClientEvents), SendDirect(es),
           conn # "blocked", conn' # "blocked"
    PROVE  conn' = conn /\ \A x : Holds(direct, x) => Holds(direct', x)
  <1>1. direct' = direct \o es /\ conn' = conn
    BY DEF SendDirect
  <1>2. direct \in Seq(ClientEvents)
    BY DEF SocketTypes
  <1> QED BY <1>1, <1>2, ConcatHolds

\* The head of a queue and its rest.
LEMMA HeadOrRest ==
    ASSUME NEW S, NEW q \in Seq(S), q # <<>>, NEW x, Holds(q, x)
    PROVE  x = Head(q) \/ Holds(Tail(q), x)
  <1>1. /\ Len(q) \in Nat \ {0} /\ Len(Tail(q)) = Len(q) - 1
        /\ \A i \in 1..Len(Tail(q)) : Tail(q)[i] = q[i + 1]
        /\ Head(q) = q[1]
    BY HeadTailProperties, LenProperties, EmptySeq
  <1>2. PICK k \in 1..Len(q) : q[k] = x
    BY DEF Holds
  <1>3. CASE k = 1
    BY <1>1, <1>2, <1>3
  <1>4. CASE k # 1
    <2>1. k - 1 \in 1..Len(Tail(q)) /\ (k - 1) + 1 = k
      BY <1>1, <1>2, <1>4
    <2>2. Tail(q)[k - 1] = x
      BY <1>1, <1>2, <2>1
    <2> QED BY <2>1, <2>2 DEF Holds
  <1> QED BY <1>3, <1>4

\* A delivery hands output to the client or keeps it.
LEMMA DeliveryKeeps ==
    ASSUME SocketTypes, Delivery, conn' = "open"
    PROVE  /\ conn = "open" /\ UNCHANGED gap /\ got \subseteq got'
           /\ \A x : x.type = "output" /\ Holds(direct, x)
                        => Holds(direct', x) \/ x \in got'
           /\ \A x : x.type = "output" /\ Holds(hubq, x)
                        => Holds(hubq', x) \/ x \in got'
  <1>1. ASSUME NEW e, Deliver(e), conn \in {"open", "deaf"}
        PROVE  /\ conn = "open" /\ got \subseteq got'
               /\ e.type = "output" => e \in got'
    BY <1>1 DEF Deliver, Visible
  <1>2. direct \in Seq(ClientEvents) /\ hubq \in Seq(ClientEvents)
    BY DEF SocketTypes
  <1>3. CASE DeliverDirect
    <2>1. /\ Deliver(Head(direct)) /\ conn \in {"open", "deaf"}
          /\ direct # <<>> /\ direct' = Tail(direct) /\ hubq' = hubq /\ gap' = gap
      BY <1>3 DEF DeliverDirect
    <2>2. \A x : Holds(direct, x) => x = Head(direct) \/ Holds(direct', x)
      BY <1>2, <2>1, HeadOrRest
    <2> QED BY <1>1, <2>1, <2>2
  <1>4. CASE DeliverHub
    <2>1. /\ Deliver(Head(hubq)) /\ conn \in {"open", "deaf"}
          /\ hubq # <<>> /\ hubq' = Tail(hubq) /\ direct' = direct /\ gap' = gap
      BY <1>4 DEF DeliverHub
    <2>2. \A x : Holds(hubq, x) => x = Head(hubq) \/ Holds(hubq', x)
      BY <1>2, <2>1, HeadOrRest
    <2> QED BY <1>1, <2>1, <2>2
  <1>5. CASE DeliverLagged
    BY <1>1, <1>5 DEF DeliverLagged
  <1> QED BY <1>3, <1>4, <1>5 DEF Delivery

\* What the steps of a process do to a chunk on its way: it enters by being
\* stored, and leaves the hand of its reader by being sent.
LEMMA GapReader ==
    ASSUME TypeOK, NothingMissing, SocketTask, UNCHANGED old,
           NEW p \in Procs, NEW s \in Streams,
           \/ ReadChunk(p, s) \/ ReaderStep(p, s) \/ ReadEnd(p, s)
           \/ ReadFails(p, s) \/ ReadCut(p, s)
    PROVE  NothingMissing'
  <1>0. ProcTypeOK /\ reader[p][s] \in ReaderStates /\ Idle \in ReaderStates
    BY DEF TypeOK, ProcTypeOK, ReaderStates, Idle
  <1>1. UNCHANGED <<conn, gap, got, direct, hubq>>
    BY DEF SocketTask, socketVars
  <1>2. \A q \in Procs, t \in Streams :
            q # p \/ t # s => reader'[q][t] = reader[q][t]
    BY ReaderMoves
  <1>3. CASE KeepChunk(p, s) /\ gate[p]
    <2> DEFINE r == [reader[p][s] EXCEPT !.at = "pushed"]
               c == reader[p][s].chunk
    <2>1. r \in ReaderStates /\ r.at = "pushed" /\ r.chunk = c
      BY <1>0 DEF ReaderStates
    <2>2. /\ SetReader(p, s, r) /\ reader[p][s].at = "read"
          /\ kept' = [kept EXCEPT ![p] = kept[p] \cup {c}]
          /\ UNCHANGED <<events, lagged>>
      BY <1>3 DEF KeepChunk, Quiet
    <2>3. reader'[p][s] = r
      BY <1>0, <2>1, <2>2, SetReaderTypes
    <2>4. \A q \in Procs : kept'[q] = IF q = p THEN kept[p] \cup {c} ELSE kept[q]
      BY <1>0, <2>2 DEF ProcTypeOK
    <2> HIDE DEF r
    <2>5. WayKept
      BY <1>1, <1>2, <2>2 DEF WayKept
    <2> SUFFICES ASSUME conn' = "open" /\ ~gap' /\ ~lagged',
                        NEW q \in Procs, NEW n \in kept'[q] \ old'[q]
                 PROVE  OnItsWay(q, n)'
      BY Zenon DEF NothingMissing
    <2>6. CASE n \in kept[q]
      <3>1. OnItsWay(q, n)
        BY <1>1, <2>2, <2>6 DEF NothingMissing
      <3> QED BY <2>5, <3>1, WayKeeps
    <2>7. CASE q = p /\ n = c
      BY <2>1, <2>3, <2>7 DEF OnItsWay
    <2> QED BY <2>4, <2>6, <2>7
  <1>4. CASE SendChunk(p, s)
    <2> DEFINE e == OutputEvent(p, s, reader[p][s].chunk)
    <2>1. Emit(<<e>>) /\ UNCHANGED kept
      BY <1>4 DEF SendChunk
    <2>2. reader[p][s].chunk \in Nat
      BY <1>0 DEF ReaderStates
    <2>3. e \in ProcEvents
      BY <2>2, EventTypes
    <2> HIDE DEF e
    <2>4. <<e>> \in Seq(ProcEvents)
      BY <2>3
    <2>5. ASSUME ~lagged' PROVE ~lagged /\ WayKept
      <3>1. ~lagged /\ \A x : Holds(events, x) \/ Holds(<<e>>, x) => Holds(events', x)
        BY <1>0, <2>1, <2>4, <2>5, EmitKeeps
      <3>2. Holds(<<e>>, e)
        BY DEF Holds
      <3>3. Holds(events', e)
        BY <3>1, <3>2
      <3> QED BY <1>1, <1>2, <3>1, <3>3 DEF WayKept, e
    <2>6. Steady
      BY <1>1, <2>5 DEF Steady
    <2> QED BY <2>1, <2>5, <2>6, WayStep
  <1>5. CASE ~(KeepChunk(p, s) /\ gate[p]) /\ ~SendChunk(p, s)
    <2>1. reader[p][s].at # "pushed" /\ UNCHANGED kept
      BY <1>5 DEF ReaderStep, ReadChunk, KeepChunk, ReadEnd, ReadFails, ReadCut
    <2> DEFINE es == <<EndEvent(p, "failed")>>
    <2>2. Quiet \/ Emit(es)
      BY <1>5 DEF ReaderStep, ReadChunk, KeepChunk, ReadEnd, ReadFails, ReadCut
    <2>3. es \in Seq(ProcEvents)
      BY EventTypes
    <2> HIDE DEF es
    <2>4. ASSUME ~lagged'
          PROVE  ~lagged /\ \A x : Holds(events, x) => Holds(events', x)
      BY <1>0, <2>2, <2>3, <2>4, EmitKeeps DEF Quiet
    <2>5. ~lagged' => WayKept
      BY <1>1, <1>2, <2>1, <2>4 DEF WayKept
    <2>6. Steady
      BY <1>1, <2>4 DEF Steady
    <2> QED BY <2>1, <2>5, <2>6, WayStep
  <1> QED BY <1>3, <1>4, <1>5

\* Supervisor steps miss nothing.
LEMMA GapProc ==
    ASSUME TypeOK, DrainOrder, NothingMissing, ProcNext, SocketTask, UNCHANGED old
    PROVE  NothingMissing'
  <1>0. ProcTypeOK
    BY DEF TypeOK
  <1>1. UNCHANGED <<conn, gap, got, direct, hubq>>
    BY DEF SocketTask, socketVars
  <1>2. ASSUME NEW es \in Seq(ProcEvents), Quiet \/ Emit(es), UNCHANGED kept,
               \A p \in Procs, s \in Streams : reader[p][s].at = "pushed"
                   => reader'[p][s] = reader[p][s]
        PROVE  NothingMissing'
    <2>1. ASSUME ~lagged'
          PROVE  ~lagged /\ \A x : Holds(events, x) => Holds(events', x)
      BY <1>0, <1>2, <2>1, EmitKeeps DEF Quiet
    <2>2. ~lagged' => WayKept
      BY <1>1, <1>2, <2>1 DEF WayKept
    <2>3. Steady
      BY <1>1, <2>1 DEF Steady
    <2> QED BY <1>2, <2>2, <2>3, WayStep
  <1>3. <<>> \in Seq(ProcEvents)
        /\ \A p \in Procs : /\ <<EndEvent(p, "failed")>> \in Seq(ProcEvents)
                            /\ \A failed \in BOOLEAN :
                                  EndEvents(p, failed) \in Seq(ProcEvents)
    BY EventTypes DEF EndEvents
  <1>4. ASSUME NEW p \in Procs, NEW k \in Kinds, StartProcess(p, k)
        PROVE  NothingMissing'
    <2>1. kind[p] = "none" /\ UNCHANGED kept /\ Quiet
      BY <1>4 DEF StartProcess
    <2>2. \A s \in Streams : reader[p][s].at = "off"
      BY <2>1 DEF DrainOrder, EndsInOrder
    <2>3. \A q \in Procs : q # p => reader'[q] = reader[q]
      BY <1>0, <1>4 DEF StartProcess, ProcTypeOK
    <2>4. ASSUME NEW q \in Procs, NEW s \in Streams, reader[q][s].at = "pushed"
          PROVE  reader'[q][s] = reader[q][s]
      BY <2>2, <2>3, <2>4
    <2> QED BY <1>2, <1>3, <2>1, <2>4
  <1>5. ASSUME NEW p \in Procs, ChildExits(p) \/ HolderLeaves(p)
        PROVE  NothingMissing'
    <2>1. UNCHANGED <<reader, kept>> /\ Quiet
      BY <1>5 DEF ChildExits, HolderLeaves
    <2> QED BY <1>2, <1>3, <2>1
  <1>6. ASSUME NEW p \in Procs, WatcherStep(p) PROVE NothingMissing'
    <2>1. UNCHANGED <<reader, kept>>
      BY <1>6 DEF WatcherStep, WaitReturns, KillReturns, Unlist, Drained,
                  DrainTimeout, PublishEnd, WatcherOnly
    <2>2. Quiet \/ \E failed \in BOOLEAN : Emit(EndEvents(p, failed))
      BY <1>6 DEF WatcherStep, WaitReturns, KillReturns, Unlist, Drained,
                  DrainTimeout, PublishEnd
    <2> QED BY <1>2, <1>3, <2>1, <2>2
  <1>7. ASSUME NEW p \in Procs,
               \/ \E r \in Controls : SendControl(p, r)
               \/ ServeInput(p) \/ ServeResize(p) \/ ServeKill(p) \/ ControlEnds(p)
        PROVE  NothingMissing'
    <2>1. UNCHANGED <<reader, kept>>
      BY <1>7 DEF SendControl, ServeInput, ServeResize, ServeKill, ControlEnds,
                  TakeControl, ControlOnly, PipesOnly
    <2>2. Quiet \/ Emit(<<EndEvent(p, "failed")>>)
      BY <1>7 DEF SendControl, ServeInput, ServeResize, ServeKill, ControlEnds
    <2> QED BY <1>2, <1>3, <2>1, <2>2
  <1> QED BY <1>4, <1>5, <1>6, <1>7, GapReader DEF ProcNext

\* What the bridge takes from the events is in the hub.
LEMMA GapBridge ==
    ASSUME TypeOK, NothingMissing, Bridge, UNCHANGED old
    PROVE  NothingMissing'
  <1>0. ProcTypeOK /\ SocketTypes
    BY DEF TypeOK, SocketTypes
  <1>1. /\ events \in Seq(ProcEvents) /\ events # <<>> /\ events' = Tail(events)
        /\ Received(<<Head(events)>>) /\ <<Head(events)>> \in Seq(ClientEvents)
        /\ UNCHANGED <<conn, got, direct, lagged, kept, reader>>
    BY <1>0, BridgeTypes DEF Bridge, ProcTypeOK
  <1>2. ASSUME conn' = "open", ~gap', ~lagged'
        PROVE  conn = "open" /\ ~gap /\ ~lagged /\ WayKept
    <2>1. ~gap /\ \A x : Holds(hubq, x) \/ Holds(<<Head(events)>>, x)
                            => Holds(hubq', x)
      BY <1>0, <1>1, <1>2, ReceivedKeeps
    <2>2. \A x : Holds(events, x) => x = Head(events) \/ Holds(events', x)
      BY <1>1, HeadOrRest
    <2>3. Holds(<<Head(events)>>, Head(events))
      BY DEF Holds
    <2>4. \A x : Holds(events, x) => Holds(events', x) \/ Holds(hubq', x)
      BY <2>1, <2>2, <2>3
    <2> QED BY <1>1, <1>2, <2>1, <2>4 DEF WayKept
  <1> QED BY <1>1, <1>2, WayStep DEF Steady

\* A subscription misses nothing.
LEMMA GapSubscribe ==
    ASSUME TypeOK, NothingMissing, Subscribe
    PROVE  NothingMissing'
  <1> DEFINE ps == Head(commands).procs
             replay == Replay(SetToSeq(ps))
  <1>0. ProcTypeOK /\ SocketTypes /\ old \in [Procs -> SUBSET Nat]
    BY DEF TypeOK, SocketTypes
  <1>1. UNCHANGED procVars /\ got' = got /\ hubq' = hubq
    BY DEF Subscribe, ProcTask, HandleSubscribe, TakeCommand
  <1>2. UNCHANGED <<events, lagged, kept, reader, buffer, listed>>
    BY <1>1 DEF procVars
  <1> SUFFICES ASSUME conn' = "open" /\ ~gap' /\ ~lagged',
                      NEW p \in Procs, NEW n \in kept'[p] \ old'[p]
               PROVE  OnItsWay(p, n)'
    BY Zenon DEF NothingMissing
  <1>3. /\ conn' = conn /\ ~gap /\ ps \subseteq Procs /\ IsFiniteSet(ps)
        /\ \A x : Holds(direct, x) \/ Holds(replay, x) => Holds(direct', x)
    BY <1>0, SubscribeSends
  <1>4. WayKept
    BY <1>1, <1>2, <1>3 DEF WayKept
  <1>5. CASE n \notin old[p]
    <2>1. OnItsWay(p, n)
      BY <1>2, <1>3, <1>5 DEF NothingMissing
    <2> QED BY <1>4, <2>1, WayKeeps
  <1>6. CASE n \in old[p]
    <2>1. old'[p] = IF p \in ps
                    THEN old[p] \ {e.chunk : e \in ToSet(Snapshot(p))} ELSE old[p]
      BY DEF Subscribe
    <2>2. p \in ps /\ n \in {e.chunk : e \in ToSet(Snapshot(p))}
      BY <1>6, <2>1
    <2>3. PICK e \in ToSet(Snapshot(p)) : e.chunk = n
      BY <2>2
    <2>4. /\ Snapshot(p) \in Seq(ProcEvents)
          /\ p \in listed =>
                /\ Len(Snapshot(p)) = Len(buffer[p])
                /\ \A i \in 1..Len(buffer[p]) : Snapshot(p)[i] =
                      OutputEvent(p, buffer[p][i].stream, buffer[p][i].chunk)
          /\ p \notin listed => Snapshot(p) = <<>>
      BY <1>0, SnapshotTypes
    <2>5. Len(Snapshot(p)) \in Nat /\ DOMAIN Snapshot(p) = 1..Len(Snapshot(p))
      BY <2>4, LenProperties
    <2>6. PICK i \in 1..Len(Snapshot(p)) : Snapshot(p)[i] = e
      BY <2>3, <2>5 DEF ToSet
    <2>7. p \in listed
      BY <2>4, <2>5, <2>6
    <2>8. Shows(e, p, n)
      <3>1. i \in 1..Len(buffer[p])
        BY <2>4, <2>7
      <3>2. e = OutputEvent(p, buffer[p][i].stream, buffer[p][i].chunk)
        BY <2>4, <2>6, <2>7, <3>1
      <3>3. e.type = "output" /\ e.proc = p
        BY <3>2 DEF OutputEvent
      <3> QED BY <2>3, <3>3 DEF Shows
    <2>9. Holds(Snapshot(p), e)
      BY <2>6 DEF Holds
    <2>10. Holds(direct', e)
      BY <1>0, <1>3, <2>2, <2>9, ReplayHolds
    <2>11. Carries(direct', p, n)
      BY <2>8, <2>10, CarriesShown
    <2> QED BY <2>11 DEF OnItsWay, Carries
  <1> QED BY <1>5, <1>6

\* No step misses a chunk.
LEMMA GapStep ==
    TypeOK /\ DrainOrder /\ NothingMissing /\ [Next]_vars => NothingMissing'
  <1> SUFFICES ASSUME TypeOK, DrainOrder, NothingMissing, [Next]_vars
               PROVE  NothingMissing'
    OBVIOUS
  <1>0. SocketTypes
    BY DEF TypeOK, SocketTypes
  <1> DEFINE Same == UNCHANGED <<kept, events, lagged, reader, old>>
  <1>1. CASE Delivery /\ Same
    BY <1>0, <1>1, DeliveryKeeps, WayStep DEF Steady, WayKept
  <1>2. ASSUME SendDirect(<<Reply>>), UNCHANGED <<gap, got, hubq>>, Same
        PROVE  NothingMissing'
    <2>1. <<Reply>> \in Seq(ClientEvents)
      BY DEF ClientEvents
    <2>2. conn' = "open" =>
              conn = "open" /\ \A x : Holds(direct, x) => Holds(direct', x)
      <3>1. conn' = "open" => conn = "open"
        BY <1>2 DEF SendDirect
      <3> QED BY <1>0, <1>2, <2>1, <3>1, SendDirectKeeps
    <2> QED BY <1>2, <2>2, WayStep DEF Steady, WayKept
  <1>3. ASSUME NEW e \in SessionEvents \cup {Reply}, Received(<<e>>),
               UNCHANGED <<conn, got, direct>>, Same
        PROVE  NothingMissing'
    <2>1. /\ Received(<<e>>) /\ <<e>> \in Seq(ClientEvents)
          /\ UNCHANGED <<conn, got, direct>>
      BY <1>3 DEF ClientEvents
    <2>2. conn' = "open" /\ ~gap' =>
              ~gap /\ \A x : Holds(hubq, x) => Holds(hubq', x)
      BY <1>0, <2>1, ReceivedKeeps
    <2> QED BY <1>3, <2>1, <2>2, WayStep DEF Steady, WayKept
  <1>4. CASE Connect /\ ProcTask /\ old' = kept
    <2>1. kept' = kept
      BY <1>4 DEF ProcTask, procVars
    <2> QED BY <1>4, <2>1 DEF NothingMissing
  <1>5. CASE UNCHANGED <<gap, got, direct, hubq>> /\ conn' \in {conn, "deaf"} /\ Same
    BY <1>5, WayStep DEF Steady, WayKept
  <1>6. CASE ProcNext /\ SocketTask /\ UNCHANGED old
    BY <1>6, GapProc
  <1>7. CASE Bridge /\ UNCHANGED old
    BY <1>7, GapBridge
  <1>8. CASE ControlCommand /\ UNCHANGED old
    <2>1. Same
      <3>1. ProcTask \/ SendControl(Head(commands).proc, Head(commands).what)
                \/ AwaitRoom(Head(commands).proc)
        BY <1>8 DEF ControlCommand
      <3>2. CASE AwaitRoom(Head(commands).proc)
        BY <1>8, <3>2, WaitLeaves
      <3>3. CASE ProcTask
        BY <1>8, <3>3 DEF ProcTask, procVars
      <3>4. CASE SendControl(Head(commands).proc, Head(commands).what)
        BY <1>8, <3>4 DEF SendControl, ControlOnly, PipesOnly, Quiet
      <3> QED BY <3>1, <3>2, <3>3, <3>4
    <2>2. UNCHANGED <<gap, got, hubq>>
      BY <1>8 DEF ControlCommand, TakeCommand
    <2>3. UNCHANGED <<conn, direct>> \/ SendDirect(<<Reply>>)
      BY <1>8 DEF ControlCommand
    <2> QED BY <1>2, <1>5, <2>1, <2>2, <2>3
  <1>9. CASE Subscribe
    BY <1>9, GapSubscribe
  <1>10. CASE /\ \/ Delivery \/ Command \/ Leave \/ ClientCommand
                 \/ \E e \in SessionEvents : PublishSession(e)
                 \/ \E s \in Sessions : RegisterBoard(s) \/ DeleteSession(s)
              /\ ProcTask /\ UNCHANGED old
    <2>1. Same
      BY <1>10 DEF ProcTask, procVars
    <2> HIDE DEF Same
    <2>2. CASE HandleAnswered
      BY <1>2, <2>1, <2>2 DEF HandleAnswered, TakeCommand
    <2>3. CASE \/ HandleSilent \/ Leave \/ ClientCommand
               \/ \E s \in Sessions : RegisterBoard(s)
      BY <1>5, <2>1, <2>3 DEF HandleSilent, TakeCommand, Leave, ClientCommand,
                              ClientSends, RegisterBoard
    <2>4. CASE \/ \E e \in SessionEvents : PublishSession(e)
               \/ \E s \in Sessions : DeleteSession(s)
      BY <1>3, <2>1, <2>4 DEF PublishSession, DeleteSession
    <2> QED BY <1>1, <1>10, <2>1, <2>2, <2>3, <2>4 DEF Command
  <1>11. CASE ResumeInput /\ UNCHANGED old
    <2>1. PICK p \in stalled :
              \/ RoomFound(p) /\ SocketTask
              \/ /\ RoomGone(p) /\ SendDirect(<<Reply>>)
                 /\ UNCHANGED <<hubq, missed, commands, boardSubs, chatSubs, boards,
                                got, gap, counts>>
      BY <1>11 DEF ResumeInput
    <2>2. Same
      BY <1>11, <2>1, WaitLeaves
    <2>3. UNCHANGED <<gap, got, hubq>>
      BY <2>1 DEF SocketTask, socketVars
    <2>4. UNCHANGED <<conn, direct>> \/ SendDirect(<<Reply>>)
      BY <2>1 DEF SocketTask, socketVars
    <2> QED BY <1>2, <1>5, <2>2, <2>3, <2>4
  <1>12. CASE UNCHANGED vars
    BY <1>5, <1>12 DEF vars, procVars, socketVars
  <1> QED BY <1>4, <1>6, <1>7, <1>8, <1>9, <1>10, <1>11, <1>12 DEF Next

\* So an open socket without a gap has the replay and what followed.
LEMMA GapSays == TypeOK /\ NothingMissing => NoGapAfterReplay
  <1> SUFFICES ASSUME TypeOK, NothingMissing, conn = "open" /\ ~gap /\ ~lagged,
                      NEW p \in Procs, NEW n \in kept[p] \ old[p]
               PROVE  n \in Sent(p) \cup Numbers(direct, p)
                                \cup Numbers(Pipeline, p) \cup InHand(p)
    BY DEF NoGapAfterReplay
  <1>1. OnItsWay(p, n)
    BY DEF NothingMissing
  <1>2. /\ hubq \in Seq(ClientEvents) /\ events \in Seq(ClientEvents)
        /\ direct \in Seq(ClientEvents)
    BY SeqMonotonic DEF TypeOK, ProcTypeOK, ClientEvents
  <1>3. /\ Pipeline \in Seq(ClientEvents)
        /\ \A x : Holds(Pipeline, x) <=> Holds(hubq, x) \/ Holds(events, x)
    BY <1>2, ConcatProperties, ConcatHolds DEF Pipeline
  <1> HIDE DEF Pipeline
  <1>4. ASSUME NEW S, NEW q \in Seq(S), NEW x, Holds(q, x), Shows(x, p, n)
        PROVE  n \in Numbers(q, p)
    <2>1. PICK k \in 1..Len(q) : q[k] = x
      BY <1>4 DEF Holds
    <2>2. k \in DOMAIN q
      BY <2>1, LenProperties
    <2> QED BY <1>4, <2>1, <2>2 DEF Numbers, Shows
  <1>5. CASE \E e \in got : e.type = "output" /\ e.proc = p /\ e.chunk = n
    BY <1>5 DEF Sent
  <1>6. CASE Carries(direct, p, n)
    <2>1. PICK x : Holds(direct, x) /\ Shows(x, p, n)
      BY <1>6, CarriesShown
    <2> QED BY <1>2, <1>4, <2>1
  <1>7. CASE Carries(hubq, p, n) \/ Carries(events, p, n)
    <2>1. PICK x : (Holds(hubq, x) \/ Holds(events, x)) /\ Shows(x, p, n)
      BY <1>7, CarriesShown
    <2> QED BY <1>3, <1>4, <2>1
  <1>8. CASE \E s \in Streams : reader[p][s].at = "pushed" /\ reader[p][s].chunk = n
    BY <1>8 DEF InHand
  <1> QED BY <1>1, <1>5, <1>6, <1>7, <1>8 DEF OnItsWay

-----------------------------------------------------------------------------
\* The inductive invariant: what readers and watchers owe each other, where
\* an exit may stand in the channels, and where a stored chunk may be.
LEMMA Invariance == Spec => []IInv
  <1>1. Init => IInv
    <2>1. Init => NothingMissing
      BY DEF Init, SocketInit, NothingMissing
    <2> QED BY <2>1, TypeInit, DrainInit, OrderInit DEF IInv
  <1>2. IInv /\ [Next]_vars => IInv'
    BY TypeStep, DrainStep, OrderStep, GapStep DEF IInv
  <1> QED BY <1>1, <1>2, PTL DEF Spec

\* Behind a published exit of a process neither the hub nor the bridge holds
\* output of it, and no reader has any left to send (lib.rs:300-304).
THEOREM ExitComesLast == Spec => []NoOutputFollowsExit
  <1>1. IInv => NoOutputFollowsExit
    BY OrderSays DEF IInv
  <1> QED BY <1>1, Invariance, PTL

\* A client that subscribes has every chunk since it connected and what the
\* replay buffer held, or it is on its way, unless it or the bridge fell
\* behind or the replay did not fit (processes_and_websocket.rs, lib.rs).
THEOREM ReplayLeavesNoGap == Spec => []NoGapAfterReplay
  <1>1. IInv => NoGapAfterReplay
    BY GapSays DEF IInv
  <1> QED BY <1>1, Invariance, PTL
=============================================================================
