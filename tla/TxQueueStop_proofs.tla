------------------------- MODULE TxQueueStop_proofs -------------------------
(***************************************************************************)
(* Proofs about TxQueueStop, for every number of access points, queues and *)
(* every limit.  QueueBounded is not inductive: a queue at its bound must  *)
(* have nobody left who would add to it.  RoomInv counts those, Passing,   *)
(* together with the frames.  The sum grows only in two ways: a context    *)
(* measures, and the queue is then short; or the thread clears the flag,   *)
(* and the queue was short when the thread looked, with everybody who      *)
(* passed since already counted.                                           *)
(***************************************************************************)
EXTENDS TxQueueStop, FiniteSetTheorems, TLAPS

USE ConstantsAssumption
USE DEF Contexts, Frames, Goto, flags, block, vars

-----------------------------------------------------------------------------
\* The vaps and the worker are finitely many.
LEMMA ContextsFinite ==
  /\ IsFiniteSet(Contexts) /\ Cardinality(Contexts) \in Nat
BY FS_Subset, FS_AddElement, FS_CardinalityType, Zenon

\* Those about to queue a frame are at most all contexts.
LEMMA PassingBounded ==
  ASSUME NEW q
  PROVE  /\ IsFiniteSet(Passing(q)) /\ Cardinality(Passing(q)) \in Nat
         /\ Cardinality(Passing(q)) <= Cardinality(Contexts)
<1>1. Passing(q) \in SUBSET Contexts
  BY DEF Passing
<1>2. QED
  BY <1>1, ContextsFinite, FS_Subset, FS_CardinalityType

\* The same in the next state.
LEMMA PassingBoundedNext ==
  ASSUME NEW q
  PROVE  /\ IsFiniteSet(Passing(q)') /\ Cardinality(Passing(q)') \in Nat
         /\ Cardinality(Passing(q)') <= Cardinality(Contexts)
<1>1. Passing(q)' \in SUBSET Contexts
  BY DEF Passing
<1>2. QED
  BY <1>1, ContextsFinite, FS_Subset, FS_CardinalityType

\* A smaller set of passing contexts is no larger a number.
LEMMA PassingShrinks ==
  ASSUME NEW q, Passing(q)' \subseteq Passing(q)
  PROVE  Cardinality(Passing(q)') <= Cardinality(Passing(q))
BY PassingBounded, FS_Subset

LEMMA BlankFrame == Blank \in Frames
<1>1. \E f \in Frames : TRUE
  <2>1. PICK v \in Vaps, q \in Queues : TRUE
    OBVIOUS
  <2>2. [vap |-> v, qnum |-> q] \in Frames
    OBVIOUS
  <2>3. QED
    BY <2>2
<1>2. QED
  BY <1>1 DEF Blank

-----------------------------------------------------------------------------
\* Every step of the module keeps the types.
LEMMA TypeStep ==
  ASSUME TypeOK, [Next]_vars
  PROVE  TypeOK'
<1> USE DEF TypeOK
<1> USE BlankFrame
<1>1. ASSUME NEW v \in Stacks, Hardstart(v) PROVE TypeOK'
  BY <1>1 DEF Hardstart
<1>2. ASSUME NEW v \in Vaps, ScanStops(v) PROVE TypeOK'
  BY <1>2 DEF ScanStops
<1>3. CASE WorkerStarts
  BY <1>3 DEF WorkerStarts
<1>4. CASE ScanBlocks \/ Unblock \/ UnblockStarts
  BY <1>4 DEF ScanBlocks, Unblock, UnblockStarts
<1>5. ASSUME NEW c \in Contexts, Xmit(c) PROVE TypeOK'
  <2>1. CASE Measure(c)
    BY <2>1 DEF Measure
  <2>2. CASE Flag(c)
    <3>1. frame[c].vap \in Vaps /\ frame[c].qnum \in Queues
      BY <1>5
    <3>2. stop_per_q' \in [Vaps -> [Queues -> BOOLEAN]]
      BY <2>2, <3>1 DEF Flag
    <3>3. QED
      BY <2>2, <3>2 DEF Flag
  <2>3. CASE Check(c)
    BY <2>3 DEF Check
  <2>4. CASE Stop(c)
    BY <2>4 DEF Stop
  <2>5. CASE Queue(c)
    <3>1. frame[c].vap \in Vaps /\ frame[c].qnum \in Queues
      BY <1>5
    <3>2. host_tx_queue' \in [Queues -> Seq(Vaps)]
      BY <2>5, <3>1 DEF Queue
    <3>3. QED
      BY <2>5, <3>2 DEF Queue
  <2>6. QED
    BY <1>5, <2>1, <2>2, <2>3, <2>4, <2>5 DEF Xmit
<1>6. ASSUME NEW q \in Queues, Dequeue(q) PROVE TypeOK'
  <2>1. host_tx_queue[q] \in Seq(Vaps) /\ host_tx_queue[q] # <<>>
    BY <1>6 DEF Dequeue
  <2>2. Head(host_tx_queue[q]) \in Vaps /\ Tail(host_tx_queue[q]) \in Seq(Vaps)
    BY <2>1
  <2>3. QED
    BY <1>6, <2>2 DEF Dequeue
<1>7. CASE Thread
  <2>1. CASE Room
    BY <2>1 DEF Room
  <2>2. CASE Start
    BY <2>2 DEF Start
  <2>3. CASE Clear
    BY <2>3 DEF Clear
  <2>4. QED
    BY <1>7, <2>1, <2>2, <2>3 DEF Thread
<1>8. CASE UNCHANGED vars
  BY <1>8
<1>9. QED
  BY <1>1, <1>2, <1>3, <1>4, <1>5, <1>6, <1>7, <1>8 DEF Next

-----------------------------------------------------------------------------
\* A step that lengthens no queue, lets nobody else pass and does not bring the
\* thread to the point of clearing keeps RoomInv.
LEMMA QuietStep ==
  ASSUME TypeOK, TypeOK', RoomInv,
         \A q \in Queues : /\ Len(host_tx_queue'[q]) <= Len(host_tx_queue[q])
                           /\ Passing(q)' \subseteq Passing(q),
         tpc' \in {"start", "clear"} => tpc \in {"start", "clear"} /\ sent' = sent
  PROVE  RoomInv'
<1> SUFFICES ASSUME NEW q \in Queues
             PROVE  /\ Len(host_tx_queue'[q]) + Cardinality(Passing(q)') + 2
                          <= host_txq_maxlen + 2 * Cardinality(Contexts)
                    /\ tpc' \in {"start", "clear"} /\ sent'.qnum = q =>
                          Len(host_tx_queue'[q]) + Cardinality(Passing(q)') + 2
                             <= host_txq_maxlen + Cardinality(Contexts)
  BY DEF RoomInv
<1>1. Cardinality(Passing(q)') <= Cardinality(Passing(q))
  BY PassingShrinks
<1>2. Len(host_tx_queue[q]) \in Nat /\ Len(host_tx_queue'[q]) \in Nat
  BY DEF TypeOK
<1>3. /\ Len(host_tx_queue[q]) + Cardinality(Passing(q)) + 2
            <= host_txq_maxlen + 2 * Cardinality(Contexts)
      /\ tpc \in {"start", "clear"} /\ sent.qnum = q =>
            Len(host_tx_queue[q]) + Cardinality(Passing(q)) + 2
               <= host_txq_maxlen + Cardinality(Contexts)
  BY DEF RoomInv
<1>4. Len(host_tx_queue'[q]) <= Len(host_tx_queue[q])
  OBVIOUS
<1> HIDE DEF Contexts
<1>5. Len(host_tx_queue'[q]) + Cardinality(Passing(q)')
        <= Len(host_tx_queue[q]) + Cardinality(Passing(q))
  BY <1>1, <1>2, <1>4, PassingBounded, PassingBoundedNext
<1>6. QED
  BY <1>2, <1>3, <1>5,
     ContextsFinite, PassingBounded, PassingBoundedNext, SMTT(30)

\* A short queue has room for everybody, whoever passes.
LEMMA ShortQueue ==
  ASSUME NEW q \in Queues, TypeOK', Len(host_tx_queue'[q]) + 2 <= host_txq_maxlen
  PROVE  Len(host_tx_queue'[q]) + Cardinality(Passing(q)') + 2
            <= host_txq_maxlen + Cardinality(Contexts)
<1>1. Len(host_tx_queue'[q]) \in Nat
  BY DEF TypeOK
<1> HIDE DEF Contexts
<1>2. QED
  BY <1>1, ContextsFinite, PassingBoundedNext

\* A context measures: either the queue is short, or it will be flagged.
LEMMA MeasureStep ==
  ASSUME TypeOK, TypeOK', RoomInv, NEW c \in Contexts, Measure(c)
  PROVE  RoomInv'
<1>1. frame[c].qnum \in Queues
  BY DEF TypeOK
<1>2. CASE Full(frame[c].qnum)
  <2>1. \A q \in Queues : Passing(q)' \subseteq Passing(q)
    BY <1>2 DEF Measure, Passing, TypeOK
  <2>2. QED
    BY <2>1, QuietStep DEF Measure, TypeOK
<1>3. CASE ~Full(frame[c].qnum)
  <2> DEFINE r == frame[c].qnum
  <2>1. Len(host_tx_queue'[r]) + 2 <= host_txq_maxlen
    BY <1>1, <1>3 DEF Full, Measure, TypeOK
  <2>2. \A q \in Queues \ {r} : Passing(q)' \subseteq Passing(q)
    BY <1>1 DEF Measure, Passing, TypeOK
  <2> SUFFICES ASSUME NEW q \in Queues
               PROVE  /\ Len(host_tx_queue'[q]) + Cardinality(Passing(q)') + 2
                            <= host_txq_maxlen + 2 * Cardinality(Contexts)
                      /\ tpc' \in {"start", "clear"} /\ sent'.qnum = q =>
                            Len(host_tx_queue'[q]) + Cardinality(Passing(q)') + 2
                               <= host_txq_maxlen + Cardinality(Contexts)
    BY DEF RoomInv
  <2>3. Len(host_tx_queue'[q]) \in Nat /\ Len(host_tx_queue[q]) \in Nat
    BY DEF TypeOK
  <2>4. CASE q = r
    <3>1. Len(host_tx_queue'[q]) + Cardinality(Passing(q)') + 2
            <= host_txq_maxlen + Cardinality(Contexts)
      BY <2>1, <2>4, ShortQueue
    <3> HIDE DEF Contexts
    <3>2. QED
      BY <3>1, <2>3, ContextsFinite, PassingBoundedNext
  <2>5. CASE q # r
    <3>1. Cardinality(Passing(q)') <= Cardinality(Passing(q))
      BY <2>2, <2>5, PassingShrinks
    <3>2. /\ Len(host_tx_queue[q]) + Cardinality(Passing(q)) + 2
                <= host_txq_maxlen + 2 * Cardinality(Contexts)
          /\ tpc \in {"start", "clear"} /\ sent.qnum = q =>
                Len(host_tx_queue[q]) + Cardinality(Passing(q)) + 2
                   <= host_txq_maxlen + Cardinality(Contexts)
      BY DEF RoomInv
    <3>3. /\ host_tx_queue' = host_tx_queue /\ tpc' = tpc /\ sent' = sent
      BY DEF Measure
    <3> HIDE DEF Contexts, r
    <3>4. QED
      BY <3>1, <3>2, <3>3, <2>3, ContextsFinite, PassingBounded,
         PassingBoundedNext
  <2>6. QED
    BY <2>4, <2>5
<1>4. QED
  BY <1>2, <1>3

\* A frame is queued: one more of it, one fewer who passes.
LEMMA QueueStep ==
  ASSUME TypeOK, TypeOK', RoomInv, NEW c \in Contexts, Queue(c)
  PROVE  RoomInv'
<1> DEFINE r == frame[c].qnum
<1>1. r \in Queues /\ frame[c].vap \in Vaps
  BY DEF TypeOK
<1>2. c \in Passing(r)
  BY DEF Queue, Passing
<1>3. \A q \in Queues : Passing(q)' \subseteq Passing(q) \ {c}
  BY DEF Queue, Passing, TypeOK
<1>4. /\ Len(host_tx_queue'[r]) = Len(host_tx_queue[r]) + 1
      /\ \A q \in Queues \ {r} : host_tx_queue'[q] = host_tx_queue[q]
  BY <1>1 DEF Queue, TypeOK
<1>5. tpc' = tpc /\ sent' = sent
  BY DEF Queue
<1> SUFFICES ASSUME NEW q \in Queues
             PROVE  /\ Len(host_tx_queue'[q]) + Cardinality(Passing(q)') + 2
                          <= host_txq_maxlen + 2 * Cardinality(Contexts)
                    /\ tpc' \in {"start", "clear"} /\ sent'.qnum = q =>
                          Len(host_tx_queue'[q]) + Cardinality(Passing(q)') + 2
                             <= host_txq_maxlen + Cardinality(Contexts)
  BY DEF RoomInv
<1>6. Len(host_tx_queue'[q]) \in Nat /\ Len(host_tx_queue[q]) \in Nat
  BY DEF TypeOK
<1>7. /\ Len(host_tx_queue[q]) + Cardinality(Passing(q)) + 2
            <= host_txq_maxlen + 2 * Cardinality(Contexts)
      /\ tpc \in {"start", "clear"} /\ sent.qnum = q =>
            Len(host_tx_queue[q]) + Cardinality(Passing(q)) + 2
               <= host_txq_maxlen + Cardinality(Contexts)
  BY DEF RoomInv
<1>8. Len(host_tx_queue'[q]) + Cardinality(Passing(q)')
        <= Len(host_tx_queue[q]) + Cardinality(Passing(q))
  <2>1. CASE q = r
    <3>1. Cardinality(Passing(q) \ {c}) = Cardinality(Passing(q)) - 1
          /\ IsFiniteSet(Passing(q) \ {c})
      BY <1>2, <2>1, PassingBounded, FS_RemoveElement
    <3>2. Cardinality(Passing(q)') <= Cardinality(Passing(q)) - 1
      BY <3>1, <1>3, FS_Subset
    <3>3. QED
      BY <3>2, <2>1, <1>4, <1>6, PassingBounded, PassingBoundedNext
  <2>2. CASE q # r
    <3>1. Cardinality(Passing(q)') <= Cardinality(Passing(q))
      BY <1>3, PassingShrinks
    <3>2. QED
      BY <3>1, <2>2, <1>4, <1>6, PassingBounded, PassingBoundedNext
  <2>3. QED
    BY <2>1, <2>2
<1> HIDE DEF Contexts, r
<1>9. QED
  BY <1>5, <1>6, <1>7, <1>8,
     ContextsFinite, PassingBounded, PassingBoundedNext, SMTT(30)

\* The thread looks: if it goes on to clear the flag, the queue is short.
LEMMA RoomStep ==
  ASSUME TypeOK, TypeOK', RoomInv, Room
  PROVE  RoomInv'
<1>1. \A q \in Queues : Passing(q)' = Passing(q)
  BY DEF Room, Passing
<1>2. CASE tpc' = "idle"
  BY <1>1, <1>2, QuietStep DEF Room, TypeOK
<1>3. CASE tpc' = "start"
  <2>1. /\ sent' = sent /\ host_tx_queue' = host_tx_queue /\ sent.qnum \in Queues
        /\ Len(host_tx_queue[sent.qnum]) < host_txq_maxlen - Margin
    BY <1>3 DEF Room, TypeOK
  <2>2. Len(host_tx_queue'[sent.qnum]) + 2 <= host_txq_maxlen
    BY <2>1 DEF TypeOK
  <2>3. Len(host_tx_queue'[sent.qnum]) + Cardinality(Passing(sent.qnum)') + 2
          <= host_txq_maxlen + Cardinality(Contexts)
    BY <2>1, <2>2, ShortQueue
  <2>4. \A q \in Queues : Len(host_tx_queue'[q]) + Cardinality(Passing(q)') + 2
                             <= host_txq_maxlen + 2 * Cardinality(Contexts)
    BY <1>1, <2>1 DEF RoomInv
  <2>5. QED
    BY <2>1, <2>3, <2>4 DEF RoomInv
<1>4. QED
  BY <1>2, <1>3 DEF Room

\* The flag is cleared: everybody may pass, in a queue that had room for that.
LEMMA ClearStep ==
  ASSUME TypeOK, TypeOK', RoomInv, Clear
  PROVE  RoomInv'
<1>1. tpc = "clear" /\ tpc' = "idle" /\ host_tx_queue' = host_tx_queue
  BY DEF Clear
<1> SUFFICES ASSUME NEW q \in Queues
             PROVE  Len(host_tx_queue'[q]) + Cardinality(Passing(q)') + 2
                       <= host_txq_maxlen + 2 * Cardinality(Contexts)
  BY <1>1 DEF RoomInv
<1>2. Len(host_tx_queue[q]) \in Nat
  BY DEF TypeOK
<1>3. CASE q = sent.qnum
  <2>1. Len(host_tx_queue[q]) + Cardinality(Passing(q)) + 2
          <= host_txq_maxlen + Cardinality(Contexts)
    BY <1>1, <1>3 DEF RoomInv
  <2> HIDE DEF Contexts
  <2>2. QED
    BY <2>1, <1>1, <1>2, ContextsFinite, PassingBounded, PassingBoundedNext
<1>4. CASE q # sent.qnum
  <2>1. \A v \in Vaps : stop_per_q'[v][q] = stop_per_q[v][q]
    BY <1>4 DEF Clear, TypeOK
  <2>2. Passing(q)' = Passing(q)
    BY <2>1 DEF Clear, Passing, TypeOK
  <2>3. QED
    BY <2>2, <1>1 DEF RoomInv
<1>5. QED
  BY <1>3, <1>4

-----------------------------------------------------------------------------
\* Every step keeps RoomInv.
LEMMA RoomInvStep ==
  ASSUME TypeOK, TypeOK', RoomInv, [Next]_vars
  PROVE  RoomInv'
<1>1. ASSUME NEW v \in Stacks, Hardstart(v) PROVE RoomInv'
  <2>1. \A q \in Queues : Passing(q)' \subseteq Passing(q)
    BY <1>1 DEF Hardstart, Passing, TypeOK
  <2>2. QED
    BY <1>1, <2>1, QuietStep DEF Hardstart, TypeOK
<1>2. ASSUME NEW v \in Vaps, ScanStops(v) PROVE RoomInv'
  <2>1. \A q \in Queues : Passing(q)' = Passing(q)
    BY <1>2 DEF ScanStops, Passing
  <2>2. QED
    BY <1>2, <2>1, QuietStep DEF ScanStops, TypeOK
<1>3. CASE WorkerStarts
  <2>1. \A q \in Queues : Passing(q)' \subseteq Passing(q)
    BY <1>3 DEF WorkerStarts, Passing, TypeOK
  <2>2. QED
    BY <1>3, <2>1, QuietStep DEF WorkerStarts, TypeOK
<1>4. CASE ScanBlocks \/ Unblock \/ UnblockStarts \/ UNCHANGED vars
  <2>1. \A q \in Queues : Passing(q)' = Passing(q)
    BY <1>4 DEF ScanBlocks, Unblock, UnblockStarts, Passing
  <2>2. QED
    BY <1>4, <2>1, QuietStep DEF ScanBlocks, Unblock, UnblockStarts, TypeOK
<1>5. ASSUME NEW c \in Contexts, Flag(c) \/ Check(c) \/ Stop(c) PROVE RoomInv'
  <2>1. frame[c].vap \in Vaps /\ frame[c].qnum \in Queues
    BY <1>5 DEF TypeOK
  <2>2. CASE Flag(c)
    <3>1. \A q \in Queues : Passing(q)' \subseteq Passing(q)
      BY <2>1, <2>2 DEF Flag, Passing, TypeOK
    <3>2. QED
      BY <2>2, <3>1, QuietStep DEF Flag, TypeOK
  <2>3. CASE Check(c)
    <3>1. \A q \in Queues : Passing(q)' \subseteq Passing(q)
      BY <2>1, <2>3 DEF Check, Passing, TypeOK
    <3>2. QED
      BY <2>3, <3>1, QuietStep DEF Check, TypeOK
  <2>4. CASE Stop(c)
    <3>1. \A q \in Queues : Passing(q)' \subseteq Passing(q)
      BY <2>1, <2>4 DEF Stop, Passing, TypeOK
    <3>2. QED
      BY <2>4, <3>1, QuietStep DEF Stop, TypeOK
  <2>5. QED
    BY <1>5, <2>2, <2>3, <2>4
<1>6. ASSUME NEW r \in Queues, Dequeue(r) PROVE RoomInv'
  <2>1. \A q \in Queues : Passing(q)' = Passing(q)
    BY <1>6 DEF Dequeue, Passing
  <2>2. host_tx_queue[r] \in Seq(Vaps) /\ host_tx_queue[r] # <<>>
    BY <1>6 DEF Dequeue, TypeOK
  <2>3. Len(Tail(host_tx_queue[r])) <= Len(host_tx_queue[r])
    BY <2>2
  <2>4. \A q \in Queues : Len(host_tx_queue'[q]) <= Len(host_tx_queue[q])
    BY <1>6, <2>3 DEF Dequeue, TypeOK
  <2>5. tpc' = "room"
    BY <1>6 DEF Dequeue
  <2>6. QED
    BY <2>1, <2>4, <2>5, QuietStep
<1>7. CASE Start
  <2>1. \A q \in Queues : Passing(q)' = Passing(q)
    BY <1>7 DEF Start, Passing
  <2>2. QED
    BY <1>7, <2>1, QuietStep DEF Start, TypeOK
<1>8. QED
  BY <1>1, <1>2, <1>3, <1>4, <1>5, <1>6, <1>7, MeasureStep, QueueStep, RoomStep,
     ClearStep DEF Next, Xmit, Thread

-----------------------------------------------------------------------------
\* The invariant holds of empty queues.
LEMMA InitInv == Init => IInv
<1> SUFFICES ASSUME Init PROVE IInv
  OBVIOUS
<1>1. TypeOK
  <2>1. host_tx_queue \in [Queues -> Seq(Vaps)]
    BY DEF Init
  <2>2. /\ stop_per_q \in [Vaps -> [Queues -> BOOLEAN]]
        /\ ifp_stopped \in [Vaps -> BOOLEAN]
    BY DEF Init
  <2>3. frame \in [Contexts -> Frames] /\ sent \in Frames
    BY BlankFrame DEF Init
  <2>4. QED
    BY <2>1, <2>2, <2>3 DEF Init, TypeOK
<1>2. ASSUME NEW q \in Queues
      PROVE  Len(host_tx_queue[q]) = 0 /\ Passing(q) = {}
  BY DEF Init, Passing
<1>3. Cardinality({}) = 0
  BY FS_EmptySet
<1>4. RoomInv
  <2>1. tpc = "idle" /\ 2 <= host_txq_maxlen
    BY DEF Init
  <2>2. ASSUME NEW q \in Queues
        PROVE  Len(host_tx_queue[q]) = 0 /\ Cardinality(Passing(q)) = 0
    BY <1>2, <1>3, Zenon
  <2> HIDE DEF Contexts
  <2>3. QED
    BY <2>1, <2>2, ContextsFinite DEF RoomInv
<1>5. QED
  BY <1>1, <1>4 DEF IInv

\* The strengthened invariant of stopping and starting is inductive.
THEOREM Inductive == Spec => []IInv
<1>1. ASSUME IInv, [Next]_vars PROVE IInv'
  BY <1>1, TypeStep, RoomInvStep DEF IInv
<1>2. QED
  BY <1>1, InitInv, PTL DEF Spec

\* The queues, the flags and the places of the contexts keep their types.
THEOREM TypeCorrect == Spec => []TypeOK
<1>1. IInv => TypeOK
  BY DEF IInv
<1>2. QED
  BY <1>1, Inductive, PTL

\* core_xmit's check of the length, made before the frame is queued and without
\* a lock, lets a queue exceed its limit by a number of the contexts only.
THEOREM QueueBoundedTheorem == Spec => []QueueBounded
<1>1. IInv => QueueBounded
  <2> SUFFICES ASSUME IInv, NEW q \in Queues
               PROVE  Len(host_tx_queue[q]) + 2
                         <= host_txq_maxlen + 2 * Cardinality(Contexts)
    BY DEF QueueBounded
  <2>1. Len(host_tx_queue[q]) \in Nat
    BY DEF IInv, TypeOK
  <2>2. Len(host_tx_queue[q]) + Cardinality(Passing(q)) + 2
          <= host_txq_maxlen + 2 * Cardinality(Contexts)
    BY DEF IInv, RoomInv
  <2> HIDE DEF Contexts
  <2>3. QED
    BY <2>1, <2>2, PassingBounded, ContextsFinite
<1>2. QED
  BY <1>1, Inductive, PTL
=============================================================================
