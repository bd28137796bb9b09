--------------------------- MODULE Processor_proofs ---------------------------
(***************************************************************************)
(* Proofs about Processor for any set of keys and any bounds: the work     *)
(* queue stays disciplined, no update is lost, the table never goes back   *)
(* to an older version, and every step is a step of Reconciler.            *)
(***************************************************************************)
EXTENDS Processor, SequenceTheorems, TLAPS

USE MaxVersionAssumption DEF Absent, Versions

-----------------------------------------------------------------------------
(* The queue and the listener's FIFO as sets of keys.                      *)

\* Queueing an element adds it, and nothing else, to what is queued.
LEMMA RangeOfAppend ==
  ASSUME NEW S, NEW s \in Seq(S), NEW e \in S
  PROVE  Range(Append(s, e)) = Range(s) \cup {e}
<1>1. /\ Append(s, e) \in Seq(S)
      /\ Len(Append(s, e)) = Len(s) + 1
      /\ \A i \in 1..Len(s) : Append(s, e)[i] = s[i]
      /\ Append(s, e)[Len(s) + 1] = e
  BY AppendProperties
<1>2. /\ DOMAIN s = 1..Len(s)
      /\ DOMAIN Append(s, e) = 1..(Len(s) + 1)
      /\ Len(s) \in Nat
  BY <1>1, LenProperties
<1>3. ASSUME NEW x PROVE x \in Range(Append(s, e)) <=> x \in Range(s) \/ x = e
  <2>1. ASSUME x \in Range(s) PROVE x \in Range(Append(s, e))
    <3>1. PICK i \in 1..Len(s) : x = s[i]
      BY <2>1, <1>2 DEF Range
    <3>2. i \in 1..(Len(s) + 1) /\ Append(s, e)[i] = x
      BY <3>1, <1>1, <1>2
    <3> QED BY <3>2, <1>2 DEF Range
  <2>2. ASSUME x = e PROVE x \in Range(Append(s, e))
    <3>1. Len(s) + 1 \in DOMAIN Append(s, e)
      BY <1>2
    <3> QED BY <2>2, <3>1, <1>1 DEF Range
  <2>3. ASSUME x \in Range(Append(s, e)), x # e PROVE x \in Range(s)
    <3>1. PICK i \in 1..(Len(s) + 1) : x = Append(s, e)[i]
      BY <2>3, <1>2 DEF Range
    <3>2. i \in 1..Len(s)
      BY <2>3, <3>1, <1>1, <1>2
    <3> QED BY <3>1, <3>2, <1>1, <1>2 DEF Range
  <2> QED BY <2>1, <2>2, <2>3
<1> QED BY <1>3

\* Queueing an element that is not queued keeps the queue free of repetition.
LEMMA InjectiveAppend ==
  ASSUME NEW S, NEW s \in Seq(S), NEW e \in S,
         IsInjective(s), e \notin Range(s)
  PROVE  IsInjective(Append(s, e))
<1>1. /\ Append(s, e) \in Seq(S)
      /\ Len(Append(s, e)) = Len(s) + 1
      /\ \A i \in 1..Len(s) : Append(s, e)[i] = s[i]
      /\ Append(s, e)[Len(s) + 1] = e
  BY AppendProperties
<1>2. /\ DOMAIN s = 1..Len(s)
      /\ DOMAIN Append(s, e) = 1..(Len(s) + 1)
      /\ Len(s) \in Nat
  BY <1>1, LenProperties
<1>3. \A i \in 1..Len(s) : s[i] # e
  BY <1>2 DEF Range
<1>4. \A i, j \in 1..Len(s) : s[i] = s[j] => i = j
  BY <1>2 DEF IsInjective
<1>5. ASSUME NEW i \in 1..(Len(s) + 1), NEW j \in 1..(Len(s) + 1),
             Append(s, e)[i] = Append(s, e)[j]
      PROVE  i = j
  <2>1. CASE i \in 1..Len(s) /\ j \in 1..Len(s)
    BY <2>1, <1>1, <1>4, <1>5
  <2>2. CASE i = Len(s) + 1 \/ j = Len(s) + 1
    BY <2>2, <1>1, <1>2, <1>3, <1>5
  <2> QED BY <2>1, <2>2, <1>2
<1> QED BY <1>2, <1>5 DEF IsInjective

\* Every element of a sequence is its head or in its tail.
LEMMA RangeOfTail ==
  ASSUME NEW S, NEW s \in Seq(S), s # <<>>
  PROVE  /\ Head(s) \in S
         /\ Tail(s) \in Seq(S)
         /\ Range(s) = {Head(s)} \cup Range(Tail(s))
<1>1. /\ Head(s) \in S
      /\ Tail(s) \in Seq(S)
      /\ Len(Tail(s)) = Len(s) - 1
      /\ \A i \in 1..Len(Tail(s)) : Tail(s)[i] = s[i + 1]
  BY HeadTailProperties
<1>2. /\ DOMAIN s = 1..Len(s)
      /\ DOMAIN Tail(s) = 1..(Len(s) - 1)
      /\ Len(s) \in Nat \ {0}
      /\ Head(s) = s[1]
  BY <1>1, LenProperties, EmptySeq
<1>3. ASSUME NEW x PROVE x \in Range(s) <=> x = Head(s) \/ x \in Range(Tail(s))
  <2>1. ASSUME x = Head(s) PROVE x \in Range(s)
    <3>1. 1 \in DOMAIN s
      BY <1>2
    <3> QED BY <2>1, <3>1, <1>2 DEF Range
  <2>2. ASSUME x \in Range(Tail(s)) PROVE x \in Range(s)
    <3>1. PICK i \in 1..(Len(s) - 1) : x = Tail(s)[i]
      BY <2>2, <1>2 DEF Range
    <3>2. i + 1 \in DOMAIN s /\ s[i + 1] = x
      BY <3>1, <1>1, <1>2
    <3> QED BY <3>2 DEF Range
  <2>3. ASSUME x \in Range(s), x # Head(s) PROVE x \in Range(Tail(s))
    <3>1. PICK i \in 1..Len(s) : x = s[i]
      BY <2>3, <1>2 DEF Range
    <3>2. i # 1
      BY <2>3, <3>1, <1>2
    <3>3. i - 1 \in DOMAIN Tail(s) /\ (i - 1) + 1 = i
      BY <3>1, <3>2, <1>2
    <3>4. Tail(s)[i - 1] = x
      BY <3>1, <3>3, <1>1, <1>2
    <3> QED BY <3>3, <3>4 DEF Range
  <2> QED BY <2>1, <2>2, <2>3
<1> QED BY <1>1, <1>3

\* Taking the head of a queue without repetition removes that element.
LEMMA InjectiveTail ==
  ASSUME NEW S, NEW s \in Seq(S), s # <<>>, IsInjective(s)
  PROVE  /\ IsInjective(Tail(s))
         /\ Range(Tail(s)) = Range(s) \ {Head(s)}
<1>1. /\ Tail(s) \in Seq(S)
      /\ Len(Tail(s)) = Len(s) - 1
      /\ \A i \in 1..Len(Tail(s)) : Tail(s)[i] = s[i + 1]
  BY HeadTailProperties
<1>2. /\ DOMAIN s = 1..Len(s)
      /\ DOMAIN Tail(s) = 1..(Len(s) - 1)
      /\ Len(s) \in Nat \ {0}
      /\ Head(s) = s[1]
  BY <1>1, LenProperties, EmptySeq
<1>3. \A i, j \in 1..Len(s) : s[i] = s[j] => i = j
  BY <1>2 DEF IsInjective
<1>4. ASSUME NEW i \in 1..(Len(s) - 1), NEW j \in 1..(Len(s) - 1),
             Tail(s)[i] = Tail(s)[j]
      PROVE  i = j
  <2>1. s[i + 1] = s[j + 1]
    BY <1>4, <1>1, <1>2
  <2>2. i + 1 \in 1..Len(s) /\ j + 1 \in 1..Len(s)
    BY <1>2
  <2>3. i + 1 = j + 1
    BY <2>1, <2>2, <1>3
  <2> QED BY <2>3
<1>5. IsInjective(Tail(s))
  BY <1>2, <1>4 DEF IsInjective
<1>6. Head(s) \notin Range(Tail(s))
  <2>1. SUFFICES ASSUME NEW i \in 1..(Len(s) - 1), Tail(s)[i] = Head(s)
                 PROVE  FALSE
    BY <1>2 DEF Range
  <2>2. s[i + 1] = s[1]
    BY <2>1, <1>1, <1>2
  <2>3. i + 1 \in 1..Len(s) /\ 1 \in 1..Len(s)
    BY <1>2
  <2>4. i + 1 = 1
    BY <2>2, <2>3, <1>3
  <2> QED BY <2>4
<1> QED BY <1>5, <1>6, RangeOfTail

-----------------------------------------------------------------------------
(* The queue discipline.  It is inductive together with the types: that the *)
(* worker's key is a key while it is busy follows from processing = {key}.  *)

QueueInv == TypeOK /\ QueueDisciplined

\* Initially nothing is queued and the worker holds no key.
LEMMA QueueInit == Init => QueueInv
<1> SUFFICES ASSUME Init PROVE QueueInv
  OBVIOUS
<1>0. Absent \in Versions /\ <<>> \in Seq(Keys)
  BY EmptySeq
<1>1. TypeOK
  BY <1>0 DEF Init, TypeOK, PCs
<1>2. queue = <<>>
  BY DEF Init
<1>3. Range(queue) = {} /\ IsInjective(queue)
  BY <1>2 DEF Range, IsInjective
<1>4. QueueDisciplined
  BY <1>3 DEF Init, QueueDisciplined, Busy
<1> QED BY <1>1, <1>4 DEF QueueInv

\* A busy worker's key is one of this resource type, an idle one has none.
LEMMA BusyKey ==
  ASSUME QueueInv, Busy
  PROVE  key \in Keys
BY DEF QueueInv, TypeOK, QueueDisciplined

\* queue.Add, in a state where no worker step happens, keeps the discipline:
\* the key is queued unless it already is or is being processed.
LEMMA AddDisciplined ==
  ASSUME QueueInv, NEW k \in Keys, Add(k)
  PROVE  /\ queue' \in Seq(Keys)
         /\ dirty' \in SUBSET Keys
         /\ IsInjective(queue')
         /\ Range(queue') = dirty' \ processing
         /\ shuttingDown => dirty' = dirty
<1> USE DEF QueueInv, TypeOK, QueueDisciplined, Add
<1>1. CASE shuttingDown \/ k \in dirty
  BY <1>1
<1>2. CASE ~shuttingDown /\ k \notin dirty /\ k \in processing
  BY <1>2
<1>3. CASE ~shuttingDown /\ k \notin dirty /\ k \notin processing
  <2>1. queue' = Append(queue, k) /\ dirty' = dirty \cup {k}
    BY <1>3
  <2>2. k \notin Range(queue)
    BY <1>3
  <2>3. queue' \in Seq(Keys)
    BY <2>1, AppendProperties
  <2>4. Range(queue') = Range(queue) \cup {k}
    BY <2>1, RangeOfAppend
  <2>5. IsInjective(queue')
    BY <2>1, <2>2, InjectiveAppend
  <2> QED BY <1>3, <2>1, <2>3, <2>4, <2>5
<1> QED BY <1>1, <1>2, <1>3

\* Every step keeps the types and the discipline.
LEMMA QueueStep == QueueInv /\ [Next]_vars => QueueInv'
<1> SUFFICES ASSUME QueueInv, [Next]_vars
             PROVE  QueueInv'
  OBVIOUS
<1> USE DEF QueueInv
<1>1. ASSUME NEW k \in Keys, InformerUpdate(k)
      PROVE  QueueInv'
  <2>1. indexer' \in [Keys -> Versions] /\ version' \in [Keys -> Versions]
    <3>1. version[k] < MaxVersion => version[k] + 1 \in Versions
      BY DEF TypeOK
    <3>2. \/ UNCHANGED version
          \/ /\ version[k] + 1 \in Versions
             /\ version' = [version EXCEPT ![k] = version[k] + 1]
      BY <1>1, <3>1 DEF InformerUpdate
    <3>3. \/ UNCHANGED indexer
          \/ indexer' = [indexer EXCEPT ![k] = Absent]
          \/ /\ version[k] + 1 \in Versions
             /\ indexer' = [indexer EXCEPT ![k] = version[k] + 1]
      BY <1>1, <3>1 DEF InformerUpdate
    <3>4. Absent \in Versions
      OBVIOUS
    <3>5. version' \in [Keys -> Versions]
      BY <3>2 DEF TypeOK
    <3>6. indexer' \in [Keys -> Versions]
      BY <3>3, <3>4 DEF TypeOK
    <3> QED BY <3>5, <3>6
  <2>2. events' \in Seq(Keys)
    BY <1>1, AppendProperties DEF InformerUpdate, TypeOK
  <2>3. TypeOK'
    BY <1>1, <2>1, <2>2 DEF InformerUpdate, TypeOK, queueVars, workerVars
  <2>4. QueueDisciplined'
    BY <1>1 DEF InformerUpdate, QueueDisciplined, Busy, queueVars, workerVars
  <2> QED BY <2>3, <2>4
<1>2. CASE HandleEvent
  <2>1. Head(events) \in Keys /\ events' \in Seq(Keys)
    BY <1>2, RangeOfTail DEF HandleEvent, TypeOK
  <2>2. Add(Head(events))
    BY <1>2 DEF HandleEvent
  <2>3. /\ queue' \in Seq(Keys)
        /\ dirty' \in SUBSET Keys
        /\ IsInjective(queue')
        /\ Range(queue') = dirty' \ processing
        /\ shuttingDown => dirty' = dirty
    BY <2>1, <2>2, AddDisciplined
  <2>4. TypeOK'
    BY <1>2, <2>1, <2>3 DEF HandleEvent, TypeOK, workerVars
  <2>5. QueueDisciplined'
    BY <1>2, <2>3 DEF HandleEvent, QueueDisciplined, Busy, workerVars
  <2> QED BY <2>4, <2>5
<1>3. CASE ShutDown
  <2>1. TypeOK'
    BY <1>3 DEF ShutDown, TypeOK, informerVars, workerVars
  <2>2. QueueDisciplined'
    BY <1>3 DEF ShutDown, QueueDisciplined, Busy, workerVars
  <2> QED BY <2>1, <2>2
<1>4. CASE Get
  <2>1. Head(queue) \in Keys /\ Tail(queue) \in Seq(Keys)
    BY <1>4, RangeOfTail DEF Get, TypeOK
  <2>2. IsInjective(Tail(queue)) /\ Range(Tail(queue)) = Range(queue) \ {Head(queue)}
    BY <1>4, InjectiveTail DEF Get, TypeOK, QueueDisciplined
  <2>3. TypeOK'
    BY <1>4, <2>1 DEF Get, TypeOK, PCs, informerVars
  <2>4. QueueDisciplined'
    BY <1>4, <2>2 DEF Get, QueueDisciplined, Busy
  <2> QED BY <2>3, <2>4
<1>5. CASE Quit
  <2>1. TypeOK'
    BY <1>5 DEF Quit, TypeOK, PCs, informerVars, queueVars
  <2>2. Range(queue) = {}
    BY <1>5 DEF Quit, Range
  <2>3. QueueDisciplined'
    BY <1>5, <2>2 DEF Quit, QueueDisciplined, Busy, queueVars
  <2> QED BY <2>1, <2>3
<1>6. CASE ReadIndexer
  <2>1. key \in Keys
    BY <1>6, BusyKey DEF ReadIndexer, Busy
  <2>2. TypeOK'
    BY <1>6, <2>1 DEF ReadIndexer, TypeOK, PCs, informerVars, queueVars
  <2>3. QueueDisciplined'
    BY <1>6 DEF ReadIndexer, QueueDisciplined, Busy, queueVars
  <2> QED BY <2>2, <2>3
<1>7. CASE AddItem
  <2>1. TypeOK'
    BY <1>7 DEF AddItem, TypeOK, PCs, informerVars, queueVars
  <2>2. QueueDisciplined'
    BY <1>7 DEF AddItem, QueueDisciplined, Busy, queueVars
  <2> QED BY <2>1, <2>2
<1>8. CASE DelItem
  <2>1. TypeOK'
    BY <1>8 DEF DelItem, TypeOK, PCs, informerVars, queueVars
  <2>2. QueueDisciplined'
    BY <1>8 DEF DelItem, QueueDisciplined, Busy, queueVars
  <2> QED BY <2>1, <2>2
<1>9. CASE Finish
  <2>1. key \in Keys /\ processing = {key}
    BY <1>9, BusyKey DEF Finish, Busy, QueueDisciplined
  <2>2. processing' = {}
    BY <1>9, <2>1 DEF Finish, Done
  <2>3. queue' \in Seq(Keys) /\ IsInjective(queue') /\ Range(queue') = dirty
    <3>1. CASE key \in dirty
      <4>1. queue' = Append(queue, key)
        BY <1>9, <3>1 DEF Finish, Done
      <4>2. queue \in Seq(Keys) /\ IsInjective(queue) /\ key \notin Range(queue)
        BY <2>1 DEF TypeOK, QueueDisciplined
      <4>3. Range(queue') = Range(queue) \cup {key}
        BY <4>1, <4>2, <2>1, RangeOfAppend
      <4>4. IsInjective(queue') /\ queue' \in Seq(Keys)
        BY <4>1, <4>2, <2>1, InjectiveAppend, AppendProperties
      <4> QED BY <3>1, <4>3, <4>4, <2>1 DEF QueueDisciplined
    <3>2. CASE key \notin dirty
      BY <1>9, <3>2, <2>1 DEF Finish, Done, TypeOK, QueueDisciplined
    <3> QED BY <3>1, <3>2
  <2>4. TypeOK'
    BY <1>9, <2>2, <2>3 DEF Finish, TypeOK, PCs, informerVars
  <2>5. QueueDisciplined'
    BY <1>9, <2>2, <2>3 DEF Finish, QueueDisciplined, Busy
  <2> QED BY <2>4, <2>5
<1>10. CASE UNCHANGED vars
  BY <1>10 DEF vars, informerVars, queueVars, workerVars, TypeOK,
               QueueDisciplined, Busy
<1> QED
  BY <1>1, <1>2, <1>3, <1>4, <1>5, <1>6, <1>7, <1>8, <1>9, <1>10
     DEF Next, Worker

\* The types are right and the queue stays disciplined in every state: no key
\* is queued twice or processed twice at once, and none is left by a worker
\* that has quit.
THEOREM QueueCorrect == Spec => [](TypeOK /\ QueueDisciplined)
<1>1. Init => QueueInv
  BY QueueInit
<1>2. QueueInv /\ [Next]_vars => QueueInv'
  BY QueueStep
<1>3. QueueInv => TypeOK /\ QueueDisciplined
  BY DEF QueueInv
<1> QED BY <1>1, <1>2, <1>3, PTL DEF Spec

\* The variables of informer, queue and worker keep their types; the worker has
\* no key in hand but one of the keys.
THEOREM TypesHold == Spec => []TypeOK
<1>1. TypeOK /\ QueueDisciplined => TypeOK
  OBVIOUS
<1> QED BY <1>1, QueueCorrect, PTL

-----------------------------------------------------------------------------
(* Versions.  What is in the store is the newest version or nothing; what   *)
(* the worker read is at least what the table shows, because nobody else    *)
(* writes the table.                                                        *)

\* Every step keeps the versions in order.
LEMMA VersionStep == QueueInv /\ VersionsInOrder /\ [Next]_vars => VersionsInOrder'
<1> SUFFICES ASSUME QueueInv, VersionsInOrder, [Next]_vars
             PROVE  VersionsInOrder'
  OBVIOUS
<1> TypeOK
  BY DEF QueueInv
<1>1. ASSUME NEW k \in Keys, InformerUpdate(k)
      PROVE  VersionsInOrder'
  <2>1. /\ \A j \in Keys : version[j] \in Nat /\ indexer[j] \in Nat /\ view[j] \in Nat
        /\ obj \in Nat
    BY DEF TypeOK
  <2>2. \A j \in Keys \ {k} : version'[j] = version[j] /\ indexer'[j] = indexer[j]
    BY <1>1 DEF InformerUpdate, TypeOK
  <2>3. \/ version'[k] = version[k] /\ indexer'[k] \in {Absent, indexer[k]}
        \/ version'[k] = version[k] + 1 /\ indexer'[k] = version'[k]
    BY <1>1 DEF InformerUpdate, TypeOK
  <2>4. ASSUME NEW j \in Keys
        PROVE  /\ indexer'[j] \in {Absent, version'[j]}
               /\ view[j] <= version'[j]
               /\ version[j] <= version'[j]
               /\ version'[j] \in Nat
    BY <2>1, <2>2, <2>3 DEF VersionsInOrder
  <2>5. /\ view' = view /\ pc' = pc /\ key' = key /\ obj' = obj
    BY <1>1 DEF InformerUpdate, workerVars
  <2>6. pc = "update" => key \in Keys
    BY BusyKey DEF Busy
  <2>7. pc = "update" /\ obj # Absent => view[key] <= obj /\ obj <= version'[key]
    BY <2>1, <2>4, <2>6 DEF VersionsInOrder, TypeOK
  <2> QED BY <2>4, <2>5, <2>7 DEF VersionsInOrder
<1>2. CASE HandleEvent
  BY <1>2 DEF HandleEvent, workerVars, VersionsInOrder
<1>3. CASE ShutDown
  BY <1>3 DEF ShutDown, informerVars, workerVars, VersionsInOrder
<1>4. CASE Get
  BY <1>4 DEF Get, informerVars, VersionsInOrder
<1>5. CASE Quit
  BY <1>5 DEF Quit, informerVars, queueVars, VersionsInOrder
<1>6. CASE ReadIndexer
  <2>1. key \in Keys
    BY <1>6, BusyKey DEF ReadIndexer, Busy
  <2>2. version[key] \in Nat /\ view[key] \in Nat
    BY <2>1 DEF TypeOK
  <2> QED BY <1>6, <2>1, <2>2 DEF ReadIndexer, informerVars, queueVars, VersionsInOrder
<1>7. CASE AddItem
  <2>1. key \in Keys
    BY <1>7, BusyKey DEF AddItem, Busy
  <2>2. view' = [view EXCEPT ![key] = obj] /\ obj <= version[key]
    BY <1>7 DEF AddItem, VersionsInOrder
  <2>3. \A k \in Keys : view'[k] <= version[k]
    BY <2>1, <2>2 DEF TypeOK, VersionsInOrder
  <2> QED BY <1>7, <2>3 DEF AddItem, informerVars, VersionsInOrder
<1>8. CASE DelItem
  BY <1>8 DEF DelItem, informerVars, VersionsInOrder
<1>9. CASE Finish
  BY <1>9 DEF Finish, informerVars, VersionsInOrder
<1>10. CASE UNCHANGED vars
  BY <1>10 DEF vars, informerVars, workerVars, VersionsInOrder
<1> QED
  BY <1>1, <1>2, <1>3, <1>4, <1>5, <1>6, <1>7, <1>8, <1>9, <1>10
     DEF Next, Worker

\* The order of versions holds in every state.
LEMMA VersionCorrect == Spec => [](QueueInv /\ VersionsInOrder)
<1>1. Init => QueueInv /\ VersionsInOrder
  <2>1. Init => QueueInv
    BY QueueInit
  <2>2. Init => VersionsInOrder
    BY DEF Init, VersionsInOrder
  <2> QED BY <2>1, <2>2
<1>2. QueueInv /\ VersionsInOrder /\ [Next]_vars => (QueueInv /\ VersionsInOrder)'
  BY QueueStep, VersionStep
<1> QED BY <1>1, <1>2, PTL DEF Spec

\* The table never shows a version that the store has not had, and what the worker
\* has read and not applied yet is no older than what the table shows, however far
\* the store has moved on since.
THEOREM VersionsInOrderHolds == Spec => []VersionsInOrder
<1>1. QueueInv /\ VersionsInOrder => VersionsInOrder
  OBVIOUS
<1> QED BY <1>1, VersionCorrect, PTL

\* Only AddItem writes the table, and what it writes is not older.
LEMMA ViewGrows ==
  QueueInv /\ VersionsInOrder /\ [Next]_vars => \A k \in Keys : view'[k] >= view[k]
<1> SUFFICES ASSUME QueueInv, VersionsInOrder, [Next]_vars, NEW k \in Keys
             PROVE  view'[k] >= view[k]
  OBVIOUS
<1>1. view[k] \in Nat
  BY DEF QueueInv, TypeOK
<1>2. CASE AddItem
  <2>1. key \in Keys
    BY <1>2, BusyKey DEF AddItem, Busy
  <2>2. view[key] <= obj /\ obj \in Nat
    BY <1>2 DEF AddItem, VersionsInOrder, QueueInv, TypeOK
  <2> QED BY <1>1, <1>2, <2>1, <2>2 DEF AddItem, QueueInv, TypeOK
<1>3. CASE view' = view
  BY <1>1, <1>3
<1> QED
  BY <1>2, <1>3 DEF Next, Worker, vars, informerVars, InformerUpdate,
     HandleEvent, ShutDown, Get, Quit, ReadIndexer, DelItem, Finish

\* The table never goes back to an older version of any object.
THEOREM NeverBackwardsHolds == Spec => NeverBackwards
<1>1. QueueInv /\ VersionsInOrder /\ [Next]_vars
        => [\A k \in Keys : view'[k] >= view[k] \/ view'[k] = Absent]_vars
  BY ViewGrows
<1> QED BY <1>1, VersionCorrect, PTL DEF Spec, NeverBackwards

-----------------------------------------------------------------------------
(* Debts.  Applying what was read cannot undo a newer version, by the order *)
(* of versions: without it the invariant would not be inductive.            *)

\* Every step keeps the debts: a key whose version the table does not show is
\* owed, or about to be brought up to date, or the controller is stopping.
LEMMA NoLostUpdateStep ==
  QueueInv /\ VersionsInOrder /\ NoLostUpdate /\ [Next]_vars => NoLostUpdate'
<1> SUFFICES ASSUME QueueInv, VersionsInOrder, NoLostUpdate, [Next]_vars, NEW k \in Keys,
                    indexer'[k] # Absent, view'[k] # indexer'[k]
             PROVE  \/ k \in Owed'
                    \/ pc' = "update" /\ key' = k /\ obj' = indexer'[k]
                    \/ shuttingDown'
  BY DEF NoLostUpdate
<1> TypeOK
  BY DEF QueueInv
<1> DEFINE Due == indexer[k] # Absent /\ view[k] # indexer[k] =>
                    \/ k \in Owed
                    \/ pc = "update" /\ key = k /\ obj = indexer[k]
                    \/ shuttingDown
<1>0. Due
  BY DEF NoLostUpdate
<1>1. ASSUME NEW j \in Keys, InformerUpdate(j)
      PROVE  k \in Owed' \/ (pc' = "update" /\ key' = k /\ obj' = indexer'[k])
               \/ shuttingDown'
  <2>1. Range(events') = Range(events) \cup {j}
    BY <1>1, RangeOfAppend DEF InformerUpdate, TypeOK
  <2>2. /\ dirty' = dirty /\ pc' = pc /\ key' = key /\ obj' = obj /\ view' = view
        /\ shuttingDown' = shuttingDown
    BY <1>1 DEF InformerUpdate, queueVars, workerVars
  <2>3. CASE k = j
    BY <2>1, <2>3 DEF Owed
  <2>4. CASE k # j
    <3>1. indexer'[k] = indexer[k]
      BY <1>1, <2>4 DEF InformerUpdate, TypeOK
    <3> QED BY <1>0, <2>1, <2>2, <3>1 DEF Owed
  <2> QED BY <2>3, <2>4
<1>2. CASE HandleEvent
  <2>1. Range(events) = {Head(events)} \cup Range(events')
    BY <1>2, RangeOfTail DEF HandleEvent, TypeOK
  <2>2. shuttingDown \/ dirty' = dirty \cup {Head(events)}
    BY <1>2 DEF HandleEvent, Add
  <2> QED BY <1>0, <1>2, <2>1, <2>2 DEF HandleEvent, workerVars, Owed
<1>3. CASE ShutDown
  BY <1>3 DEF ShutDown
<1>4. CASE Get
  BY <1>0, <1>4 DEF Get, informerVars, Owed
<1>5. CASE Quit
  BY <1>5 DEF Quit, queueVars
<1>6. CASE ReadIndexer
  BY <1>0, <1>6 DEF ReadIndexer, informerVars, queueVars, Owed
<1>7. CASE AddItem
  <2>1. key \in Keys
    BY <1>7, BusyKey DEF AddItem, Busy
  <2>2. key = k => view'[k] = obj
    BY <1>7, <2>1 DEF AddItem, TypeOK
  <2>3. key # k => view'[k] = view[k]
    BY <1>7, <2>1 DEF AddItem, TypeOK
  <2>4. key = k /\ view[k] = indexer[k] /\ indexer[k] # Absent => obj = indexer[k]
    <3>1. pc = "update" /\ obj # Absent
      BY <1>7 DEF AddItem
    <3>2. /\ view[key] <= obj /\ obj <= version[key]
          /\ indexer[key] \in {Absent, version[key]}
      BY <2>1, <3>1 DEF VersionsInOrder
    <3>3. version[key] \in Nat /\ obj \in Nat
      BY <2>1 DEF TypeOK
    <3> QED BY <3>2, <3>3
  <2>5. indexer' = indexer /\ Owed' = Owed /\ shuttingDown' = shuttingDown
    BY <1>7 DEF AddItem, informerVars, queueVars, Owed
  <2>6. CASE key = k
    BY <1>0, <2>2, <2>4, <2>5, <2>6
  <2>7. CASE key # k
    BY <1>0, <2>3, <2>5, <2>7
  <2> QED BY <2>6, <2>7
<1>8. CASE DelItem
  BY <1>0, <1>8 DEF DelItem, informerVars, queueVars, Owed
<1>9. CASE Finish
  BY <1>0, <1>9 DEF Finish, informerVars, Owed
<1>10. CASE UNCHANGED vars
  BY <1>0, <1>10 DEF vars, informerVars, queueVars, workerVars, Owed
<1> QED
  BY <1>1, <1>2, <1>3, <1>4, <1>5, <1>6, <1>7, <1>8, <1>9, <1>10
     DEF Next, Worker

\* No interleaving of informer, handler and worker loses an update: a key whose
\* version the table does not show is still to be read, until a stop.
THEOREM NoUpdateIsLost == Spec => []NoLostUpdate
<1>1. Init => NoLostUpdate
  BY DEF Init, NoLostUpdate
<1>2. QueueInv /\ VersionsInOrder /\ NoLostUpdate /\ [Next]_vars => NoLostUpdate'
  BY NoLostUpdateStep
<1> QED BY <1>1, <1>2, VersionCorrect, PTL DEF Spec

-----------------------------------------------------------------------------
(* Refinement.                                                              *)

\* Every step of the processor is a step of Reconciler, or changes nothing that
\* Reconciler sees.
LEMMA RefinementStep == QueueInv /\ [Next]_vars => [R!Next]_(R!vars)
<1> SUFFICES ASSUME QueueInv, [Next]_vars
             PROVE  R!Next \/ UNCHANGED R!vars
  OBVIOUS
<1> TypeOK
  BY DEF QueueInv
<1> DEFINE Hold == IF pc = "update" THEN {[key |-> key, obj |-> obj]} ELSE {}
<1>1. ASSUME NEW k \in Keys, InformerUpdate(k)
      PROVE  R!Change(k)
  <2>1. Range(events') = Range(events) \cup {k}
    BY <1>1, RangeOfAppend DEF InformerUpdate, TypeOK
  <2>2. Owed' = Owed \cup {k}
    BY <1>1, <2>1 DEF InformerUpdate, queueVars, workerVars, Owed
  <2> QED BY <1>1, <2>2 DEF InformerUpdate, queueVars, workerVars, R!Change, R!Absent
<1>2. CASE HandleEvent
  <2>1. /\ Head(events) \in Keys
        /\ Range(events) = {Head(events)} \cup Range(events')
    BY <1>2, RangeOfTail DEF HandleEvent, TypeOK
  <2>2. CASE Owed' = Owed
    BY <1>2, <2>2 DEF HandleEvent, workerVars, R!vars
  <2>3. CASE Owed' # Owed
    <3>1. shuttingDown /\ dirty' = dirty
      BY <1>2, <2>1, <2>3 DEF HandleEvent, Add, workerVars, Owed
    <3>2. Owed' = Owed \ {Head(events)} /\ Head(events) \in Owed
      BY <1>2, <2>1, <2>3, <3>1 DEF HandleEvent, workerVars, Owed
    <3>3. R!Drop(Head(events))
      BY <1>2, <3>1, <3>2 DEF HandleEvent, workerVars, R!Drop
    <3> QED BY <2>1, <3>3 DEF R!Next
  <2> QED BY <2>2, <2>3
<1>3. CASE ShutDown
  BY <1>3 DEF ShutDown, informerVars, workerVars, Owed, R!Next, R!Close
<1>4. CASE Get
  <2>1. Head(queue) \in Range(queue)
    BY <1>4, RangeOfTail DEF Get, TypeOK
  <2>2. Head(queue) \in dirty
    BY <2>1 DEF QueueInv, QueueDisciplined
  <2>3. Owed' = Owed
    BY <1>4, <2>2 DEF Get, informerVars, Owed
  <2> QED BY <1>4, <2>3 DEF Get, informerVars, R!vars
<1>5. CASE Quit
  BY <1>5 DEF Quit, informerVars, queueVars, Owed, R!vars
<1>6. CASE ReadIndexer
  <2>1. key \in Keys
    BY <1>6, BusyKey DEF ReadIndexer, Busy
  <2>2. R!Read(key)
    BY <1>6 DEF ReadIndexer, informerVars, queueVars, Owed, R!Read
  <2> QED BY <2>1, <2>2 DEF R!Next
<1>7. CASE AddItem
  BY <1>7 DEF AddItem, informerVars, queueVars, Owed, R!Next, R!Apply, R!Absent
<1>8. CASE DelItem
  BY <1>8 DEF DelItem, informerVars, queueVars, Owed, R!Next, R!Apply, R!Absent
<1>9. CASE Finish
  BY <1>9 DEF Finish, informerVars, Owed, R!vars
<1>10. CASE UNCHANGED vars
  BY <1>10 DEF vars, informerVars, queueVars, workerVars, Owed, R!vars
<1> QED
  BY <1>1, <1>2, <1>3, <1>4, <1>5, <1>6, <1>7, <1>8, <1>9, <1>10
     DEF Next, Worker, R!Next

\* The processor implements the safety part of Reconciler.
THEOREM RefinesReconciler == Spec => R!Init /\ [][R!Next]_(R!vars)
<1>1. Init => R!Init
  <2>1. Init => Range(events) = {}
    BY DEF Init, Range
  <2> QED BY <2>1 DEF Init, Owed, R!Init, R!Absent
<1>2. QueueInv /\ [Next]_vars => [R!Next]_(R!vars)
  BY RefinementStep
<1>3. Spec => []QueueInv
  BY VersionCorrect, PTL
<1> QED BY <1>1, <1>2, <1>3, PTL DEF Spec

=============================================================================
