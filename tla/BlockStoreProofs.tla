-------------------------- MODULE BlockStoreProofs --------------------------
(***************************************************************************)
(* Safety of the block store of BlockStore.tla for all sets of keys,       *)
(* addresses and words and every bound on the queue.                       *)
(***************************************************************************)
EXTENDS BlockStore, TLAPS

(* The elements of a sequence under the three operations of the queue. *)

LEMMA RangeEmpty == Range(<<>>) = {}
  BY DEF Range

LEMMA RangeAppend ==
  ASSUME NEW S, NEW s \in Seq(S), NEW x \in S
  PROVE  Range(Append(s, x)) = Range(s) \cup {x}
<1> DEFINE t == Append(s, x)
<1>1. /\ Len(s) \in Nat
      /\ DOMAIN s = 1..Len(s)
      /\ DOMAIN t = 1..(Len(s) + 1)
      /\ t[Len(s) + 1] = x
      /\ \A i \in 1..Len(s) : t[i] = s[i]
  OBVIOUS
<1> HIDE DEF t
<1>2. ASSUME NEW y \in Range(t)
      PROVE  y \in Range(s) \cup {x}
  <2>1. PICK i \in DOMAIN t : y = t[i]
    BY <1>2, Zenon DEF Range
  <2>2. CASE i \in 1..Len(s)
    BY <1>1, <2>1, <2>2, Zenon DEF Range
  <2>3. CASE i = Len(s) + 1
    BY <1>1, <2>1, <2>3, Zenon
  <2> QED
    BY <1>1, <2>1, <2>2, <2>3
<1>3. ASSUME NEW y \in Range(s)
      PROVE  y \in Range(t)
  <2>1. PICK i \in DOMAIN s : y = s[i]
    BY <1>3, Zenon DEF Range
  <2>2. i \in DOMAIN t /\ y = t[i]
    BY <1>1, <2>1
  <2> QED
    BY <2>2, Zenon DEF Range
<1>4. x \in Range(t)
  <2>1. Len(s) + 1 \in DOMAIN t
    BY <1>1
  <2> QED
    BY <1>1, <2>1, Zenon DEF Range
<1> QED
  BY <1>2, <1>3, <1>4, Zenon DEF t

LEMMA RangeHeadTail ==
  ASSUME NEW S, NEW s \in Seq(S), s # <<>>
  PROVE  Range(s) = {Head(s)} \cup Range(Tail(s))
<1> DEFINE t == Tail(s)
<1>1. /\ Len(s) \in Nat \ {0}
      /\ DOMAIN s = 1..Len(s)
      /\ Head(s) = s[1]
      /\ DOMAIN t = 1..(Len(s) - 1)
      /\ \A i \in 1..(Len(s) - 1) : t[i] = s[i + 1]
  OBVIOUS
<1> HIDE DEF t
<1>2. ASSUME NEW y \in Range(s)
      PROVE  y \in {Head(s)} \cup Range(t)
  <2>1. PICK i \in DOMAIN s : y = s[i]
    BY <1>2, Zenon DEF Range
  <2>2. CASE i = 1
    BY <1>1, <2>1, <2>2, Zenon
  <2>3. CASE i # 1
    <3>1. i - 1 \in DOMAIN t /\ t[i - 1] = s[i]
      BY <1>1, <2>1, <2>3
    <3> QED
      BY <2>1, <3>1, Zenon DEF Range
  <2> QED
    BY <2>2, <2>3, Zenon
<1>3. ASSUME NEW y \in Range(t)
      PROVE  y \in Range(s)
  <2>1. PICK i \in DOMAIN t : y = t[i]
    BY <1>3, Zenon DEF Range
  <2>2. i + 1 \in DOMAIN s /\ s[i + 1] = t[i]
    BY <1>1, <2>1
  <2> QED
    BY <2>1, <2>2, Zenon DEF Range
<1>4. Head(s) \in Range(s)
  BY <1>1 DEF Range
<1> QED
  BY <1>2, <1>3, <1>4, Zenon DEF t

LEMMA HeadTailType ==
  ASSUME NEW S, NEW s \in Seq(S), s # <<>>
  PROVE  Head(s) \in S /\ Tail(s) \in Seq(S)
  OBVIOUS
-----------------------------------------------------------------------------
(* Type correctness, one step per action. *)

LEMMA MaybeKeyFacts == {} \in MaybeKey /\ \A k \in Keys : {k} \in MaybeKey
  BY Zenon DEF MaybeKey

LEMMA EmptyQueueType == <<>> \in Seq(Keys)
  OBVIOUS

LEMMA InitType == Init => TypeOK
  BY BlockStoreAssumptions, MaybeKeyFacts, EmptyQueueType
  DEF Init, TypeOK, StartWriter, IdleClient, NoAnswer, WriterPCs, ClientPCs

LEMMA NextType == TypeOK /\ [Next]_vars => TypeOK'
<1> SUFFICES ASSUME TypeOK, [Next]_vars
             PROVE  TypeOK'
  BY Zenon
<1> USE MaybeKeyFacts, EmptyQueueType DEF TypeOK, WriterPCs, ClientPCs
<1>1. ASSUME NEW k \in Keys, Put(k)
      PROVE  TypeOK'
  <2>1. live' \in SUBSET Keys /\ stored' \in SUBSET Keys /\ queue' \in Seq(Keys)
    <3>1. Append(queue, k) \in Seq(Keys)
      OBVIOUS
    <3>2. live \cup {k} \in SUBSET Keys /\ stored \cup {k} \in SUBSET Keys
      BY Zenon
    <3> QED
      BY <1>1, <3>1, <3>2, Zenon DEF Put, Push
  <2>2. writer' \in [pc : WriterPCs, key : MaybeKey]
    BY <1>1, Zenon DEF Put, Push, Signalled
  <2> QED
    BY <1>1, <2>1, <2>2, Zenon DEF Put
<1>2. ASSUME NEW k \in Keys, GetBegin(k)
      PROVE  TypeOK'
  BY <1>2, Zenon DEF GetBegin, FlushQueue
<1>3. ASSUME NEW k \in Keys, Free(k)
      PROVE  TypeOK'
  BY <1>3, Zenon DEF Free
<1>4. ASSUME NEW a \in Addrs, NEW w \in Words, PutAddr(a, w)
      PROVE  TypeOK'
  BY <1>4, Zenon DEF PutAddr
<1>5. CASE PutRemaining
  BY <1>5, HeadTailType DEF PutRemaining
<1>6. CASE GetEnd
  BY <1>6, Zenon DEF GetEnd, IdleClient
<1>7. CASE DestroyBegin
  BY <1>7, Zenon DEF DestroyBegin
<1>8. CASE DestroyFlush
  BY <1>8, Zenon DEF DestroyFlush, FlushQueue
<1>9. CASE Close
  BY <1>9, Zenon DEF Close
<1>10. CASE Exit
  BY <1>10, Zenon DEF Exit
<1>11. CASE Reopen
  BY <1>11, Zenon DEF Reopen, StartWriter, IdleClient, NoAnswer
<1>12. CASE WriterTest
  BY <1>12, Zenon DEF WriterTest
<1>13. CASE WriterPop
  <2>1. queue' \in Seq(Keys) /\ writer' \in [pc : WriterPCs, key : MaybeKey]
    <3>1. CASE queue # <<>>
      <4>1. Head(queue) \in Keys /\ Tail(queue) \in Seq(Keys)
        BY <3>1, HeadTailType, Zenon
      <4>2. writer' = [pc |-> "put", key |-> {Head(queue)}] /\ queue' = Tail(queue)
        BY <1>13, <3>1, Zenon DEF WriterPop
      <4>3. {Head(queue)} \in MaybeKey
        BY <4>1, Zenon
      <4> QED
        BY <4>1, <4>2, <4>3, Zenon
    <3>2. CASE queue = <<>>
      BY <1>13, <3>2, Zenon DEF WriterPop
    <3> QED
      BY <3>1, <3>2, Zenon
  <2> QED
    BY <1>13, <2>1, Zenon DEF WriterPop
<1>14. CASE SpuriousWakeup
  BY <1>14, Zenon DEF SpuriousWakeup
<1>15. CASE WriterPut
  <2>1. writer.key \subseteq Keys
    BY DEF MaybeKey
  <2>2. stored' \in SUBSET Keys
    BY <1>15, <2>1, Zenon DEF WriterPut
  <2> QED
    BY <1>15, <2>2, Zenon DEF WriterPut
<1>16. CASE UNCHANGED vars
  BY <1>16, Zenon DEF vars
<1> QED
  BY <1>1, <1>2, <1>3, <1>4, <1>5, <1>6, <1>7, <1>8, <1>9, <1>10, <1>11, <1>12,
     <1>13, <1>14, <1>15, <1>16, Zenon DEF Next

\* Every step of the store, of the client or of the write thread keeps the
\* state well typed.
THEOREM TypeCorrect == Spec => []TypeOK
<1> QED
  BY InitType, NextType, PTL DEF Spec
-----------------------------------------------------------------------------
(* The inductive invariant.  ControlInv ties the contents of the queue, of   *)
(* the flushed vector and of the writer's hand to the program counters; with *)
(* it every action moves a block only to where NoBlockLost looks for it.     *)

LEMMA InitInv == Init => IInv
  BY InitType, RangeEmpty
  DEF Init, IInv, ControlInv, NoBlockLost, NoLostWakeup, StartWriter, IdleClient

LEMMA NextInv == IInv /\ [Next]_vars => IInv'
<1> SUFFICES ASSUME IInv, [Next]_vars
             PROVE  IInv'
  BY Zenon
<1> USE DEF IInv
<1>0. TypeOK'
  BY NextType, Zenon
<1>1. ASSUME NEW k \in Keys, Put(k)
      PROVE  IInv'
  <2>1. ControlInv'
    <3>1. CASE async
      <4>1. writer.pc # "none" => writer'.pc # "none"
        BY <1>1, <3>1, Zenon DEF Put, Push, Signalled, TypeOK
      <4>2. writer'.pc # "put" <=> writer'.key = {}
        BY <1>1, <3>1, Zenon DEF Put, Push, Signalled, TypeOK, ControlInv
      <4>3. writer.pc # "none"
        BY <1>1, <3>1, Zenon DEF Put, ControlInv
      <4> QED
        BY <1>1, <3>1, <4>1, <4>2, <4>3, Zenon DEF ControlInv, Put
    <3>2. CASE ~async
      BY <1>1, <3>2, Zenon DEF ControlInv, Put
    <3> QED
      BY <3>1, <3>2, Zenon
  <2>2. NoBlockLost'
    <3>1. CASE async
      <4>0. queue' = Append(queue, k)
        BY <1>1, <3>1, Zenon DEF Put, Push
      <4>1. Range(queue') = Range(queue) \cup {k}
        BY <4>0, RangeAppend DEF TypeOK
      <4>2. writer'.key = writer.key
        BY <1>1, <3>1, Zenon DEF Put, Push, Signalled, TypeOK
      <4> QED
        BY <1>1, <3>1, <4>1, <4>2, Zenon DEF NoBlockLost, Pending, Put
    <3>2. CASE ~async
      BY <1>1, <3>2, Zenon DEF NoBlockLost, Pending, Put
    <3> QED
      BY <3>1, <3>2, Zenon
  <2>3. NoLostWakeup'
    BY <1>1, Zenon DEF NoLostWakeup, ControlInv, TypeOK, Put, Push, Signalled
  <2> QED
    BY <1>0, <2>1, <2>2, <2>3, Zenon
<1>2. ASSUME NEW k \in Keys, GetBegin(k)
      PROVE  IInv'
  <2>1. ControlInv'
    BY <1>2, Zenon DEF ControlInv, TypeOK, GetBegin, FlushQueue
  <2>2. NoBlockLost'
    BY <1>2, RangeEmpty, Zenon DEF NoBlockLost, Pending, ControlInv, TypeOK, GetBegin, FlushQueue
  <2>3. NoLostWakeup'
    BY <1>2, Zenon DEF NoLostWakeup, ControlInv, TypeOK, GetBegin, FlushQueue
  <2> QED
    BY <1>0, <2>1, <2>2, <2>3, Zenon
<1>3. ASSUME NEW k \in Keys, Free(k)
      PROVE  IInv'
  <2>1. ControlInv'
    BY <1>3, Zenon DEF ControlInv, TypeOK, Free
  <2>2. NoBlockLost'
    BY <1>3, RangeEmpty, Zenon DEF NoBlockLost, Pending, ControlInv, TypeOK, Free
  <2>3. NoLostWakeup'
    BY <1>3, Zenon DEF NoLostWakeup, ControlInv, TypeOK, Free
  <2> QED
    BY <1>0, <2>1, <2>2, <2>3, Zenon
<1>4. ASSUME NEW a \in Addrs, NEW w \in Words, PutAddr(a, w)
      PROVE  IInv'
  <2>1. ControlInv'
    BY <1>4, Zenon DEF ControlInv, TypeOK, PutAddr
  <2>2. NoBlockLost'
    BY <1>4, RangeEmpty, Zenon DEF NoBlockLost, Pending, ControlInv, TypeOK, PutAddr
  <2>3. NoLostWakeup'
    BY <1>4, Zenon DEF NoLostWakeup, ControlInv, TypeOK, PutAddr
  <2> QED
    BY <1>0, <2>1, <2>2, <2>3, Zenon
<1>5. CASE PutRemaining
  <2>1. ControlInv'
    BY <1>5, Zenon DEF ControlInv, TypeOK, PutRemaining
  <2>2. NoBlockLost'
    <3>1. Range(remaining) = {Head(remaining)} \cup Range(remaining')
      BY <1>5, RangeHeadTail, Zenon DEF PutRemaining, TypeOK
    <3> QED
      BY <1>5, <3>1, Zenon DEF NoBlockLost, Pending, PutRemaining
  <2>3. NoLostWakeup'
    BY <1>5, Zenon DEF NoLostWakeup, ControlInv, TypeOK, PutRemaining
  <2> QED
    BY <1>0, <2>1, <2>2, <2>3, Zenon
<1>6. CASE GetEnd
  <2>1. ControlInv'
    BY <1>6, Zenon DEF ControlInv, TypeOK, GetEnd, IdleClient
  <2>2. NoBlockLost'
    BY <1>6, RangeEmpty, Zenon DEF NoBlockLost, Pending, ControlInv, TypeOK, GetEnd, IdleClient
  <2>3. NoLostWakeup'
    BY <1>6, Zenon DEF NoLostWakeup, ControlInv, TypeOK, GetEnd, IdleClient
  <2> QED
    BY <1>0, <2>1, <2>2, <2>3, Zenon
<1>7. CASE DestroyBegin
  <2>1. ControlInv'
    BY <1>7, Zenon DEF ControlInv, TypeOK, DestroyBegin
  <2>2. NoBlockLost'
    BY <1>7, RangeEmpty, Zenon DEF NoBlockLost, Pending, ControlInv, TypeOK, DestroyBegin
  <2>3. NoLostWakeup'
    BY <1>7, Zenon DEF NoLostWakeup, ControlInv, TypeOK, DestroyBegin
  <2> QED
    BY <1>0, <2>1, <2>2, <2>3, Zenon
<1>8. CASE DestroyFlush
  <2>1. ControlInv'
    BY <1>8, Zenon DEF ControlInv, TypeOK, DestroyFlush, FlushQueue
  <2>2. NoBlockLost'
    BY <1>8, RangeEmpty, Zenon DEF NoBlockLost, Pending, ControlInv, TypeOK, DestroyFlush, FlushQueue
  <2>3. NoLostWakeup'
    BY <1>8, Zenon DEF NoLostWakeup, ControlInv, TypeOK, DestroyFlush, FlushQueue
  <2> QED
    BY <1>0, <2>1, <2>2, <2>3, Zenon
<1>9. CASE Close
  <2>1. ControlInv'
    BY <1>9, Zenon DEF ControlInv, TypeOK, Close
  <2>2. NoBlockLost'
    BY <1>9, RangeEmpty, Zenon DEF NoBlockLost, Pending, ControlInv, TypeOK, Close
  <2>3. NoLostWakeup'
    BY <1>9, Zenon DEF NoLostWakeup, ControlInv, TypeOK, Close
  <2> QED
    BY <1>0, <2>1, <2>2, <2>3, Zenon
<1>10. CASE Exit
  <2>1. ControlInv'
    BY <1>10, Zenon DEF ControlInv, TypeOK, Exit
  <2>2. NoBlockLost'
    BY <1>10, RangeEmpty, Zenon DEF NoBlockLost, Pending, ControlInv, TypeOK, Exit
  <2>3. NoLostWakeup'
    BY <1>10, Zenon DEF NoLostWakeup, ControlInv, TypeOK, Exit
  <2> QED
    BY <1>0, <2>1, <2>2, <2>3, Zenon
<1>11. CASE Reopen
  <2>1. ControlInv'
    BY <1>11, Zenon DEF ControlInv, TypeOK, Reopen, StartWriter, IdleClient
  <2>2. NoBlockLost'
    BY <1>11, RangeEmpty, Zenon DEF NoBlockLost, Pending, ControlInv, TypeOK, Reopen, StartWriter, IdleClient
  <2>3. NoLostWakeup'
    BY <1>11, Zenon DEF NoLostWakeup, ControlInv, TypeOK, Reopen, StartWriter, IdleClient
  <2> QED
    BY <1>0, <2>1, <2>2, <2>3, Zenon
<1>12. CASE WriterTest
  <2>1. ControlInv'
    BY <1>12, Zenon DEF ControlInv, TypeOK, WriterTest
  <2>2. NoBlockLost'
    BY <1>12, RangeEmpty, Zenon DEF NoBlockLost, Pending, ControlInv, TypeOK, WriterTest
  <2>3. NoLostWakeup'
    BY <1>12, Zenon DEF NoLostWakeup, ControlInv, TypeOK, WriterTest
  <2> QED
    BY <1>0, <2>1, <2>2, <2>3, Zenon
<1>13. CASE WriterPop
  <2>1. ControlInv'
    <3>1. CASE queue # <<>>
      <4>1. queue' = Tail(queue) /\ writer' = [pc |-> "put", key |-> {Head(queue)}]
        BY <1>13, <3>1, Zenon DEF WriterPop
      <4>2. writer'.pc = "put" /\ writer'.key # {}
        BY <4>1, Zenon
      <4> QED
        BY <1>13, <3>1, <4>2, Zenon DEF ControlInv, WriterPop
    <3>2. CASE queue = <<>>
      <4>1. writer'.pc = "wait" /\ writer'.key = writer.key /\ queue' = <<>>
        BY <1>13, <3>2, Zenon DEF WriterPop, TypeOK
      <4> QED
        BY <1>13, <4>1, Zenon DEF ControlInv, WriterPop
    <3> QED
      BY <3>1, <3>2, Zenon
  <2>2. NoBlockLost'
    <3>1. CASE queue # <<>>
      <4>1. Range(queue) = {Head(queue)} \cup Range(queue')
        BY <1>13, <3>1, RangeHeadTail, Zenon DEF WriterPop, TypeOK
      <4>2. writer.key = {} /\ writer'.key = {Head(queue)}
        BY <1>13, <3>1 DEF WriterPop, ControlInv
      <4> QED
        BY <1>13, <4>1, <4>2, Zenon DEF NoBlockLost, Pending, WriterPop
    <3>2. CASE queue = <<>>
      <4>1. writer'.key = writer.key /\ queue' = queue
        BY <1>13, <3>2, Zenon DEF WriterPop, TypeOK
      <4> QED
        BY <1>13, <4>1, Zenon DEF NoBlockLost, Pending, WriterPop
    <3> QED
      BY <3>1, <3>2, Zenon
  <2>3. NoLostWakeup'
    BY <1>13 DEF NoLostWakeup, ControlInv, TypeOK, WriterPop
  <2> QED
    BY <1>0, <2>1, <2>2, <2>3, Zenon
<1>14. CASE SpuriousWakeup
  <2>1. ControlInv'
    BY <1>14, Zenon DEF ControlInv, TypeOK, SpuriousWakeup
  <2>2. NoBlockLost'
    BY <1>14, RangeEmpty, Zenon DEF NoBlockLost, Pending, ControlInv, TypeOK, SpuriousWakeup
  <2>3. NoLostWakeup'
    BY <1>14, Zenon DEF NoLostWakeup, ControlInv, TypeOK, SpuriousWakeup
  <2> QED
    BY <1>0, <2>1, <2>2, <2>3, Zenon
<1>15. CASE WriterPut
  <2>1. ControlInv'
    BY <1>15, Zenon DEF ControlInv, TypeOK, WriterPut
  <2>2. NoBlockLost'
    BY <1>15, RangeEmpty, Zenon DEF NoBlockLost, Pending, ControlInv, TypeOK, WriterPut
  <2>3. NoLostWakeup'
    BY <1>15, Zenon DEF NoLostWakeup, ControlInv, TypeOK, WriterPut
  <2> QED
    BY <1>0, <2>1, <2>2, <2>3, Zenon
<1>16. CASE UNCHANGED vars
  BY <1>0, <1>16, Zenon DEF vars, ControlInv, NoBlockLost, Pending, NoLostWakeup
<1> QED
  BY <1>1, <1>2, <1>3, <1>4, <1>5, <1>6, <1>7, <1>8, <1>9, <1>10, <1>11, <1>12,
     <1>13, <1>14, <1>15, <1>16, Zenon DEF Next

LEMMA Invariance == Spec => []IInv
<1> QED
  BY InitInv, NextInv, PTL DEF Spec

\* A block that was put is never lost on its way to the database: the queue
\* operations and the writes that follow them pass it on without a gap.
THEOREM BlocksKept == Spec => []NoBlockLost
<1>1. IInv => NoBlockLost
  BY Zenon DEF IInv
<1> QED
  BY Invariance, <1>1, PTL

\* Push never leaves the write thread asleep on a non-empty queue.
THEOREM WakeupsKept == Spec => []NoLostWakeup
<1>1. IInv => NoLostWakeup
  BY Zenon DEF IInv
<1> QED
  BY Invariance, <1>1, PTL

\* When get reads the database, or the destructor closes it, only the block the
\* write thread has in its hand can be missing.
THEOREM FlushComplete == Spec => []OnlyInFlightMissing
<1>1. IInv => OnlyInFlightMissing
  BY RangeEmpty, Zenon DEF IInv, ControlInv, NoBlockLost, Pending, OnlyInFlightMissing
<1> QED
  BY Invariance, <1>1, PTL
-----------------------------------------------------------------------------
(* The refinement.  A block the client queues is pending; FlushQueue and Pop *)
(* move a pending block from one hand to another and are stutters; a write   *)
(* by either thread is the abstract Write.                                   *)

\* The initial state of either build is the empty write-behind store.
LEMMA InitRefines == Init => WB!Init
<1> SUFFICES ASSUME Init
             PROVE  WB!Init
  BY Zenon
<1>1. Pending = {}
  BY RangeEmpty, Zenon DEF Init, Pending, StartWriter
<1> QED
  BY <1>1, Zenon DEF Init, WB!Init, NoAnswer, WB!NoAnswer

\* A write of one pending block, which another hand may still hold.
LEMMA WriteRefines ==
  ASSUME opened, NEW k \in Keys,
         stored' = stored \cup {k},
         Pending = Pending' \cup {k},
         UNCHANGED <<answer, opened>>
  PROVE  WB!Write(k)
<1>1. Pending' = Pending \/ Pending' = Pending \ {k}
  BY Zenon
<1> QED
  BY <1>1, Zenon DEF WB!Write

LEMMA NextRefines == IInv /\ [Next]_vars => [WB!Next]_WB!vars
<1> SUFFICES ASSUME IInv, [Next]_vars
             PROVE  WB!Next \/ UNCHANGED WB!vars
  BY Zenon
<1> USE DEF IInv
<1>1. ASSUME NEW k \in Keys, Put(k)
      PROVE  WB!Next
  <2>0. opened
    BY <1>1, Zenon DEF Put, ControlInv
  <2>1. CASE async
    <3>1. queue' = Append(queue, k)
      BY <1>1, <2>1, Zenon DEF Put, Push
    <3>2. Range(queue') = Range(queue) \cup {k}
      BY <3>1, RangeAppend DEF TypeOK
    <3>3. writer'.key = writer.key
      BY <1>1, <2>1, Zenon DEF Put, Push, Signalled, TypeOK
    <3>4. Pending' = Pending \cup {k}
      BY <1>1, <3>2, <3>3, Zenon DEF Put, Pending
    <3>5. WB!Put(k)
      BY <1>1, <2>0, <2>1, <3>4, Zenon DEF Put, WB!Put
    <3> QED
      BY <3>5, Zenon DEF WB!Next
  <2>2. CASE ~async
    <3>1. Pending' = Pending
      BY <1>1, <2>2, Zenon DEF Put, Pending
    <3>2. WB!Write(k)
      BY <1>1, <2>0, <2>2, <3>1, Zenon DEF Put, WB!Write
    <3> QED
      BY <3>2, Zenon DEF WB!Next
  <2> QED
    BY <2>1, <2>2, Zenon
<1>2. ASSUME NEW k \in Keys, GetBegin(k)
      PROVE  UNCHANGED WB!vars
  <2>1. Pending' = Pending
    BY <1>2, RangeEmpty, Zenon DEF GetBegin, FlushQueue, Pending, ControlInv
  <2> QED
    BY <1>2, <2>1, Zenon DEF GetBegin, WB!vars
<1>3. ASSUME NEW k \in Keys, Free(k)
      PROVE  WB!Next
  <2>1. WB!Free(k)
    BY <1>3, Zenon DEF Free, WB!Free, Pending, ControlInv
  <2> QED
    BY <2>1, Zenon DEF WB!Next
<1>4. ASSUME NEW a \in Addrs, NEW w \in Words, PutAddr(a, w)
      PROVE  UNCHANGED WB!vars
  BY <1>4, Zenon DEF PutAddr, WB!vars, Pending
<1>5. CASE PutRemaining
  <2>1. /\ Range(remaining) = {Head(remaining)} \cup Range(remaining')
        /\ Head(remaining) \in Keys
    BY <1>5, RangeHeadTail, HeadTailType, Zenon DEF PutRemaining, TypeOK
  <2>2. Pending = Pending' \cup {Head(remaining)}
    BY <1>5, <2>1, Zenon DEF PutRemaining, Pending
  <2>3. WB!Write(Head(remaining))
    BY <1>5, <2>1, <2>2, WriteRefines, Zenon DEF PutRemaining, ControlInv
  <2> QED
    BY <2>1, <2>3, Zenon DEF WB!Next
<1>6. CASE GetEnd
  <2>1. PICK k \in Keys : client.key = {k}
    BY <1>6, Zenon DEF GetEnd, ControlInv, TypeOK, MaybeKey
  <2>2. WB!Get(k)
    BY <1>6, <2>1 DEF GetEnd, ControlInv, WB!Get, Pending
  <2> QED
    BY <2>2, Zenon DEF WB!Next
<1>7. CASE DestroyBegin
  BY <1>7, Zenon DEF DestroyBegin, WB!vars, Pending
<1>8. CASE DestroyFlush
  <2>1. Pending' = Pending
    BY <1>8, RangeEmpty, Zenon DEF DestroyFlush, FlushQueue, Pending, ControlInv
  <2> QED
    BY <1>8, <2>1, Zenon DEF DestroyFlush, WB!vars
<1>9. CASE Close
  <2>1. WB!Lose
    BY <1>9, Zenon DEF Close, WB!Lose, Pending
  <2> QED
    BY <2>1, Zenon DEF WB!Next
<1>10. CASE Exit
  <2>1. Pending' = {}
    BY <1>10, RangeEmpty, Zenon DEF Exit, Pending
  <2>2. WB!Lose
    BY <1>10, <2>1, Zenon DEF Exit, WB!Lose
  <2> QED
    BY <2>2, Zenon DEF WB!Next
<1>11. CASE Reopen
  <2>1. Pending' = Pending
    BY <1>11, Zenon DEF Reopen, Pending, ControlInv, StartWriter
  <2>2. WB!Open
    BY <1>11, <2>1, Zenon DEF Reopen, ControlInv, WB!Open, NoAnswer, WB!NoAnswer
  <2> QED
    BY <2>2, Zenon DEF WB!Next
<1>12. CASE WriterTest
  <2>1. writer'.key = writer.key
    BY <1>12, Zenon DEF WriterTest, TypeOK
  <2> QED
    BY <1>12, <2>1, Zenon DEF WriterTest, WB!vars, Pending
<1>13. CASE WriterPop
  <2>1. Pending' = Pending
    <3>1. CASE queue # <<>>
      <4>1. Range(queue) = {Head(queue)} \cup Range(queue')
        BY <1>13, <3>1, RangeHeadTail, Zenon DEF WriterPop, TypeOK
      <4>2. writer.key = {} /\ writer'.key = {Head(queue)}
        BY <1>13, <3>1 DEF WriterPop, ControlInv
      <4> QED
        BY <1>13, <4>1, <4>2, Zenon DEF Pending, WriterPop
    <3>2. CASE queue = <<>>
      <4>1. writer'.key = writer.key /\ queue' = queue
        BY <1>13, <3>2, Zenon DEF WriterPop, TypeOK
      <4> QED
        BY <1>13, <4>1, Zenon DEF Pending, WriterPop
    <3> QED
      BY <3>1, <3>2, Zenon
  <2> QED
    BY <1>13, <2>1, Zenon DEF WriterPop, WB!vars
<1>14. CASE SpuriousWakeup
  <2>1. writer'.key = writer.key
    BY <1>14, Zenon DEF SpuriousWakeup, TypeOK
  <2> QED
    BY <1>14, <2>1, Zenon DEF SpuriousWakeup, WB!vars, Pending
<1>15. CASE WriterPut
  <2>1. PICK k \in Keys : writer.key = {k}
    BY <1>15, Zenon DEF WriterPut, ControlInv, TypeOK, MaybeKey
  <2>2. Pending = Pending' \cup {k}
    BY <1>15, <2>1, Zenon DEF WriterPut, Pending
  <2>3. CASE opened
    <3>1. WB!Write(k)
      BY <1>15, <2>1, <2>2, <2>3, WriteRefines, Zenon DEF WriterPut
    <3> QED
      BY <3>1, Zenon DEF WB!Next
  <2>4. CASE ~opened
    <3>1. WB!Lose
      BY <1>15, <2>2, <2>4, Zenon DEF WriterPut, WB!Lose, TypeOK
    <3> QED
      BY <3>1, Zenon DEF WB!Next
  <2> QED
    BY <2>3, <2>4, Zenon
<1>16. CASE UNCHANGED vars
  BY <1>16, Zenon DEF vars, WB!vars, Pending
<1> QED
  BY <1>1, <1>2, <1>3, <1>4, <1>5, <1>6, <1>7, <1>8, <1>9, <1>10, <1>11, <1>12,
     <1>13, <1>14, <1>15, <1>16, Zenon DEF Next

\* Both builds of LevelDBBlockStore implement the write-behind store: put, get,
\* free, the destructor and the write thread change the durable and the pending
\* blocks, and answer, only as it allows, across the end of the process too.
THEOREM Refinement == Spec => ImplementsWriteBehind
<1> QED
  BY InitRefines, NextRefines, Invariance, PTL DEF Spec, ImplementsWriteBehind, WB!Spec
-----------------------------------------------------------------------------
\* In the build without the write thread get answers exactly by the puts and
\* the frees before it, those of earlier processes included.
THEOREM SyncGets == Spec => SyncGetReflectsPuts
<1>1. ASSUME IInv, [Next]_vars, ~async, client.pc = "get", client'.pc = "idle"
      PROVE  answer'.found <=> client.key \subseteq live
  <2>1. GetEnd
    BY <1>1
    DEF Next, vars, Put, GetBegin, Free, PutAddr, PutRemaining, DestroyBegin,
        DestroyFlush, Close, Exit, Reopen, WriterTest, WriterPop, SpuriousWakeup,
        WriterPut, IInv, TypeOK
  <2> QED
    BY <1>1, <2>1, Zenon DEF GetEnd, IInv, ControlInv
<1>2. IInv /\ [Next]_vars =>
        [(~async /\ client.pc = "get" /\ client'.pc = "idle")
           => (answer'.found <=> client.key \subseteq live)]_vars
  BY <1>1, Zenon
<1> QED
  BY <1>2, Invariance, PTL DEF Spec, SyncGetReflectsPuts
=============================================================================
