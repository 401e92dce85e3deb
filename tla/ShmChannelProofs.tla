-------------------------- MODULE ShmChannelProofs --------------------------
(***************************************************************************)
(* Theorems about ShmChannel, for any ring size, any sets of writers and   *)
(* readers, and any number of calls, opens and closes.                     *)
(***************************************************************************)
EXTENDS ShmChannel, SequenceTheorems, FiniteSetTheorems, TLAPS

\* A ticket's block is a block of the ring.
LEMMA TicketBlock ==
  ASSUME NEW k \in Int
  PROVE  k % BlockNum \in Blocks
BY BlockNumAssumption DEF Blocks

\* A writer inside write() is in one of its calls, which numbers its message.
CallNumbered == \A w \in Writers : pc[w] # "idle" => calls[w] \in 1 .. MaxWrites

\* Every action keeps the types, and a call in progress has its number.
LEMMA TypeStep ==
  ASSUME TypeOK, CallNumbered, [Next]_vars
  PROVE  TypeOK' /\ CallNumbered'
<1>. USE BlockNumAssumption, BlockSizeAssumption, SizesAssumption, ThreadsAssumption, BoundsAssumption
     DEF TypeOK, CallNumbered, Goto, Steer, Release, Threads, Modes, Mode,
         Places, Ticketed, Holding, shared, blocks, local, ends, hist
<1>1. ASSUME NEW t \in Threads, CheckUsed(t) PROVE TypeOK' /\ CallNumbered'
  BY <1>1 DEF CheckUsed
<1>2. ASSUME NEW t \in Threads, CheckOpened(t) PROVE TypeOK' /\ CallNumbered'
  BY <1>2 DEF CheckOpened
<1>3. ASSUME NEW t \in Threads, TakeTicket(t) PROVE TypeOK' /\ CallNumbered'
  <2>1. count[Mode(t)] \in Int
    OBVIOUS
  <2>2. count[Mode(t)] % BlockNum \in Blocks
    BY <2>1, TicketBlock
  <2>3. count' \in [Modes -> Int]
    BY <1>3, <2>1 DEF TakeTicket
  <2>. QED
    BY <1>3, <2>2, <2>3 DEF TakeTicket
<1>4. ASSUME NEW t \in Threads, Acquire(t) PROVE TypeOK' /\ CallNumbered'
  BY <1>4 DEF Acquire
<1>5. ASSUME NEW t \in Threads, Contend(t) PROVE TypeOK' /\ CallNumbered'
  BY <1>5 DEF Contend
<1>6. ASSUME NEW t \in Threads, Spin(t) PROVE TypeOK' /\ CallNumbered'
  BY <1>6 DEF Spin
<1>7. ASSUME NEW t \in Threads, RecheckUsed(t) PROVE TypeOK' /\ CallNumbered'
  BY <1>7 DEF RecheckUsed
<1>8. ASSUME NEW t \in Threads, Bail(t) PROVE TypeOK' /\ CallNumbered'
  BY <1>8 DEF Bail
<1>9. ASSUME NEW t \in Threads, CheckEnd(t) PROVE TypeOK' /\ CallNumbered'
  BY <1>9 DEF CheckEnd
<1>10. ASSUME NEW t \in Threads, CheckState(t) PROVE TypeOK' /\ CallNumbered'
  BY <1>10 DEF CheckState
<1>11. ASSUME NEW t \in Threads, Retry(t) PROVE TypeOK' /\ CallNumbered'
  BY <1>11 DEF Retry
<1>12. ASSUME NEW t \in Threads, Fail(t) PROVE TypeOK' /\ CallNumbered'
  <2>1. count' \in [Modes -> Int]
    BY <1>12 DEF Fail
  <2>. QED
    BY <1>12, <2>1 DEF Fail
<1>13. ASSUME NEW t \in Threads, Unlock(t) PROVE TypeOK' /\ CallNumbered'
  BY <1>13 DEF Unlock
<1>14. ASSUME NEW w \in Writers, WriteCall(w) PROVE TypeOK' /\ CallNumbered'
  <2>1. calls' \in [Writers -> 0 .. MaxWrites] /\ calls'[w] \in 1 .. MaxWrites
    BY <1>14 DEF WriteCall
  <2>. QED
    BY <1>14, <2>1 DEF WriteCall
<1>15. ASSUME NEW w \in Writers, Put(w) PROVE TypeOK' /\ CallNumbered'
  <2>1. <<w, calls[w]>> \in Message
    BY <1>15 DEF Put, Message
  <2>2. amount' \in [Blocks -> 0 .. BlockSize]
    <3>1. PICK n \in Sizes : amount' = [amount EXCEPT ![idx[w]] = Lesser(n, BlockSize)]
      BY <1>15 DEF Put
    <3>2. Lesser(n, BlockSize) \in 0 .. BlockSize
      BY <3>1 DEF Lesser
    <3>. QED
      BY <3>1, <3>2
  <2>3. idx[w] \in Blocks
    OBVIOUS
  <2>4. sent' \in Seq(Message)
    BY <1>15, <2>1 DEF Put
  <2>. QED
    BY <1>15, <2>1, <2>2, <2>3, <2>4 DEF Put
<1>16. ASSUME NEW r \in Readers, ReadCall(r) PROVE TypeOK' /\ CallNumbered'
  BY <1>16 DEF ReadCall
<1>17. ASSUME NEW r \in Readers, Take(r) PROVE TypeOK' /\ CallNumbered'
  <2>1. buf[idx[r]] \in Message \cup {NoMessage}
    OBVIOUS
  <2>2. received' \in Seq(Message \cup {NoMessage})
    BY <1>17, <2>1 DEF Take
  <2>3. idx[r] \in Blocks /\ amount[idx[r]] \in 0 .. BlockSize
    OBVIOUS
  <2>4. got' \in [of : Message \cup {NoMessage}, units : SUBSET (1 .. BlockSize)]
    BY <1>17, <2>1, <2>3 DEF Take, Copied
  <2>. QED
    BY <1>17, <2>2, <2>3, <2>4 DEF Take
<1>18. ASSUME NEW r \in Readers, TakePart(r) PROVE TypeOK' /\ CallNumbered'
  <2>1. PICK n \in ReadSizes : /\ amount[idx[r]] > n
                               /\ amount' = [amount EXCEPT ![idx[r]] = @ - n]
                               /\ got' = Copied(idx[r], n)
    BY <1>18 DEF TakePart
  <2>2. idx[r] \in Blocks /\ n \in Nat /\ amount[idx[r]] \in 0 .. BlockSize
    BY <2>1
  <2>3. amount[idx[r]] - n \in 0 .. BlockSize
    BY <2>1, <2>2
  <2>4. amount' \in [Blocks -> 0 .. BlockSize]
    BY <2>1, <2>2, <2>3
  <2>5. got' \in [of : Message \cup {NoMessage}, units : SUBSET (1 .. BlockSize)]
    BY <2>1, <2>2 DEF Copied
  <2>. QED
    BY <1>18, <2>4, <2>5 DEF TakePart
<1>19. ASSUME NEW r \in Readers, ReadAgain(r) PROVE TypeOK' /\ CallNumbered'
  <2>1. count' \in [Modes -> Int]
    BY <1>19 DEF ReadAgain
  <2>. QED
    BY <1>19, <2>1 DEF ReadAgain
<1>20. ASSUME NEW m \in Modes, OpenEnd(m) PROVE TypeOK' /\ CallNumbered'
  <2>1. opens' \in [Modes -> 0 .. MaxOpens]
    BY <1>20 DEF OpenEnd
  <2>. QED
    BY <1>20, <2>1 DEF OpenEnd
<1>21. ASSUME NEW m \in Modes, OpenUsed(m) PROVE TypeOK' /\ CallNumbered'
  BY <1>21 DEF OpenUsed
<1>22. ASSUME NEW m \in Modes, CloseEnd(m) PROVE TypeOK' /\ CallNumbered'
  BY <1>22 DEF CloseEnd
<1>23. ASSUME NEW m \in Modes, CheckBothClosed(m) PROVE TypeOK' /\ CallNumbered'
  BY <1>23 DEF CheckBothClosed
<1>24. ASSUME NEW m \in Modes, CloseUsed(m) PROVE TypeOK' /\ CallNumbered'
  BY <1>24 DEF CloseUsed
<1>25. CASE UNCHANGED vars
  BY <1>25 DEF vars
<1>. QED
  BY <1>1, <1>2, <1>3, <1>4, <1>5, <1>6, <1>7, <1>8, <1>9, <1>10, <1>11, <1>12, <1>13, <1>14, <1>15, <1>16, <1>17, <1>18, <1>19, <1>20, <1>21, <1>22, <1>23, <1>24, <1>25
     DEF Next, Write, Read, Control, Proceed, FinishControl

\* Who holds a lock took it when it was free, and only the holder frees it.
LEMMA MutexStep ==
  ASSUME TypeOK, MutualExclusion, [Next]_vars
  PROVE  MutualExclusion'
<1>. USE DEF TypeOK, MutualExclusion, Goto, Steer, Release, Threads,
             Places, Ticketed, Holding, shared, blocks, local, ends, hist
<1>1. ASSUME NEW t \in Threads, CheckUsed(t) PROVE MutualExclusion'
  BY <1>1 DEF CheckUsed
<1>2. ASSUME NEW t \in Threads, CheckOpened(t) PROVE MutualExclusion'
  BY <1>2 DEF CheckOpened
<1>3. ASSUME NEW t \in Threads, TakeTicket(t) PROVE MutualExclusion'
  BY <1>3 DEF TakeTicket
<1>4. ASSUME NEW t \in Threads, Acquire(t) PROVE MutualExclusion'
  BY <1>4 DEF Acquire
<1>5. ASSUME NEW t \in Threads, Contend(t) PROVE MutualExclusion'
  BY <1>5 DEF Contend
<1>6. ASSUME NEW t \in Threads, Spin(t) PROVE MutualExclusion'
  BY <1>6 DEF Spin
<1>7. ASSUME NEW t \in Threads, RecheckUsed(t) PROVE MutualExclusion'
  BY <1>7 DEF RecheckUsed
<1>8. ASSUME NEW t \in Threads, Bail(t) PROVE MutualExclusion'
  BY <1>8 DEF Bail
<1>9. ASSUME NEW t \in Threads, CheckEnd(t) PROVE MutualExclusion'
  BY <1>9 DEF CheckEnd
<1>10. ASSUME NEW t \in Threads, CheckState(t) PROVE MutualExclusion'
  BY <1>10 DEF CheckState
<1>11. ASSUME NEW t \in Threads, Retry(t) PROVE MutualExclusion'
  BY <1>11 DEF Retry
<1>12. ASSUME NEW t \in Threads, Fail(t) PROVE MutualExclusion'
  BY <1>12 DEF Fail
<1>13. ASSUME NEW t \in Threads, Unlock(t) PROVE MutualExclusion'
  BY <1>13 DEF Unlock
<1>14. ASSUME NEW w \in Writers, WriteCall(w) PROVE MutualExclusion'
  BY <1>14 DEF WriteCall
<1>15. ASSUME NEW w \in Writers, Put(w) PROVE MutualExclusion'
  BY <1>15 DEF Put
<1>16. ASSUME NEW r \in Readers, ReadCall(r) PROVE MutualExclusion'
  BY <1>16 DEF ReadCall
<1>17. ASSUME NEW r \in Readers, Take(r) PROVE MutualExclusion'
  BY <1>17 DEF Take
<1>18. ASSUME NEW r \in Readers, TakePart(r) PROVE MutualExclusion'
  BY <1>18 DEF TakePart
<1>19. ASSUME NEW r \in Readers, ReadAgain(r) PROVE MutualExclusion'
  BY <1>19 DEF ReadAgain
<1>20. ASSUME NEW m \in Modes, OpenEnd(m) PROVE MutualExclusion'
  BY <1>20 DEF OpenEnd
<1>21. ASSUME NEW m \in Modes, OpenUsed(m) PROVE MutualExclusion'
  BY <1>21 DEF OpenUsed
<1>22. ASSUME NEW m \in Modes, CloseEnd(m) PROVE MutualExclusion'
  BY <1>22 DEF CloseEnd
<1>23. ASSUME NEW m \in Modes, CheckBothClosed(m) PROVE MutualExclusion'
  BY <1>23 DEF CheckBothClosed
<1>24. ASSUME NEW m \in Modes, CloseUsed(m) PROVE MutualExclusion'
  BY <1>24 DEF CloseUsed
<1>25. CASE UNCHANGED vars
  BY <1>25 DEF vars
<1>. QED
  BY <1>1, <1>2, <1>3, <1>4, <1>5, <1>6, <1>7, <1>8, <1>9, <1>10, <1>11, <1>12, <1>13, <1>14, <1>15, <1>16, <1>17, <1>18, <1>19, <1>20, <1>21, <1>22, <1>23, <1>24, <1>25
     DEF Next, Write, Read, Control, Proceed, FinishControl

\* Between CheckState and the copy nobody else is at the block.
LEMMA ReadyStep ==
  ASSUME TypeOK, MutualExclusion, ReadyWhenCopied, [Next]_vars
  PROVE  ReadyWhenCopied'
<1>. USE DEF TypeOK, MutualExclusion, ReadyWhenCopied, Goto, Steer, Release, Threads,
             Places, Ticketed, Holding, shared, blocks, local, ends, hist
<1>1. ASSUME NEW t \in Threads, CheckUsed(t) PROVE ReadyWhenCopied'
  BY <1>1 DEF CheckUsed
<1>2. ASSUME NEW t \in Threads, CheckOpened(t) PROVE ReadyWhenCopied'
  BY <1>2 DEF CheckOpened
<1>3. ASSUME NEW t \in Threads, TakeTicket(t) PROVE ReadyWhenCopied'
  BY <1>3 DEF TakeTicket
<1>4. ASSUME NEW t \in Threads, Acquire(t) PROVE ReadyWhenCopied'
  BY <1>4 DEF Acquire
<1>5. ASSUME NEW t \in Threads, Contend(t) PROVE ReadyWhenCopied'
  BY <1>5 DEF Contend
<1>6. ASSUME NEW t \in Threads, Spin(t) PROVE ReadyWhenCopied'
  BY <1>6 DEF Spin
<1>7. ASSUME NEW t \in Threads, RecheckUsed(t) PROVE ReadyWhenCopied'
  BY <1>7 DEF RecheckUsed
<1>8. ASSUME NEW t \in Threads, Bail(t) PROVE ReadyWhenCopied'
  BY <1>8 DEF Bail
<1>9. ASSUME NEW t \in Threads, CheckEnd(t) PROVE ReadyWhenCopied'
  BY <1>9 DEF CheckEnd
<1>10. ASSUME NEW t \in Threads, CheckState(t) PROVE ReadyWhenCopied'
  BY <1>10 DEF CheckState
<1>11. ASSUME NEW t \in Threads, Retry(t) PROVE ReadyWhenCopied'
  BY <1>11 DEF Retry
<1>12. ASSUME NEW t \in Threads, Fail(t) PROVE ReadyWhenCopied'
  BY <1>12 DEF Fail
<1>13. ASSUME NEW t \in Threads, Unlock(t) PROVE ReadyWhenCopied'
  BY <1>13 DEF Unlock
<1>14. ASSUME NEW w \in Writers, WriteCall(w) PROVE ReadyWhenCopied'
  BY <1>14 DEF WriteCall
<1>15. ASSUME NEW w \in Writers, Put(w) PROVE ReadyWhenCopied'
  BY <1>15 DEF Put
<1>16. ASSUME NEW r \in Readers, ReadCall(r) PROVE ReadyWhenCopied'
  BY <1>16 DEF ReadCall
<1>17. ASSUME NEW r \in Readers, Take(r) PROVE ReadyWhenCopied'
  BY <1>17 DEF Take
<1>18. ASSUME NEW r \in Readers, TakePart(r) PROVE ReadyWhenCopied'
  BY <1>18 DEF TakePart
<1>19. ASSUME NEW r \in Readers, ReadAgain(r) PROVE ReadyWhenCopied'
  BY <1>19 DEF ReadAgain
<1>20. ASSUME NEW m \in Modes, OpenEnd(m) PROVE ReadyWhenCopied'
  BY <1>20 DEF OpenEnd
<1>21. ASSUME NEW m \in Modes, OpenUsed(m) PROVE ReadyWhenCopied'
  BY <1>21 DEF OpenUsed
<1>22. ASSUME NEW m \in Modes, CloseEnd(m) PROVE ReadyWhenCopied'
  BY <1>22 DEF CloseEnd
<1>23. ASSUME NEW m \in Modes, CheckBothClosed(m) PROVE ReadyWhenCopied'
  BY <1>23 DEF CheckBothClosed
<1>24. ASSUME NEW m \in Modes, CloseUsed(m) PROVE ReadyWhenCopied'
  BY <1>24 DEF CloseUsed
<1>25. CASE UNCHANGED vars
  BY <1>25 DEF vars
<1>. QED
  BY <1>1, <1>2, <1>3, <1>4, <1>5, <1>6, <1>7, <1>8, <1>9, <1>10, <1>11, <1>12, <1>13, <1>14, <1>15, <1>16, <1>17, <1>18, <1>19, <1>20, <1>21, <1>22, <1>23, <1>24, <1>25
     DEF Next, Write, Read, Control, Proceed, FinishControl
-----------------------------------------------------------------------------
\* The inductive invariant.  MutualExclusion alone is not inductive: it needs to know that the
\* lock word is 1 for a holder (in it) and which values pc and idx take (TypeOK).
IInv == TypeOK /\ CallNumbered /\ MutualExclusion /\ ReadyWhenCopied

\* A fresh channel: no lock is taken, nobody is inside a call.
LEMMA InitIInv == Init => IInv
<1>. SUFFICES ASSUME Init PROVE IInv
  OBVIOUS
<1>. USE DEF Init, Blocks, Places
<1>1. TypeOK
  <2>1. idx \in [Threads -> Blocks] /\ amount \in [Blocks -> 0 .. BlockSize]
    BY BlockNumAssumption, BlockSizeAssumption
  <2>2. calls \in [Writers -> 0 .. MaxWrites] /\ opens \in [Modes -> 0 .. MaxOpens]
    BY BoundsAssumption
  <2>3. /\ sent \in Seq(Message) /\ received \in Seq(Message \cup {NoMessage})
        /\ got \in [of : Message \cup {NoMessage}, units : SUBSET (1 .. BlockSize)]
    OBVIOUS
  <2>4. opened \in [Modes -> {0, 1}] /\ count \in [Modes -> Int]
    OBVIOUS
  <2>5. /\ lock \in [Blocks -> {0, 1}]
        /\ data_available \in [Blocks -> {0, 1}]
        /\ buf \in [Blocks -> Message \cup {NoMessage}]
    OBVIOUS
  <2>6. /\ pc \in [Threads -> Places]
        /\ ctl \in [Modes -> {"closed", "opening", "open", "closing", "unuse"}]
    OBVIOUS
  <2>. QED
    BY <2>1, <2>2, <2>3, <2>4, <2>5, <2>6 DEF TypeOK
<1>2. CallNumbered /\ MutualExclusion /\ ReadyWhenCopied
  BY DEF CallNumbered, MutualExclusion, ReadyWhenCopied, Threads, Holding
<1>. QED
  BY <1>1, <1>2 DEF IInv

\* The three step lemmas together.
LEMMA IInvStep == IInv /\ [Next]_vars => IInv'
BY TypeStep, MutexStep, ReadyStep DEF IInv

\* Types, mutual exclusion and readiness hold in every reachable state of the channel.
THEOREM Invariance == Spec => []IInv
BY InitIInv, IInvStep, PTL DEF Spec

\* Types: in particular the index of a block is one of the ring's and the
\* amount left in a block never exceeds BLOCK_SIZE nor falls below zero.
THEOREM TypeCorrect == Spec => []TypeOK
<1>1. IInv => TypeOK
  BY DEF IInv
<1>. QED
  BY Invariance, <1>1, PTL

\* No two threads, of whatever process, are ever between shm_block_lock and
\* shm_block_unblock at the same block.
THEOREM MutuallyExclusive == Spec => []MutualExclusion
<1>1. IInv => MutualExclusion
  BY DEF IInv
<1>. QED
  BY Invariance, <1>1, PTL

\* A copy into a block finds it empty and a copy out of a block finds it full.
THEOREM CopiesAreReady == Spec => []ReadyWhenCopied
<1>1. IInv => ReadyWhenCopied
  BY DEF IInv
<1>. QED
  BY Invariance, <1>1, PTL

\* Only the two copies touch the messages and their flags.
LEMMA QuietStep ==
  ASSUME [Next]_vars, ~ \E w \in Writers : Put(w), ~ \E r \in Readers : Take(r)
  PROVE  UNCHANGED <<buf, data_available, sent, received>>
BY DEF Next, Write, Read, Control, Proceed, FinishControl, vars, shared, blocks,
         local, ends, hist, CheckUsed, CheckOpened, TakeTicket, Acquire, Contend,
         Spin, RecheckUsed, Bail, CheckEnd, CheckState, Retry, Fail, Unlock,
         WriteCall, ReadCall, TakePart, ReadAgain,
         OpenEnd, OpenUsed, CloseEnd, CheckBothClosed, CloseUsed

\* ... and a copy of a part counts the units left and fills the reader's buffer.
LEMMA StillStep ==
  ASSUME [Next]_vars, ~ \E w \in Writers : Put(w),
         ~ \E r \in Readers : Take(r) \/ TakePart(r)
  PROVE  UNCHANGED <<amount, got>>
BY DEF Next, Write, Read, Control, Proceed, FinishControl, vars, shared, blocks,
         local, ends, hist, CheckUsed, CheckOpened, TakeTicket, Acquire, Contend,
         Spin, RecheckUsed, Bail, CheckEnd, CheckState, Retry, Fail, Unlock,
         WriteCall, ReadCall, ReadAgain,
         OpenEnd, OpenUsed, CloseEnd, CheckBothClosed, CloseUsed

\* write() never runs over a message that was not read.
THEOREM NoOverwrite == Spec => NeverOverwritten
<1>1. IInv /\ [Next]_vars => [\A b \in Full : buf'[b] = buf[b]]_vars
  <2>. SUFFICES ASSUME IInv, Next, NEW b \in Full
                PROVE  buf'[b] = buf[b]
    BY DEF IInv
  <2>. USE DEF IInv, TypeOK, Full, Threads, Blocks
  <2>1. ASSUME NEW w \in Writers, Put(w) PROVE buf'[b] = buf[b]
    <3>1. Awaited(w) = 0 /\ data_available[idx[w]] = 0
      BY <2>1, ThreadsAssumption DEF Put, Goto, ReadyWhenCopied, Awaited
    <3>. QED
      BY <2>1, <3>1 DEF Put
  <2>2. CASE ~ \E w \in Writers : Put(w)
    <3>1. CASE \E r \in Readers : Take(r)
      BY <3>1 DEF Take
    <3>. QED
      BY <2>2, <3>1, QuietStep
  <2>. QED
    BY <2>1, <2>2
<1>. QED
  BY Invariance, <1>1, PTL DEF Spec, NeverOverwritten

-----------------------------------------------------------------------------
\* What each controller has opened, and that the last one to close an end has
\* still to clear `used`.
EndsKnown ==
  /\ \A m \in Modes : opened[m] = 1 <=> ctl[m] \in {"opening", "open"}
  /\ ClosedIsUnused

\* Once both ends are closed the channel is unused.
THEOREM LeftUnused == Spec => []ClosedIsUnused
<1>1. Init => EndsKnown
  BY DEF Init, EndsKnown, ClosedIsUnused
<1>2. TypeOK /\ EndsKnown /\ [Next]_vars => EndsKnown'
  <2>. SUFFICES ASSUME TypeOK, EndsKnown, [Next]_vars PROVE EndsKnown'
    OBVIOUS
  <2>. USE DEF TypeOK, EndsKnown, ClosedIsUnused, Steer, Modes
  <2>1. ASSUME NEW m \in Modes, OpenEnd(m) PROVE EndsKnown'
    BY <2>1 DEF OpenEnd
  <2>2. ASSUME NEW m \in Modes, OpenUsed(m) PROVE EndsKnown'
    BY <2>2 DEF OpenUsed
  <2>3. ASSUME NEW m \in Modes, CloseEnd(m) PROVE EndsKnown'
    BY <2>3 DEF CloseEnd
  <2>4. ASSUME NEW m \in Modes, CheckBothClosed(m) PROVE EndsKnown'
    BY <2>4 DEF CheckBothClosed, shared
  <2>5. ASSUME NEW m \in Modes, CloseUsed(m) PROVE EndsKnown'
    BY <2>5 DEF CloseUsed
  <2>6. CASE UNCHANGED <<used, opened, ctl>>
    BY <2>6
  <2>. QED
    BY <2>1, <2>2, <2>3, <2>4, <2>5, <2>6
       DEF Next, Write, Read, Control, Proceed, FinishControl, vars, shared, ends,
           CheckUsed, CheckOpened, TakeTicket, Acquire, Contend, Spin, RecheckUsed,
           Bail, CheckEnd, CheckState, Retry, Fail, Unlock, WriteCall, ReadCall,
           Put, Take, TakePart, ReadAgain
<1>3. EndsKnown => ClosedIsUnused
  BY DEF EndsKnown
<1>. QED
  BY <1>1, <1>2, <1>3, TypeCorrect, PTL DEF Spec

-----------------------------------------------------------------------------
SentSet == {sent[i] : i \in DOMAIN sent}
ReceivedSet == {received[i] : i \in DOMAIN received}
HeldSet == {buf[b] : b \in Full}

\* A message that is yet to be put in a block was never put in one.
Fresh ==
  \A w \in Writers, k \in 1 .. MaxWrites :
    <<w, k>> \in SentSet =>
      k < calls[w] \/ (k = calls[w] /\ pc[w] \in {"idle", "unlock"})

\* Conservation, with what makes it inductive: no two blocks hold the same
\* message, and none was received twice.
Inventory ==
  /\ Len(sent) = Len(received) + Cardinality(Full)
  /\ ReceivedSet \cap HeldSet = {}
  /\ ReceivedSet \cup HeldSet = SentSet
  /\ \A a, b \in Full : buf[a] = buf[b] => a = b
  /\ \A i, j \in 1 .. Len(received) : received[i] = received[j] => i = j

\* The ring is finite, and the histories are sequences.
LEMMA Ring ==
  ASSUME TypeOK
  PROVE  /\ IsFiniteSet(Full) /\ Cardinality(Full) \in Nat
         /\ Len(sent) \in Nat /\ DOMAIN sent = 1 .. Len(sent)
         /\ Len(received) \in Nat /\ DOMAIN received = 1 .. Len(received)
<1>1. IsFiniteSet(Blocks)
  BY BlockNumAssumption, FS_Interval DEF Blocks
<1>2. IsFiniteSet(Full) /\ Cardinality(Full) \in Nat
  BY <1>1, FS_Subset, FS_CardinalityType DEF Full
<1>3. sent \in Seq(Message) /\ received \in Seq(Message \cup {NoMessage})
  BY DEF TypeOK
<1>. QED
  BY <1>2, <1>3, LenProperties

LEMMA InventoryImpliesConservation ==
  ASSUME TypeOK, Inventory
  PROVE  Conservation
<1>. USE Ring
<1>1. Cardinality(HeldSet) = Cardinality(Full)
  <2>. DEFINE f == [b \in Full |-> buf[b]]
  <2>1. f \in [Full -> HeldSet]
    BY DEF HeldSet
  <2>2. \A a, b \in Full : f[a] = f[b] => a = b
    BY DEF Inventory
  <2>3. \A m \in HeldSet : \E b \in Full : f[b] = m
    BY DEF HeldSet
  <2>4. f \in Bijection(Full, HeldSet)
    BY <2>1, <2>2, <2>3 DEF Bijection, Injection, Surjection, IsInjective
  <2>. QED
    BY <2>4, FS_Bijection DEF ExistsBijection
<1>2. Cardinality(ReceivedSet) = Len(received)
  <2>. DEFINE D == 1 .. Len(received)
              g == [i \in D |-> received[i]]
  <2>1. g \in [D -> ReceivedSet]
    BY DEF ReceivedSet
  <2>2. \A i, j \in D : g[i] = g[j] => i = j
    BY DEF Inventory
  <2>3. \A m \in ReceivedSet : \E i \in D : g[i] = m
    BY DEF ReceivedSet
  <2>4. g \in Bijection(D, ReceivedSet)
    BY <2>1, <2>2, <2>3 DEF Bijection, Injection, Surjection, IsInjective
  <2>5. Len(received) \in Int /\ 1 \in Int
    OBVIOUS
  <2>6. IsFiniteSet(D) /\ Cardinality(D) = IF 1 > Len(received) THEN 0 ELSE Len(received) - 1 + 1
    BY <2>5, FS_Interval
  <2>7. Cardinality(D) = Len(received)
    BY <2>6
  <2>. QED
    BY <2>4, <2>6, <2>7, FS_Bijection DEF ExistsBijection
<1>. QED
  BY <1>1, <1>2 DEF Inventory, Conservation, SentSet, ReceivedSet, HeldSet

\* Put: a fresh message goes into an empty block.
LEMMA PutStep ==
  ASSUME IInv, Fresh, Inventory, NEW w \in Writers, Put(w)
  PROVE  Fresh' /\ Inventory'
<1>. DEFINE b == idx[w]
            m == <<w, calls[w]>>
<1>. USE Ring DEF IInv
<1>1. /\ b \in Blocks /\ b \notin Full
      /\ m \in Message /\ m \notin SentSet
  <2>1. b \in Blocks /\ data_available[b] = 0
    BY ThreadsAssumption DEF Put, Goto, ReadyWhenCopied, Awaited, TypeOK, Threads
  <2>2. calls[w] \in 1 .. MaxWrites /\ pc[w] = "copy"
    BY DEF Put, Goto, CallNumbered
  <2>. QED
    BY <2>1, <2>2 DEF Full, Message, Fresh
<1>2. /\ Full' = Full \cup {b}
      /\ buf' = [buf EXCEPT ![b] = m]
      /\ sent' = Append(sent, m) /\ received' = received
  BY <1>1 DEF Put, Full, TypeOK
<1>3. SentSet' = SentSet \cup {m} /\ Len(sent') = Len(sent) + 1
  <2>1. sent \in Seq(Message)
    BY DEF TypeOK
  <2>2. /\ Len(sent') = Len(sent) + 1 /\ DOMAIN sent' = 1 .. Len(sent) + 1
        /\ \A i \in 1 .. Len(sent) : sent'[i] = sent[i]
        /\ sent'[Len(sent) + 1] = m
    BY <1>1, <1>2, <2>1, AppendProperties, LenProperties
  <2>3. SentSet' = {sent'[i] : i \in DOMAIN sent'}
    BY DEF SentSet
  <2>4. SentSet' \subseteq SentSet \cup {m}
    <3>. SUFFICES ASSUME NEW i \in DOMAIN sent' PROVE sent'[i] \in SentSet \cup {m}
      BY <2>3
    <3>1. CASE i = Len(sent) + 1
      BY <2>2, <3>1
    <3>2. CASE i \in 1 .. Len(sent)
      BY <2>2, <3>2 DEF SentSet
    <3>. QED
      BY <2>2, <3>1, <3>2
  <2>5. SentSet \subseteq SentSet'
    BY <2>2, <2>3 DEF SentSet
  <2>6. m \in SentSet'
    BY <2>2, <2>3
  <2>. QED
    BY <2>2, <2>4, <2>5, <2>6
<1>4. /\ HeldSet' = HeldSet \cup {m}
      /\ \A a \in Full : buf'[a] = buf[a]
      /\ buf'[b] = m
  BY <1>1, <1>2 DEF HeldSet, TypeOK, Full
<1>5. Cardinality(Full') = Cardinality(Full) + 1
  BY <1>1, <1>2, FS_AddElement
<1>6. ReceivedSet' = ReceivedSet
  BY <1>2 DEF ReceivedSet
<1>7. m \notin ReceivedSet /\ m \notin HeldSet
  BY <1>1 DEF Inventory
<1>8. \A a \in Full : buf[a] \in HeldSet
  BY DEF HeldSet
<1>9. Inventory'
  <2>1. Len(sent') = Len(received') + Cardinality(Full')
    BY <1>2, <1>3, <1>5 DEF Inventory
  <2>2. (ReceivedSet \cap HeldSet = {})' /\ (ReceivedSet \cup HeldSet = SentSet)'
    <3>1. /\ SentSet' = SentSet \cup {m} /\ HeldSet' = HeldSet \cup {m}
          /\ ReceivedSet' = ReceivedSet /\ m \notin ReceivedSet
      BY <1>3, <1>4, <1>6, <1>7
    <3>2. ReceivedSet \cap HeldSet = {} /\ ReceivedSet \cup HeldSet = SentSet
      BY DEF Inventory
    <3>3. ReceivedSet \cap (HeldSet \cup {m}) = {}
      BY <3>1, <3>2
    <3>4. ReceivedSet \cup (HeldSet \cup {m}) = SentSet \cup {m}
      BY <3>2
    <3>. QED
      BY <3>1, <3>3, <3>4
  <2>3. ASSUME NEW a \in Full', NEW c \in Full', buf'[a] = buf'[c] PROVE a = c
    <3>1. CASE a = b \/ c = b
      BY <2>3, <3>1, <1>2, <1>4, <1>7, <1>8
    <3>2. CASE a # b /\ c # b
      BY <2>3, <3>2, <1>2, <1>4 DEF Inventory
    <3>. QED
      BY <3>1, <3>2
  <2>. QED
    BY <1>2, <2>1, <2>2, <2>3 DEF Inventory
<1>10. Fresh'
  BY <1>1, <1>3 DEF Fresh, Put, Goto, TypeOK, Threads, local
<1>. QED
  BY <1>9, <1>10

\* Take: a full block is emptied.
LEMMA TakeStep ==
  ASSUME IInv, Fresh, Inventory, NEW r \in Readers, Take(r)
  PROVE  Fresh' /\ Inventory'
<1>. DEFINE b == idx[r]
            m == buf[b]
<1>. USE Ring DEF IInv
<1>1. b \in Full /\ b \in Blocks
  BY DEF Take, Goto, ReadyWhenCopied, Awaited, TypeOK, Threads, Full
<1>2. /\ Full' = Full \ {b}
      /\ buf' = buf /\ sent' = sent
      /\ received' = Append(received, m)
  BY <1>1 DEF Take, Full, TypeOK
<1>3. /\ Len(received') = Len(received) + 1
      /\ DOMAIN received' = 1 .. Len(received) + 1
      /\ \A i \in 1 .. Len(received) : received'[i] = received[i]
      /\ received'[Len(received) + 1] = m
  <2>1. received \in Seq(Message \cup {NoMessage}) /\ m \in Message \cup {NoMessage}
    BY <1>1 DEF TypeOK
  <2>. QED
    BY <1>2, <2>1, AppendProperties, LenProperties
<1>4. ReceivedSet' = ReceivedSet \cup {m}
  BY <1>3 DEF ReceivedSet
<1>5. HeldSet' = HeldSet \ {m} /\ m \in HeldSet
  BY <1>1, <1>2 DEF HeldSet, Inventory
<1>6. Cardinality(Full') = Cardinality(Full) - 1
  BY <1>1, <1>2, FS_RemoveElement
<1>7. SentSet' = SentSet
  BY <1>2 DEF SentSet
<1>8. m \notin ReceivedSet /\ \A i \in 1 .. Len(received) : received[i] \in ReceivedSet
  BY <1>5 DEF Inventory, ReceivedSet
<1>9. Inventory'
  <2>1. Len(sent') = Len(received') + Cardinality(Full')
    BY <1>2, <1>3, <1>6 DEF Inventory
  <2>2. (ReceivedSet \cap HeldSet = {})' /\ (ReceivedSet \cup HeldSet = SentSet)'
    BY <1>4, <1>5, <1>7 DEF Inventory
  <2>3. \A i, j \in 1 .. Len(received') : received'[i] = received'[j] => i = j
    BY <1>3, <1>8 DEF Inventory
  <2>. QED
    BY <1>2, <2>1, <2>2, <2>3 DEF Inventory
<1>10. Fresh'
  BY <1>7, ThreadsAssumption DEF Fresh, Take, Goto, TypeOK, Threads
<1>. QED
  BY <1>9, <1>10

\* A fresh channel has nothing in it.
LEMMA InventoryInit == Init => Fresh /\ Inventory
<1>. SUFFICES ASSUME Init PROVE Fresh /\ Inventory
  OBVIOUS
<1>1. Full = {} /\ sent = <<>> /\ received = <<>>
  BY DEF Init, Full
<1>2. Len(sent) = 0 /\ Len(received) = 0 /\ SentSet = {} /\ ReceivedSet = {} /\ HeldSet = {}
  BY <1>1 DEF SentSet, ReceivedSet, HeldSet
<1>. QED
  BY <1>1, <1>2, FS_EmptySet DEF Fresh, Inventory

\* Every step keeps the inventory.
LEMMA InventoryStep ==
  ASSUME IInv, Fresh, Inventory, [Next]_vars
  PROVE  Fresh' /\ Inventory'
<1>1. CASE \E w \in Writers : Put(w)
  BY <1>1, PutStep
<1>2. CASE \E r \in Readers : Take(r)
  BY <1>2, TakeStep
<1>3. CASE ~(\E w \in Writers : Put(w)) /\ ~(\E r \in Readers : Take(r))
  <2>1. UNCHANGED <<buf, data_available, sent, received>>
    BY <1>3, QuietStep
  <2>2. ASSUME NEW w \in Writers
        PROVE  \/ calls'[w] = calls[w] /\ (pc[w] \in {"idle", "unlock"} => pc'[w] \in {"idle", "unlock"})
               \/ calls'[w] = calls[w] + 1
    <3>. USE DEF IInv, TypeOK, Threads
    <3>1. CASE WriteCall(w)
      BY <3>1 DEF WriteCall
    <3>2. CASE calls' = calls /\ (pc[w] \in {"idle", "unlock"} => pc'[w] \in {"idle", "unlock"})
      BY <3>2
    <3>3. ASSUME NEW x \in Writers, WriteCall(x), x # w
          PROVE  calls'[w] = calls[w] /\ pc'[w] = pc[w]
      BY <3>3 DEF WriteCall, Goto
    <3>4. ASSUME NEW t \in Threads, Proceed(t)
          PROVE  calls' = calls /\ (pc[w] \in {"idle", "unlock"} => pc'[w] \in {"idle", "unlock"})
      BY <3>4 DEF Proceed, Goto, local, CheckUsed, CheckOpened, TakeTicket, Acquire,
           Contend, Spin, RecheckUsed, Bail, CheckEnd, CheckState, Retry, Fail, Unlock
    <3>5. ASSUME NEW r \in Readers, ReadCall(r) \/ TakePart(r) \/ ReadAgain(r)
          PROVE  calls' = calls /\ pc'[w] = pc[w]
      BY <3>5, ThreadsAssumption DEF Goto, ReadCall, TakePart, ReadAgain
    <3>6. ASSUME NEW m \in Modes, Control(m)
          PROVE  calls' = calls /\ pc' = pc
      BY <3>6 DEF Control, FinishControl, local, OpenEnd, OpenUsed, CloseEnd,
           CheckBothClosed, CloseUsed
    <3>7. UNCHANGED vars => calls' = calls /\ pc' = pc
      BY DEF vars, local
    <3>. QED
      BY <1>3, <3>1, <3>2, <3>3, <3>4, <3>5, <3>6, <3>7 DEF Next, Write, Read
  <2>3. /\ Full' = Full /\ HeldSet' = HeldSet
        /\ SentSet' = SentSet /\ ReceivedSet' = ReceivedSet
    BY <2>1 DEF Full, HeldSet, SentSet, ReceivedSet
  <2>4. Inventory'
    BY <2>1, <2>3 DEF Inventory
  <2>5. Fresh'
    <3>. SUFFICES ASSUME NEW w \in Writers, NEW k \in 1 .. MaxWrites, <<w, k>> \in SentSet
                  PROVE  k < calls'[w] \/ (k = calls'[w] /\ pc'[w] \in {"idle", "unlock"})
      BY <2>3 DEF Fresh
    <3>1. k < calls[w] \/ (k = calls[w] /\ pc[w] \in {"idle", "unlock"})
      BY DEF Fresh
    <3>2. calls[w] \in Nat /\ k \in Nat
      BY DEF IInv, TypeOK
    <3>. QED
      BY <2>2, <3>1, <3>2
  <2>. QED
    BY <2>4, <2>5
<1>. QED
  BY <1>1, <1>2, <1>3

\* What is put in a block is in exactly one block or was read exactly once.
THEOREM Conserved == Spec => []Conservation
<1>1. Init => Fresh /\ Inventory
  BY InventoryInit
<1>2. IInv /\ Fresh /\ Inventory /\ [Next]_vars => Fresh' /\ Inventory'
  BY InventoryStep
<1>3. IInv /\ Inventory => Conservation
  BY InventoryImpliesConservation DEF IInv
<1>. QED
  BY <1>1, <1>2, <1>3, Invariance, PTL DEF Spec
-----------------------------------------------------------------------------
\* One thread writes and one reads, as in each channel of the program.
OneEach == (\E w : Writers = {w}) /\ (\E r : Readers = {r})

LEMMA Both ==
  ASSUME OneEach
  PROVE  /\ Writers = {Writer} /\ Readers = {Reader} /\ Writer # Reader
         /\ Threads = {Writer, Reader}
         /\ Mode(Writer) = "CHANNEL_WRITE" /\ Mode(Reader) = "CHANNEL_READ"
<1>1. Writer \in Writers /\ Reader \in Readers
  BY DEF OneEach, Writer, Reader
<1>. QED
  BY <1>1, ThreadsAssumption DEF OneEach, Threads, Mode

\* Division with remainder by the size of the ring.
LEMMA Division ==
  ASSUME NEW i \in Int
  PROVE  /\ i \div BlockNum \in Int /\ i % BlockNum \in 0 .. BlockNum - 1
         /\ i = BlockNum * (i \div BlockNum) + (i % BlockNum)
BY BlockNumAssumption

LEMMA NoMultiple ==
  ASSUME NEW q \in Int, - BlockNum < BlockNum * q, BlockNum * q < BlockNum
  PROVE  q = 0
<1>1. CASE q >= 1
  BY <1>1, BlockNumAssumption
<1>2. CASE q <= -1
  BY <1>2, BlockNumAssumption
<1>. QED
  BY <1>1, <1>2

\* Positions less than a ring apart have different blocks ...
LEMMA Apart ==
  ASSUME NEW i \in Int, NEW j \in Int, i <= j, j - i < BlockNum, i % BlockNum = j % BlockNum
  PROVE  i = j
<1>. DEFINE q == (j \div BlockNum) - (i \div BlockNum)
<1>1. q \in Int /\ j - i = BlockNum * q
  <2>1. /\ i \div BlockNum \in Int /\ i % BlockNum \in Int
        /\ i = BlockNum * (i \div BlockNum) + (i % BlockNum)
    BY Division, BlockNumAssumption
  <2>2. /\ j \div BlockNum \in Int
        /\ j = BlockNum * (j \div BlockNum) + (i % BlockNum)
    BY Division
  <2>. QED
    BY <2>1, <2>2, BlockNumAssumption
<1>2. q = 0
  BY <1>1, NoMultiple, BlockNumAssumption
<1>. QED
  BY <1>1, <1>2, BlockNumAssumption

\* ... and positions a ring apart have the same.
LEMMA SameRest ==
  ASSUME NEW i \in Int, NEW a \in Int, NEW b \in Int,
         NEW r \in 0 .. BlockNum - 1, NEW s \in 0 .. BlockNum - 1,
         i = BlockNum * a + r, i + BlockNum = BlockNum * b + s
  PROVE  s = r
<1>1. BlockNum \in Int /\ BlockNum * a \in Int /\ BlockNum * b \in Int
  BY BlockNumAssumption
<1>2. BlockNum * a + BlockNum - BlockNum * b = s - r
  BY <1>1
<1>3. a + 1 - b \in Int /\ BlockNum * (a + 1 - b) = BlockNum * a + BlockNum - BlockNum * b
  BY BlockNumAssumption
<1>4. - BlockNum < s - r /\ s - r < BlockNum
  BY <1>1
<1>5. a + 1 - b = 0
  BY <1>2, <1>3, <1>4, NoMultiple
<1>6. s - r = 0
  BY <1>2, <1>3, <1>5, BlockNumAssumption
<1>. QED
  BY <1>1, <1>6

LEMMA Around ==
  ASSUME NEW i \in Int
  PROVE  (i + BlockNum) % BlockNum = i % BlockNum
<1>1. i + BlockNum \in Int
  BY BlockNumAssumption
<1>2. /\ i \div BlockNum \in Int /\ i % BlockNum \in 0 .. BlockNum - 1
      /\ i = BlockNum * (i \div BlockNum) + (i % BlockNum)
  BY Division
<1>3. /\ (i + BlockNum) \div BlockNum \in Int /\ (i + BlockNum) % BlockNum \in 0 .. BlockNum - 1
      /\ i + BlockNum = BlockNum * ((i + BlockNum) \div BlockNum) + ((i + BlockNum) % BlockNum)
  BY <1>1, Division
<1>. QED
  BY <1>2, <1>3, SameRest

\* The block of the i-th message that is in the ring.
At(i) == (Len(received) + i - 1) % BlockNum

\* Each thread's ticket is its position in the history, and the full blocks are
\* those of the positions between the reader and the writer.
Tickets ==
  /\ count["CHANNEL_WRITE"] - Pending(Writer) = Len(sent)
  /\ count["CHANNEL_READ"] - Pending(Reader) = Len(received)
  /\ pc[Writer] \in Ticketed => idx[Writer] = Len(sent) % BlockNum
  /\ pc[Reader] \in Ticketed => idx[Reader] = Len(received) % BlockNum

Between ==
  /\ Len(sent) - Len(received) <= BlockNum
  /\ Full = {At(i) : i \in 1 .. Len(sent) - Len(received)}

\* A writer's step is the Writer's, a reader's the Reader's.
LEMMA TicketStep ==
  ASSUME OneEach, IInv, Tickets, [Next]_vars
  PROVE  Tickets'
<1>. USE Both, BlockNumAssumption
     DEF IInv, TypeOK, Tickets, Goto, Modes, Places, Pending, Ticketed, Holding, hist, shared
<1>1. ASSUME NEW t \in Threads, CheckUsed(t) PROVE Tickets'
  BY <1>1 DEF CheckUsed
<1>2. ASSUME NEW t \in Threads, CheckOpened(t) PROVE Tickets'
  BY <1>2 DEF CheckOpened
<1>3. ASSUME NEW t \in Threads, TakeTicket(t) PROVE Tickets'
  <2>1. /\ count' = [count EXCEPT ![Mode(t)] = @ + 1]
        /\ idx' = [idx EXCEPT ![t] = count[Mode(t)] % BlockNum]
        /\ pc[t] = "ticket" /\ pc' = [pc EXCEPT ![t] = "lock"]
        /\ UNCHANGED <<sent, received>>
    BY <1>3 DEF TakeTicket
  <2>2. CASE t = Writer
    BY <2>1, <2>2
  <2>3. CASE t = Reader
    BY <2>1, <2>3
  <2>. QED
    BY <2>2, <2>3
<1>4. ASSUME NEW t \in Threads, Acquire(t) PROVE Tickets'
  BY <1>4 DEF Acquire
<1>5. ASSUME NEW t \in Threads, Contend(t) PROVE Tickets'
  BY <1>5 DEF Contend
<1>6. ASSUME NEW t \in Threads, Spin(t) PROVE Tickets'
  BY <1>6 DEF Spin
<1>7. ASSUME NEW t \in Threads, RecheckUsed(t) PROVE Tickets'
  BY <1>7 DEF RecheckUsed
<1>8. ASSUME NEW t \in Threads, Bail(t) PROVE Tickets'
  BY <1>8 DEF Bail
<1>9. ASSUME NEW t \in Threads, CheckEnd(t) PROVE Tickets'
  BY <1>9 DEF CheckEnd
<1>10. ASSUME NEW t \in Threads, CheckState(t) PROVE Tickets'
  BY <1>10 DEF CheckState
<1>11. ASSUME NEW t \in Threads, Retry(t) PROVE Tickets'
  BY <1>11 DEF Retry
<1>12. ASSUME NEW t \in Threads, Fail(t) PROVE Tickets'
  <2>1. /\ count' = [count EXCEPT ![Mode(t)] = @ - 1]
        /\ pc[t] = "fail" /\ pc' = [pc EXCEPT ![t] = "idle"]
        /\ UNCHANGED <<idx, sent, received>>
    BY <1>12 DEF Fail
  <2>2. CASE t = Writer
    BY <2>1, <2>2
  <2>3. CASE t = Reader
    BY <2>1, <2>3
  <2>. QED
    BY <2>2, <2>3
<1>13. ASSUME NEW t \in Threads, Unlock(t) PROVE Tickets'
  BY <1>13 DEF Unlock
<1>14. ASSUME NEW w \in Writers, Put(w) PROVE Tickets'
  <2>1. Len(sent') = Len(sent) + 1
    BY <1>14, AppendProperties DEF Put, Message, CallNumbered
  <2>2. /\ w = Writer /\ pc[w] = "copy" /\ pc' = [pc EXCEPT ![w] = "unlock"]
        /\ UNCHANGED <<count, idx, received>>
    BY <1>14 DEF Put
  <2>3. pc'[Writer] = "unlock" /\ pc'[Reader] = pc[Reader]
    BY <2>2
  <2>4. /\ Pending(Writer) = 1 /\ Pending(Writer)' = 0 /\ Pending(Reader)' = Pending(Reader)
        /\ count["CHANNEL_WRITE"] \in Int /\ Len(sent) \in Int
    BY <2>2, <2>3, LenProperties
  <2>. HIDE DEF IInv, TypeOK, Pending, Places
  <2>. QED
    BY <2>1, <2>2, <2>3, <2>4
<1>15. ASSUME NEW r \in Readers, Take(r) PROVE Tickets'
  <2>1. Len(received') = Len(received) + 1
    BY <1>15, AppendProperties DEF Take
  <2>2. /\ r = Reader /\ pc[r] = "copy" /\ pc' = [pc EXCEPT ![r] = "unlock"]
        /\ UNCHANGED <<count, idx, sent>>
    BY <1>15 DEF Take
  <2>3. pc'[Reader] = "unlock" /\ pc'[Writer] = pc[Writer]
    BY <2>2
  <2>4. /\ Pending(Reader) = 1 /\ Pending(Reader)' = 0 /\ Pending(Writer)' = Pending(Writer)
        /\ count["CHANNEL_READ"] \in Int /\ Len(received) \in Int
    BY <2>2, <2>3, LenProperties
  <2>. HIDE DEF IInv, TypeOK, Pending, Places
  <2>. QED
    BY <2>1, <2>2, <2>3, <2>4
<1>16. ASSUME NEW w \in Writers, WriteCall(w) PROVE Tickets'
  BY <1>16 DEF WriteCall
<1>17. ASSUME NEW r \in Readers, ReadCall(r) PROVE Tickets'
  BY <1>17 DEF ReadCall
<1>18. ASSUME NEW r \in Readers, TakePart(r) PROVE Tickets'
  BY <1>18 DEF TakePart
<1>19. ASSUME NEW r \in Readers, ReadAgain(r) PROVE Tickets'
  BY <1>19 DEF ReadAgain
<1>20. CASE UNCHANGED <<count, pc, idx, sent, received>>
  BY <1>20
<1>. QED
  BY <1>1, <1>2, <1>3, <1>4, <1>5, <1>6, <1>7, <1>8, <1>9, <1>10, <1>11, <1>12, <1>13, <1>14, <1>15, <1>16, <1>17, <1>18, <1>19, <1>20
     DEF Next, Write, Read, Control, Proceed, FinishControl, vars, local,
         OpenEnd, OpenUsed, CloseEnd, CheckBothClosed, CloseUsed

\* The state in which Put and Take find the ring.
RingInv == IInv /\ Inventory /\ Tickets /\ Between

LEMMA RingShape ==
  ASSUME RingInv
  PROVE  /\ Len(sent) \in Nat /\ Len(received) \in Nat
         /\ Len(sent) - Len(received) = Cardinality(Full)
         /\ Cardinality(Full) \in 0 .. BlockNum
         /\ \A i \in Int : At(i) \in Blocks
<1>1. /\ Len(sent) \in Nat /\ Len(received) \in Nat /\ Cardinality(Full) \in Nat
      /\ Len(sent) = Len(received) + Cardinality(Full)
  BY Ring DEF RingInv, IInv, Inventory
<1>2. ASSUME NEW i \in Int PROVE At(i) \in Blocks
  <2>1. Len(received) + i - 1 \in Int
    BY <1>1
  <2>. QED
    BY <2>1, Division DEF At, Blocks
<1>. QED
  BY <1>1, <1>2, BlockNumAssumption DEF RingInv, Between

\* Put: the Writer's position is the next one, and the ring has room for it.
LEMMA PutPlace ==
  ASSUME OneEach, RingInv, NEW w \in Writers, Put(w)
  PROVE  /\ w = Writer
         /\ idx[w] = At(Cardinality(Full) + 1) /\ idx[w] \notin Full
         /\ Cardinality(Full) < BlockNum
         /\ Full' = Full \cup {idx[w]}
         /\ Len(sent') = Len(sent) + 1 /\ received' = received
         /\ <<w, calls[w]>> \in Message
<1>. USE RingShape DEF RingInv
<1>1. w = Writer /\ w \in Threads /\ w \notin Readers
  BY Both, ThreadsAssumption DEF Threads
<1>2. idx[w] = At(Cardinality(Full) + 1)
  BY <1>1 DEF Tickets, Put, Goto, Ticketed, Holding, At
<1>3. idx[w] \in Blocks /\ data_available[idx[w]] = 0
  BY <1>1 DEF Put, Goto, IInv, ReadyWhenCopied, Awaited, TypeOK
<1>4. idx[w] \notin Full
  BY <1>3 DEF Full
<1>5. Cardinality(Full) # BlockNum
  <2>1. SUFFICES ASSUME Cardinality(Full) = BlockNum PROVE FALSE
    OBVIOUS
  <2>2. At(BlockNum + 1) = At(1)
    BY Around, BlockNumAssumption DEF At
  <2>3. At(1) \in Full
    BY <2>1, BlockNumAssumption DEF Between
  <2>. QED
    BY <1>2, <1>4, <2>1, <2>2, <2>3
<1>6. Full' = Full \cup {idx[w]}
  <2>1. data_available' = [data_available EXCEPT ![idx[w]] = 1]
    BY DEF Put
  <2>2. data_available \in [Blocks -> {0, 1}]
    BY DEF IInv, TypeOK
  <2>. QED
    BY <1>3, <2>1, <2>2 DEF Full
<1>7. <<w, calls[w]>> \in Message
  BY DEF Put, Goto, Message, IInv, CallNumbered
<1>8. Len(sent') = Len(sent) + 1 /\ received' = received
  BY <1>7, AppendProperties DEF Put, IInv, TypeOK
<1>. QED
  BY <1>1, <1>2, <1>4, <1>5, <1>6, <1>7, <1>8, BlockNumAssumption

\* Take: the Reader's position is the first one, and there is a message at it.
LEMMA TakePlace ==
  ASSUME OneEach, RingInv, NEW r \in Readers, Take(r)
  PROVE  /\ r = Reader
         /\ idx[r] = At(1) /\ idx[r] \in Full
         /\ Cardinality(Full) > 0
         /\ Full' = Full \ {idx[r]}
         /\ Len(received') = Len(received) + 1 /\ sent' = sent
<1>. USE RingShape DEF RingInv
<1>1. r = Reader /\ r \in Threads
  BY Both DEF Threads
<1>2. idx[r] = At(1)
  BY <1>1 DEF Tickets, Take, Goto, Ticketed, Holding, At
<1>3. idx[r] \in Blocks /\ data_available[idx[r]] = 1
  BY <1>1 DEF Take, Goto, IInv, ReadyWhenCopied, Awaited, TypeOK
<1>4. idx[r] \in Full
  BY <1>3 DEF Full
<1>5. Cardinality(Full) # 0
  BY <1>4 DEF Between
<1>6. Full' = Full \ {idx[r]}
  <2>1. data_available' = [data_available EXCEPT ![idx[r]] = 0]
    BY DEF Take
  <2>2. data_available \in [Blocks -> {0, 1}]
    BY DEF IInv, TypeOK
  <2>. QED
    BY <1>3, <2>1, <2>2 DEF Full
<1>7. Len(received') = Len(received) + 1 /\ sent' = sent
  BY <1>3, AppendProperties DEF Take, IInv, TypeOK
<1>. QED
  BY <1>1, <1>2, <1>4, <1>5, <1>6, <1>7, BlockNumAssumption

\* TakePart: the same position, and the message stays at it.
LEMMA TakePartPlace ==
  ASSUME OneEach, RingInv, NEW r \in Readers, TakePart(r)
  PROVE  /\ idx[r] = At(1) /\ idx[r] \in Full
         /\ Cardinality(Full) > 0
<1>. USE RingShape DEF RingInv
<1>1. r = Reader /\ r \in Threads
  BY Both DEF Threads
<1>2. idx[r] = At(1)
  BY <1>1 DEF Tickets, TakePart, Goto, Ticketed, Holding, At
<1>3. idx[r] \in Blocks /\ data_available[idx[r]] = 1
  BY <1>1 DEF TakePart, Goto, IInv, ReadyWhenCopied, Awaited, TypeOK
<1>4. idx[r] \in Full
  BY <1>3 DEF Full
<1>5. Cardinality(Full) # 0
  BY <1>4 DEF Between
<1>. QED
  BY <1>2, <1>4, <1>5, BlockNumAssumption

\* Two positions of the ring that hold messages are different blocks.
LEMMA OtherPlace ==
  ASSUME RingInv, NEW i \in 1 .. Cardinality(Full), i # 1
  PROVE  At(i) # At(1)
<1>. USE RingShape DEF RingInv
<1>1. /\ Len(received) \in Int /\ Len(received) + i - 1 \in Int
      /\ i <= BlockNum /\ i > 1 /\ BlockNum \in Nat
  BY BlockNumAssumption
<1>2. /\ Len(received) <= Len(received) + i - 1
      /\ (Len(received) + i - 1) - Len(received) < BlockNum
      /\ Len(received) # Len(received) + i - 1
  BY <1>1
<1>3. At(1) = Len(received) % BlockNum
  BY DEF At
<1>4. Len(received) % BlockNum # (Len(received) + i - 1) % BlockNum
  BY <1>1, <1>2, Apart
<1>. QED
  BY <1>3, <1>4 DEF At

LEMMA BetweenStep ==
  ASSUME OneEach, RingInv, [Next]_vars
  PROVE  Between'
<1>. USE RingShape DEF RingInv
<1>. DEFINE n == Len(sent) - Len(received)
<1>1. ASSUME NEW w \in Writers, Put(w) PROVE Between'
  <2>1. \A i \in Int : At(i)' = At(i)
    BY <1>1, PutPlace DEF At
  <2>2. (Len(sent) - Len(received))' = n + 1 /\ n + 1 <= BlockNum
    <3>1. /\ Len(sent') = Len(sent) + 1 /\ received' = received
          /\ Cardinality(Full) < BlockNum
      BY <1>1, PutPlace
    <3>. QED
      BY <3>1, BlockNumAssumption
  <2>3. Full' = {At(i) : i \in 1 .. n} \cup {At(n + 1)}
    BY <1>1, PutPlace DEF Between
  <2>4. Full' = {At(i) : i \in 1 .. n + 1}
    BY <2>3
  <2>5. Full' = {At(i)' : i \in 1 .. n + 1}
    BY <2>1, <2>4
  <2>. QED
    BY <2>2, <2>5 DEF Between
<1>2. ASSUME NEW r \in Readers, Take(r) PROVE Between'
  <2>1. \A i \in Int : At(i)' = At(i + 1)
    BY <1>2, TakePlace DEF At
  <2>2. (Len(sent) - Len(received))' = n - 1 /\ n - 1 >= 0 /\ n - 1 <= BlockNum
    BY <1>2, TakePlace, BlockNumAssumption
  <2>3. Full' = {At(i) : i \in 1 .. n} \ {At(1)}
    BY <1>2, TakePlace DEF Between
  <2>4. ASSUME NEW i \in 2 .. n PROVE At(i) # At(1)
    <3>1. i \in 1 .. Cardinality(Full) /\ i # 1
      OBVIOUS
    <3>. QED
      BY <3>1, OtherPlace
  <2>5. Full' = {At(i) : i \in 2 .. n}
    BY <2>2, <2>3, <2>4
  <2>6. {At(i) : i \in 2 .. n} = {At(i + 1) : i \in 1 .. n - 1}
    <3>1. \A i \in 2 .. n : i - 1 \in 1 .. n - 1 /\ (i - 1) + 1 = i
      BY <2>2
    <3>2. \A i \in 1 .. n - 1 : i + 1 \in 2 .. n
      BY <2>2
    <3>. QED
      BY <3>1, <3>2
  <2>7. {At(i + 1) : i \in 1 .. n - 1} = {At(i)' : i \in 1 .. n - 1}
    <3>1. \A i \in 1 .. n - 1 : At(i)' = At(i + 1)
      BY <2>1
    <3>. QED
      BY <3>1 DEF At
  <2>8. Full' = {At(i)' : i \in 1 .. n - 1}
    BY <2>5, <2>6, <2>7
  <2>. QED
    BY <2>2, <2>8 DEF Between
<1>3. CASE ~(\E w \in Writers : Put(w)) /\ ~(\E r \in Readers : Take(r))
  <2>1. UNCHANGED <<data_available, sent, received>>
    BY <1>3, QuietStep
  <2>. QED
    BY <2>1 DEF Between, Full, At
<1>. QED
  BY <1>1, <1>2, <1>3

\* An entry of the queue: the message at the i-th position, and its units left.
Entry(i) == [msg |-> buf[At(i)], left |-> amount[At(i)]]
Entries == [msg : Message \cup {NoMessage}, left : 0 .. BlockSize]

\* What the tail of a sequence is, position by position.
LEMMA TailByPosition ==
  ASSUME NEW S, NEW q \in Seq(S), q # <<>>
  PROVE  Tail(q) = [i \in 1 .. Len(q) - 1 |-> q[i + 1]]
<1>1. /\ Tail(q) \in Seq(S) /\ Len(Tail(q)) = Len(q) - 1
      /\ \A i \in 1 .. Len(q) - 1 : Tail(q)[i] = q[i + 1]
  BY HeadTailProperties
<1>2. Tail(q) \in [1 .. Len(q) - 1 -> S]
  BY <1>1, LenProperties
<1>3. Tail(q) = [i \in 1 .. Len(q) - 1 |-> Tail(q)[i]]
  BY <1>2
<1>. QED
  BY <1>1, <1>3, Zenon

\* What a sequence is after its first element was replaced.
LEMMA FirstReplaced ==
  ASSUME NEW S, NEW n \in Nat, NEW q \in [1 .. n -> S], NEW e
  PROVE  [q EXCEPT ![1] = e] = [i \in 1 .. n |-> IF i = 1 THEN e ELSE q[i]]
OBVIOUS

\* The queue the ring holds, seen from the histories.
LEMMA QueueShape ==
  ASSUME RingInv
  PROVE  /\ InTransit = [i \in 1 .. Cardinality(Full) |-> Entry(i)]
         /\ Cardinality(Full) \in Nat
         /\ \A i \in Int : Entry(i) \in Entries
         /\ InTransit \in [1 .. Cardinality(Full) -> Entries]
         /\ InTransit \in Seq(Entries) /\ Len(InTransit) = Cardinality(Full)
<1>. USE RingShape DEF RingInv
<1>1. InTransit = [i \in 1 .. Cardinality(Full) |-> Entry(i)]
  <2>1. count["CHANNEL_READ"] - Pending(Reader) = Len(received)
    BY DEF Tickets
  <2>2. \A i : FromHead(i) = At(i)
    BY <2>1 DEF FromHead, At
  <2>. QED
    BY <2>2, Zenon DEF InTransit, Entry
<1>2. Cardinality(Full) \in Nat
  OBVIOUS
<1>3. ASSUME NEW i \in Int PROVE Entry(i) \in Entries
  <2>1. At(i) \in Blocks
    OBVIOUS
  <2>2. buf[At(i)] \in Message \cup {NoMessage} /\ amount[At(i)] \in 0 .. BlockSize
    BY <2>1 DEF IInv, TypeOK
  <2>. QED
    BY <2>2 DEF Entry, Entries
<1>4. InTransit \in [1 .. Cardinality(Full) -> Entries]
  BY <1>1, <1>3
<1>5. InTransit \in Seq(Entries) /\ Len(InTransit) = Cardinality(Full)
  BY <1>2, <1>4
<1>. QED
  BY <1>1, <1>2, <1>3, <1>4, <1>5

\* The same after a step.
LEMMA QueueShapeNext ==
  ASSUME RingInv'
  PROVE  InTransit' = [i \in 1 .. Cardinality(Full') |-> Entry(i)']
<1>1. (count["CHANNEL_READ"] - Pending(Reader))' = Len(received')
  BY DEF RingInv, Tickets
<1>2. \A i : FromHead(i)' = At(i)'
  BY <1>1 DEF FromHead, At
<1>. QED
  BY <1>2, Zenon DEF InTransit, Entry

\* A write adds its message behind the others, cut at BLOCK_SIZE.
LEMMA PutIsSend ==
  ASSUME OneEach, RingInv, RingInv', NEW w \in Writers, Put(w)
  PROVE  \E m \in Message, n \in 0 .. BlockSize : Fifo!Send(m, n)
<1>. DEFINE m == <<w, calls[w]>>
            k == Cardinality(Full)
<1>1. PICK z \in Sizes : amount' = [amount EXCEPT ![idx[w]] = Lesser(z, BlockSize)]
  BY DEF Put
<1>. DEFINE n == Lesser(z, BlockSize)
<1>2. n \in 0 .. BlockSize
  BY <1>1, SizesAssumption, BlockSizeAssumption DEF Lesser
<1>3. /\ idx[w] = At(k + 1) /\ idx[w] \notin Full /\ k < BlockNum
      /\ Full' = Full \cup {idx[w]} /\ received' = received /\ m \in Message
  BY PutPlace
<1>4. Cardinality(Full') = k + 1
  BY <1>3, Ring, FS_AddElement DEF RingInv, IInv
<1>5. /\ buf' = [buf EXCEPT ![idx[w]] = m] /\ buf \in [Blocks -> Message \cup {NoMessage}]
      /\ amount \in [Blocks -> 0 .. BlockSize] /\ idx[w] \in Blocks /\ got' = got
  <2>1. w \in Threads
    BY DEF Threads
  <2>. QED
    BY <2>1 DEF Put, RingInv, IInv, TypeOK
<1>6. k \in Nat
  BY QueueShape
<1>7. \A i \in Int : At(i)' = At(i)
  BY <1>3 DEF At
<1>8. ASSUME NEW i \in 1 .. k PROVE Entry(i)' = Entry(i)
  <2>1. At(i) \in Full
    BY RingShape DEF RingInv, Between
  <2>2. At(i) # idx[w] /\ At(i) \in Blocks
    BY <1>3, <2>1 DEF Full
  <2>3. buf'[At(i)] = buf[At(i)] /\ amount'[At(i)] = amount[At(i)]
    BY <1>1, <1>5, <2>2
  <2>4. At(i)' = At(i)
    BY <1>6, <1>7
  <2>. QED
    BY <2>3, <2>4 DEF Entry
<1>9. ASSUME NEW i \in Int, i = k + 1 PROVE Entry(i)' = [msg |-> m, left |-> n]
  <2>1. buf'[idx[w]] = m /\ amount'[idx[w]] = n
    BY <1>1, <1>5
  <2>2. At(i)' = idx[w]
    BY <1>3, <1>7, <1>9
  <2>. QED
    BY <2>1, <2>2 DEF Entry
<1>10. InTransit' = [i \in 1 .. k + 1 |-> Entry(i)']
  BY <1>4, QueueShapeNext
<1>11. InTransit' = Append(InTransit, [msg |-> m, left |-> n])
  <2>1. InTransit = [i \in 1 .. k |-> Entry(i)] /\ Len(InTransit) = k
    BY QueueShape
  <2>. HIDE DEF m, n, k
  <2>2. Append(InTransit, [msg |-> m, left |-> n])
          = [i \in 1 .. k + 1 |-> IF i \in 1 .. k THEN Entry(i) ELSE [msg |-> m, left |-> n]]
    <3>1. Append(InTransit, [msg |-> m, left |-> n])
            = [i \in 1 .. k + 1 |-> IF i = k + 1 THEN [msg |-> m, left |-> n] ELSE InTransit[i]]
      BY <1>6, <2>1, QueueShape
    <3>. QED
      BY <1>6, <2>1, <3>1
  <2>3. \A i \in 1 .. k + 1 :
          Entry(i)' = IF i \in 1 .. k THEN Entry(i) ELSE [msg |-> m, left |-> n]
    <3>1. \A i \in 1 .. k + 1 : i \in 1 .. k \/ (i = k + 1 /\ i \in Int)
      BY <1>6
    <3>2. k + 1 \notin 1 .. k
      BY <1>6
    <3>. QED
      BY <1>8, <1>9, <3>1, <3>2, Zenon
  <2>. QED
    BY <1>10, <2>2, <2>3, Zenon
<1>12. Len(InTransit) < BlockNum
  BY <1>3, QueueShape
<1>13. Fifo!Send(m, n)
  BY <1>5, <1>11, <1>12 DEF Fifo!Send
<1>. QED
  BY <1>2, <1>3, <1>13

\* What the first entry of the queue says of the reader's block.
LEMMA HeadEntry ==
  ASSUME RingInv, Cardinality(Full) > 0
  PROVE  /\ InTransit # <<>>
         /\ InTransit[1] = [msg |-> buf[At(1)], left |-> amount[At(1)]]
<1>1. 1 \in 1 .. Cardinality(Full)
  BY QueueShape
<1>2. InTransit[1] = Entry(1)
  BY <1>1, QueueShape, Zenon
<1>3. InTransit # <<>>
  BY QueueShape
<1>. QED
  BY <1>2, <1>3 DEF Entry

\* A read with room for the head of the queue takes it away whole.
LEMMA TakeIsReceive ==
  ASSUME OneEach, RingInv, RingInv', NEW r \in Readers, Take(r)
  PROVE  \E n \in ReadSizes : Fifo!ReceiveRest(n)
<1>. DEFINE b == idx[r]
            k == Cardinality(Full)
<1>1. PICK n \in ReadSizes : amount[b] <= n
  BY DEF Take
<1>2. /\ b = At(1) /\ b \in Full /\ k > 0
      /\ Full' = Full \ {b} /\ Len(received') = Len(received) + 1
  BY TakePlace
<1>3. Cardinality(Full') = k - 1
  BY <1>2, Ring, FS_RemoveElement DEF RingInv, IInv
<1>4. k \in Nat /\ b \in Blocks
  BY <1>2, QueueShape DEF Full
<1>5. \A i \in Int : At(i)' = At(i + 1)
  BY <1>2, RingShape DEF At
<1>6. /\ buf' = buf /\ amount' = [amount EXCEPT ![b] = 0]
      /\ amount \in [Blocks -> 0 .. BlockSize]
      /\ got' = Copied(b, amount[b])
  BY DEF Take, RingInv, IInv, TypeOK
<1>7. ASSUME NEW i \in 1 .. k - 1 PROVE Entry(i)' = Entry(i + 1)
  <2>1. i + 1 \in 1 .. k /\ i + 1 # 1
    BY <1>4
  <2>2. At(i + 1) # b
    BY <1>2, <2>1, OtherPlace
  <2>3. At(i + 1) \in Blocks
    BY <2>1, RingShape
  <2>4. amount'[At(i + 1)] = amount[At(i + 1)]
    BY <1>6, <2>2, <2>3
  <2>5. At(i)' = At(i + 1)
    BY <1>4, <1>5
  <2>. QED
    BY <1>6, <2>4, <2>5 DEF Entry
<1>8. InTransit' = [i \in 1 .. k - 1 |-> Entry(i + 1)]
  <2>1. InTransit' = [i \in 1 .. k - 1 |-> Entry(i)']
    BY <1>3, QueueShapeNext
  <2>. QED
    BY <1>7, <2>1, Zenon
<1>9. Tail(InTransit) = [i \in 1 .. k - 1 |-> Entry(i + 1)]
  <2>1. InTransit # <<>> /\ InTransit \in Seq(Entries) /\ Len(InTransit) = k
    BY <1>2, HeadEntry, QueueShape
  <2>2. Tail(InTransit) = [i \in 1 .. k - 1 |-> InTransit[i + 1]]
    BY <2>1, TailByPosition
  <2>3. \A i \in 1 .. k - 1 : InTransit[i + 1] = Entry(i + 1)
    <3>1. \A i \in 1 .. k - 1 : i + 1 \in 1 .. k
      BY <1>4
    <3>. QED
      BY <3>1, QueueShape, Zenon
  <2>. QED
    BY <2>2, <2>3, Zenon
<1>10. /\ InTransit # <<>> /\ InTransit[1].msg = buf[b] /\ InTransit[1].left = amount[b]
  BY <1>2, HeadEntry
<1>11. Fifo!ReceiveRest(n)
  BY <1>1, <1>6, <1>8, <1>9, <1>10 DEF Fifo!ReceiveRest, Fifo!Deliver, Copied
<1>. QED
  BY <1>11

\* A read into a smaller buffer copies the head's first units and leaves it there.
LEMMA TakePartIsReceive ==
  ASSUME OneEach, RingInv, RingInv', NEW r \in Readers, TakePart(r)
  PROVE  \E n \in ReadSizes : Fifo!ReceivePart(n)
<1>. DEFINE b == idx[r]
            k == Cardinality(Full)
<1>1. PICK n \in ReadSizes : /\ amount[b] > n
                             /\ amount' = [amount EXCEPT ![b] = @ - n]
                             /\ got' = Copied(b, n)
  BY DEF TakePart
<1>2. b = At(1) /\ b \in Full /\ k > 0
  BY TakePartPlace
<1>3. /\ b \in Blocks /\ amount \in [Blocks -> 0 .. BlockSize]
      /\ buf' = buf /\ data_available' = data_available /\ received' = received
  BY <1>2 DEF Full, TakePart, RingInv, IInv, TypeOK
<1>4. Full' = Full /\ \A i \in Int : At(i)' = At(i)
  BY <1>3 DEF Full, At
<1>5. k \in Nat /\ Cardinality(Full') = k
  BY <1>4, QueueShape
<1>. DEFINE e == [msg |-> buf[b], left |-> amount[b] - n]
<1>6. ASSUME NEW i \in 1 .. k PROVE Entry(i)' = IF i = 1 THEN e ELSE Entry(i)
  <2>1. At(i)' = At(i) /\ At(i) \in Blocks
    BY <1>4, <1>5, RingShape
  <2>2. CASE i = 1
    <3>1. amount'[b] = amount[b] - n
      BY <1>1, <1>3
    <3>. QED
      BY <1>2, <1>3, <2>1, <2>2, <3>1 DEF Entry
  <2>3. CASE i # 1
    <3>1. At(i) # b
      BY <1>2, <2>3, OtherPlace
    <3>2. amount'[At(i)] = amount[At(i)]
      BY <1>1, <1>3, <2>1, <3>1
    <3>. QED
      BY <1>3, <2>1, <2>3, <3>2 DEF Entry
  <2>. QED
    BY <2>2, <2>3
<1>7. InTransit' = [i \in 1 .. k |-> IF i = 1 THEN e ELSE Entry(i)]
  <2>1. InTransit' = [i \in 1 .. k |-> Entry(i)']
    BY <1>5, QueueShapeNext
  <2>. QED
    BY <1>6, <2>1, Zenon
<1>8. /\ InTransit # <<>>
      /\ InTransit[1] = [msg |-> buf[b], left |-> amount[b]]
  BY <1>2, HeadEntry
<1>9. [InTransit EXCEPT ![1] = e] = InTransit'
  <2>1. InTransit \in [1 .. k -> Entries] /\ InTransit = [i \in 1 .. k |-> Entry(i)]
    BY QueueShape
  <2>2. [InTransit EXCEPT ![1] = e] = [i \in 1 .. k |-> IF i = 1 THEN e ELSE InTransit[i]]
    BY <1>5, <2>1, FirstReplaced
  <2>3. \A i \in 1 .. k : InTransit[i] = Entry(i)
    BY <2>1, Zenon
  <2>. QED
    BY <1>7, <2>2, <2>3, Zenon
<1>10. Fifo!ReceivePart(n)
  <2>1. InTransit[1].msg = buf[b] /\ InTransit[1].left = amount[b]
    BY <1>8
  <2>2. [msg |-> InTransit[1].msg, left |-> InTransit[1].left - n] = e
    BY <2>1
  <2>3. InTransit' = [InTransit EXCEPT ![1] =
                        [msg |-> InTransit[1].msg, left |-> InTransit[1].left - n]]
    BY <1>9, <2>2, Zenon
  <2>4. got' = [of |-> InTransit[1].msg, units |-> 1 .. n]
    BY <1>1, <2>1 DEF Copied
  <2>. QED
    BY <1>1, <1>8, <2>1, <2>3, <2>4 DEF Fifo!ReceivePart, Fifo!Deliver
<1>. QED
  BY <1>10

\* Every step of the ring is a step of the bounded queue, or leaves it as it is.
LEMMA FifoStep ==
  ASSUME OneEach, RingInv, [Next]_vars, RingInv'
  PROVE  [Fifo!Next]_<<InTransit, got>>
<1>1. ASSUME NEW w \in Writers, Put(w) PROVE Fifo!Next
  BY <1>1, PutIsSend DEF Fifo!Next
<1>2. ASSUME NEW r \in Readers, Take(r) PROVE Fifo!Next
  BY <1>2, TakeIsReceive DEF Fifo!Next
<1>3. ASSUME NEW r \in Readers, TakePart(r) PROVE Fifo!Next
  BY <1>3, TakePartIsReceive DEF Fifo!Next
<1>4. ASSUME ~ \E w \in Writers : Put(w), ~ \E r \in Readers : Take(r) \/ TakePart(r)
      PROVE  UNCHANGED <<InTransit, got>>
  <2>1. UNCHANGED <<buf, data_available, sent, received, amount, got>>
    BY <1>4, QuietStep, StillStep
  <2>2. Full' = Full /\ \A i \in Int : Entry(i)' = Entry(i)
    BY <2>1 DEF Full, At, Entry
  <2>3. InTransit = [i \in 1 .. Cardinality(Full) |-> Entry(i)]
    BY QueueShape
  <2>4. InTransit' = [i \in 1 .. Cardinality(Full) |-> Entry(i)']
    BY <2>2, QueueShapeNext
  <2>5. \A i \in 1 .. Cardinality(Full) : Entry(i)' = Entry(i)
    BY <2>2, QueueShape
  <2>6. InTransit' = InTransit
    BY <2>3, <2>4, <2>5, Zenon
  <2>. QED
    BY <2>1, <2>6
<1>. QED
  BY <1>1, <1>2, <1>3, <1>4

\* ImplementsFifo of ShmChannel: with one writer and one reader the ring, with its locks,
\* flags, tickets and modulo, is a bounded queue, for every size of the ring, of payloads and
\* of the reader's buffer, and however often the ends are closed and opened under the threads.
THEOREM RingIsFifo ==
  ASSUME OneEach
  PROVE  Spec => ImplementsFifo
<1>. DEFINE Inv == Fresh /\ RingInv
<1>1. Init => Inv
  <2>. SUFFICES ASSUME Init PROVE Inv
    OBVIOUS
  <2>1. IInv /\ Fresh /\ Inventory
    BY InitIInv, InventoryInit
  <2>2. Len(sent) = 0 /\ Len(received) = 0 /\ Full = {}
    BY DEF Init, Full
  <2>3. Between
    BY <2>2, BlockNumAssumption DEF Between
  <2>4. Tickets
    BY <2>2, Both DEF Tickets, Init, Pending, Ticketed, Holding, Modes
  <2>. QED
    BY <2>1, <2>3, <2>4 DEF RingInv
<1>2. Inv /\ [Next]_vars => Inv'
  BY IInvStep, InventoryStep, TicketStep, BetweenStep DEF RingInv
<1>3. Init => Fifo!Init
  <2>. SUFFICES ASSUME Init PROVE InTransit = <<>>
    BY DEF Fifo!Init, Init, NoMessage
  <2>1. Full = {}
    BY DEF Init, Full
  <2>2. 1 .. Cardinality(Full) = {}
    BY <2>1, FS_EmptySet
  <2>. QED
    BY <2>2 DEF InTransit
<1>4. Inv /\ Inv' /\ [Next]_vars => [Fifo!Next]_<<InTransit, got>>
  BY FifoStep
<1>. QED
  BY <1>1, <1>2, <1>3, <1>4, PTL DEF Spec, ImplementsFifo, Fifo!Spec

=============================================================================
