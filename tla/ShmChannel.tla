----------------------------- MODULE ShmChannel -----------------------------
(***************************************************************************)
(* One shm_channel of source_code/ipc/ipc_shm.h: a ring of BlockNum blocks *)
(* in shared memory, each with a test-and-set lock, written and read by    *)
(* threads of two processes.  Every action is one access to the shared     *)
(* memory (one Atomic* call, or the copy made while the block's lock is    *)
(* held), so that every interleaving of the two processes is explored.     *)
(* A pc tells where a thread is in write() or read(); a controller per end *)
(* runs open_channel() and close_channel(), which the program calls from   *)
(* other threads than the ones that write and read.                        *)
(***************************************************************************)
EXTENDS Integers, Sequences, FiniteSets

CONSTANTS
  BlockNum,     \* BLOCK_NUM: 10 for the messages, 1 for the video frames
  BlockSize,    \* BLOCK_SIZE, in units of payload
  Writers,      \* threads that call write()
  Readers,      \* threads that call read()
  Sizes,        \* sizes of the payloads written (larger ones are cut)
  ReadSizes,    \* sizes of the buffers read into
  MaxWrites,    \* bound: calls of write() per writer
  MaxOpens      \* bound: calls of open_channel() per end that succeed

ASSUME BlockNumAssumption == BlockNum \in Nat \ {0}
ASSUME BlockSizeAssumption == BlockSize \in Nat \ {0}
ASSUME SizesAssumption == Sizes \subseteq Nat /\ ReadSizes \subseteq Nat \ {0}
ASSUME ThreadsAssumption == Writers \cap Readers = {}
ASSUME BoundsAssumption == MaxWrites \in Nat /\ MaxOpens \in Nat

VARIABLES
  used,         \* channel->used
  opened,       \* channel->read_opened and write_opened, by mode
  count,        \* channel->read_count and writen_count, by mode
  lock,         \* block->lock, by block
  data_available,  \* block->data_available
  amount,       \* block->amount
  buf,          \* block->buf: the message it was last written with
  pc, idx,      \* per thread: place, write_idx or read_idx
  calls,        \* per writer: calls of write() made, which number its messages
  ctl,          \* per end: place of the controller in open/close_channel
  opens,        \* per end: opens that succeeded
  sent,         \* history: messages in the order they were put in a block
  received,     \* history: messages in the order their blocks were emptied
  got           \* what read() last copied out: of which message, which units

shared == <<used, opened, count>>
blocks == <<lock, data_available, amount, buf>>
local  == <<pc, idx, calls>>
ends   == <<ctl, opens>>
hist   == <<sent, received, got>>
vars   == <<shared, blocks, local, ends, hist>>

Threads == Writers \cup Readers
Blocks  == 0 .. BlockNum - 1
Modes   == {"CHANNEL_READ", "CHANNEL_WRITE"}
Mode(t) == IF t \in Readers THEN "CHANNEL_READ" ELSE "CHANNEL_WRITE"

\* The data_available a thread waits for: the `state` argument.
Awaited(t) == IF t \in Readers THEN 1 ELSE 0

Message == Writers \X (1 .. MaxWrites)  \* a payload: who wrote it, in which call
NoMessage == <<>>               \* the zeroed buffer of init_channel

Lesser(a, b) == IF a < b THEN a ELSE b

\* memcpy(buf, block->buf, n) of read(): n units from the start of the block,
\* also when an earlier read() took some of them (amount alone was lowered).
Copied(b, n) == [of |-> buf[b], units |-> 1 .. n]
-----------------------------------------------------------------------------
\* The channel as create() leaves it, and no call in progress.
Init ==
  /\ used = 0
  /\ opened = [m \in Modes |-> 0]
  /\ count = [m \in Modes |-> 0]
  /\ lock = [b \in Blocks |-> 0]
  /\ data_available = [b \in Blocks |-> 0]
  /\ amount = [b \in Blocks |-> 0]
  /\ buf = [b \in Blocks |-> NoMessage]
  /\ pc = [t \in Threads |-> "idle"]
  /\ idx = [t \in Threads |-> 0]
  /\ calls = [w \in Writers |-> 0]
  /\ ctl = [m \in Modes |-> "closed"]
  /\ opens = [m \in Modes |-> 0]
  /\ sent = <<>>
  /\ received = <<>>
  /\ got = [of |-> NoMessage, units |-> {}]

Goto(t, from, to) == pc[t] = from /\ pc' = [pc EXCEPT ![t] = to]

Release(t) == lock' = [lock EXCEPT ![idx[t]] = 0]

Steer(m, from, to) == ctl[m] = from /\ ctl' = [ctl EXCEPT ![m] = to]
-----------------------------------------------------------------------------
(***************************************************************************)
(* Faulty variants of some steps below.  No specification uses them: each  *)
(* shows that a property would notice the slip.                            *)
(***************************************************************************)

\* A test-and-set that is a plain store.
AcquireAnyway(t) ==
  /\ Goto(t, "lock", "recheck")
  /\ lock' = [lock EXCEPT ![idx[t]] = 1]
  /\ UNCHANGED <<shared, data_available, amount, buf, idx, calls, ends, hist>>

\* The lock is released before the copy.
CheckStateUnlock(t) ==
  /\ Goto(t, "state",
          IF data_available[idx[t]] = Awaited(t) THEN "copy" ELSE "retry")
  /\ Release(t)
  /\ UNCHANGED <<shared, data_available, amount, buf, idx, calls, ends, hist>>

\* The end is not looked at again once the call waits.
CheckEndNot(t) ==
  /\ Goto(t, "end", "state")
  /\ UNCHANGED <<shared, blocks, idx, calls, ends, hist>>

\* The lock is not released before the next try.
RetryLocked(t) ==
  /\ Goto(t, "retry", "lock")
  /\ UNCHANGED <<shared, blocks, idx, calls, ends, hist>>

\* The payload is not cut at BLOCK_SIZE.
PutUncut(w) ==
  /\ Goto(w, "copy", "unlock")
  /\ buf' = [buf EXCEPT ![idx[w]] = <<w, calls[w]>>]
  /\ \E n \in Sizes : amount' = [amount EXCEPT ![idx[w]] = n]
  /\ data_available' = [data_available EXCEPT ![idx[w]] = 1]
  /\ sent' = Append(sent, <<w, calls[w]>>)
  /\ UNCHANGED <<shared, lock, idx, calls, ends, received, got>>

\* The emptied block still says it has data.
TakeKeepFlag(r) ==
  /\ \E n \in ReadSizes : amount[idx[r]] <= n
  /\ Goto(r, "copy", "unlock")
  /\ amount' = [amount EXCEPT ![idx[r]] = 0]
  /\ received' = Append(received, buf[idx[r]])
  /\ got' = Copied(idx[r], amount[idx[r]])
  /\ UNCHANGED <<shared, lock, data_available, buf, idx, calls, ends, sent>>

\* The last end to close leaves the channel in use.
CheckBothClosedNot(m) ==
  /\ Steer(m, "closing", "closed")
  /\ UNCHANGED <<shared, blocks, local, opens, hist>>
-----------------------------------------------------------------------------
(* write() and read() *)

WriteCall(w) ==
  /\ calls[w] < MaxWrites
  /\ Goto(w, "idle", "used")
  /\ calls' = [calls EXCEPT ![w] = @ + 1]
  /\ UNCHANGED <<shared, blocks, idx, ends, hist>>

ReadCall(r) ==
  /\ Goto(r, "idle", "used")
  /\ UNCHANGED <<shared, blocks, idx, calls, ends, hist>>

\* AtomicGet(&channel->used) != 1: return -1.
CheckUsed(t) ==
  /\ Goto(t, "used", IF used = 1 THEN "opened" ELSE "idle")
  /\ UNCHANGED <<shared, blocks, idx, calls, ends, hist>>

\* AtomicGet(&channel->..._opened) != 1: return -1.
CheckOpened(t) ==
  /\ Goto(t, "opened", IF opened[Mode(t)] = 1 THEN "ticket" ELSE "idle")
  /\ UNCHANGED <<shared, blocks, idx, calls, ends, hist>>

\* The fetch-and-add hands out a ticket; its block is the ticket modulo BLOCK_NUM.
TakeTicket(t) ==
  /\ Goto(t, "ticket", "lock")
  /\ idx' = [idx EXCEPT ![t] = count[Mode(t)] % BlockNum]
  /\ count' = [count EXCEPT ![Mode(t)] = @ + 1]
  /\ UNCHANGED <<used, opened, blocks, calls, ends, hist>>

\* shm_block_lock: the test-and-set finds 0 and the lock is ours.
Acquire(t) ==
  /\ lock[idx[t]] = 0
  /\ Goto(t, "lock", "recheck")
  /\ lock' = [lock EXCEPT ![idx[t]] = 1]
  /\ UNCHANGED <<shared, data_available, amount, buf, idx, calls, ends, hist>>

\* shm_block_lock: the test-and-set finds 1.
Contend(t) ==
  /\ lock[idx[t]] = 1
  /\ Goto(t, "lock", "spin")
  /\ UNCHANGED <<shared, blocks, idx, calls, ends, hist>>

\* shm_block_lock: give up if the channel is no longer used, else try again.
Spin(t) ==
  /\ Goto(t, "spin", IF used = 0 THEN "fail" ELSE "lock")
  /\ UNCHANGED <<shared, blocks, idx, calls, ends, hist>>

\* shm_block_lock: look at `used` again with the lock held.
RecheckUsed(t) ==
  /\ Goto(t, "recheck", IF used = 0 THEN "bail" ELSE "end")
  /\ UNCHANGED <<shared, blocks, idx, calls, ends, hist>>

\* shm_block_lock: the unlock before its second return -1.
Bail(t) ==
  /\ Goto(t, "bail", "fail")
  /\ Release(t)
  /\ UNCHANGED <<shared, data_available, amount, buf, idx, calls, ends, hist>>

\* shm_block_wait_for_data_state: return -1 if this end was closed.  The
\* return leaves the block locked.
CheckEnd(t) ==
  /\ Goto(t, "end", IF opened[Mode(t)] = 0 THEN "fail" ELSE "state")
  /\ UNCHANGED <<shared, blocks, idx, calls, ends, hist>>

\* shm_block_wait_for_data_state: keep the lock once the block is ready.
CheckState(t) ==
  /\ Goto(t, "state",
          IF data_available[idx[t]] = Awaited(t) THEN "copy" ELSE "retry")
  /\ UNCHANGED <<shared, blocks, idx, calls, ends, hist>>

Retry(t) ==
  /\ Goto(t, "retry", "lock")
  /\ Release(t)
  /\ UNCHANGED <<shared, data_available, amount, buf, idx, calls, ends, hist>>

\* A failed wait takes the ticket back and returns -1.
Fail(t) ==
  /\ Goto(t, "fail", "idle")
  /\ count' = [count EXCEPT ![Mode(t)] = @ - 1]
  /\ UNCHANGED <<used, opened, blocks, idx, calls, ends, hist>>

\* write(): memcpy, amount and data_available, under the lock.  The size
\* argument is chosen where it is used, here and in read().
Put(w) ==
  LET m == <<w, calls[w]>> IN
  /\ Goto(w, "copy", "unlock")
  /\ buf' = [buf EXCEPT ![idx[w]] = m]
  /\ \E n \in Sizes : amount' = [amount EXCEPT ![idx[w]] = Lesser(n, BlockSize)]
  /\ data_available' = [data_available EXCEPT ![idx[w]] = 1]
  /\ sent' = Append(sent, m)
  /\ UNCHANGED <<shared, lock, idx, calls, ends, received, got>>

\* read(): the buffer has room for all the units the block counts.
Take(r) ==
  /\ \E n \in ReadSizes : amount[idx[r]] <= n
  /\ Goto(r, "copy", "unlock")
  /\ amount' = [amount EXCEPT ![idx[r]] = 0]
  /\ data_available' = [data_available EXCEPT ![idx[r]] = 0]
  /\ received' = Append(received, buf[idx[r]])
  /\ got' = Copied(idx[r], amount[idx[r]])
  /\ UNCHANGED <<shared, lock, buf, idx, calls, ends, sent>>

\* read(): the buffer is too small, the block counts the units copied out ...
TakePart(r) ==
  /\ Goto(r, "copy", "again")
  /\ \E n \in ReadSizes :
       /\ amount[idx[r]] > n
       /\ amount' = [amount EXCEPT ![idx[r]] = @ - n]
       /\ got' = Copied(idx[r], n)
  /\ UNCHANGED <<shared, lock, data_available, buf, idx, calls, ends, sent, received>>

\* ... and the ticket is taken back, for the next read() to use.
ReadAgain(r) ==
  /\ Goto(r, "again", "unlock")
  /\ count' = [count EXCEPT !["CHANNEL_READ"] = @ - 1]
  /\ UNCHANGED <<used, opened, blocks, idx, calls, ends, hist>>

Unlock(t) ==
  /\ Goto(t, "unlock", "idle")
  /\ Release(t)
  /\ UNCHANGED <<shared, data_available, amount, buf, idx, calls, ends, hist>>
-----------------------------------------------------------------------------
(* open_channel() and close_channel(), one controller per end *)

\* open_channel of an end that is open returns -1 and changes nothing, so
\* only the opens that succeed are steps.
OpenEnd(m) ==
  /\ opens[m] < MaxOpens
  /\ opened[m] = 0
  /\ Steer(m, "closed", "opening")
  /\ opened' = [opened EXCEPT ![m] = 1]
  /\ opens' = [opens EXCEPT ![m] = @ + 1]
  /\ UNCHANGED <<used, count, blocks, local, hist>>

OpenUsed(m) ==
  /\ Steer(m, "opening", "open")
  /\ used' = 1
  /\ UNCHANGED <<opened, count, blocks, local, opens, hist>>

CloseEnd(m) ==
  /\ Steer(m, "open", "closing")
  /\ opened' = [opened EXCEPT ![m] = 0]
  /\ UNCHANGED <<used, count, blocks, local, opens, hist>>

\* close_channel reads both ends; the last one to close clears `used`.
CheckBothClosed(m) ==
  /\ Steer(m, "closing", IF \A n \in Modes : opened[n] = 0 THEN "unuse" ELSE "closed")
  /\ UNCHANGED <<shared, blocks, local, opens, hist>>

CloseUsed(m) ==
  /\ Steer(m, "unuse", "closed")
  /\ used' = 0
  /\ UNCHANGED <<opened, count, blocks, local, opens, hist>>
-----------------------------------------------------------------------------
\* A step of a call in progress, of any thread.
Proceed(t) ==
  \/ CheckUsed(t) \/ CheckOpened(t) \/ TakeTicket(t)
  \/ Acquire(t) \/ Contend(t) \/ Spin(t) \/ RecheckUsed(t) \/ Bail(t)
  \/ CheckEnd(t) \/ CheckState(t) \/ Retry(t) \/ Fail(t) \/ Unlock(t)

Write(w) == WriteCall(w) \/ Proceed(w) \/ Put(w)
Read(r)  == ReadCall(r) \/ Proceed(r) \/ Take(r) \/ TakePart(r) \/ ReadAgain(r)

FinishControl(m) == OpenUsed(m) \/ CheckBothClosed(m) \/ CloseUsed(m)
Control(m) == OpenEnd(m) \/ CloseEnd(m) \/ FinishControl(m)

Next ==
  \/ \E w \in Writers : Write(w)
  \/ \E r \in Readers : Read(r)
  \/ \E m \in Modes : Control(m)

Spec == Init /\ [][Next]_vars

(***************************************************************************)
(* A thread inside write() or read(), and one inside open_channel() or     *)
(* close_channel(), is scheduled.  A thread that waits for a lock yields   *)
(* between two test-and-sets, at no fixed pace, so when the lock is free   *)
(* again and again some test-and-set meets it free (Patience).  The        *)
(* readers call read() in a loop (AgoraVideoSourceIpcImpl::run,            *)
(* AgoraIpcDataReceiver::run).  Nothing makes a writer write, or a         *)
(* controller open or close.                                               *)
(***************************************************************************)
Patience(t) ==
  /\ SF_vars(lock[idx[t]] = 0 /\ Spin(t))
  /\ SF_vars(Acquire(t))

Fairness ==
  /\ \A w \in Writers : WF_vars(Proceed(w) \/ Put(w)) /\ Patience(w)
  /\ \A r \in Readers : WF_vars(Read(r)) /\ Patience(r)
  /\ \A m \in Modes : WF_vars(FinishControl(m))

FairSpec == Spec /\ Fairness
-----------------------------------------------------------------------------
(* Properties *)

Full == {b \in Blocks : data_available[b] = 1}

\* Where the lock of block idx[t] is held by t.
Holding == {"recheck", "bail", "end", "state", "retry", "copy", "again", "unlock"}

\* The places from which a thread still has to give its ticket back.
Ticketed == {"lock", "spin", "fail", "again"} \cup (Holding \ {"unlock"})

Places == {"idle", "used", "opened", "ticket"} \cup Ticketed \cup {"unlock"}

TypeOK ==
  /\ used \in {0, 1}
  /\ opened \in [Modes -> {0, 1}]
  /\ count \in [Modes -> Int]
  /\ lock \in [Blocks -> {0, 1}]
  /\ data_available \in [Blocks -> {0, 1}]
  /\ amount \in [Blocks -> 0 .. BlockSize]
  /\ buf \in [Blocks -> Message \cup {NoMessage}]
  /\ pc \in [Threads -> Places]
  /\ idx \in [Threads -> Blocks]
  /\ calls \in [Writers -> 0 .. MaxWrites]
  /\ ctl \in [Modes -> {"closed", "opening", "open", "closing", "unuse"}]
  /\ opens \in [Modes -> 0 .. MaxOpens]
  /\ sent \in Seq(Message)
  /\ received \in Seq(Message \cup {NoMessage})
  /\ got \in [of : Message \cup {NoMessage}, units : SUBSET (1 .. BlockSize)]

\* The lock of a block, test-and-set by threads of both processes, keeps
\* them out of each other's copies: of the threads between shm_block_lock
\* and shm_block_unblock no two are at the same block, and its lock is set.
\* (A lock may be set with nobody inside: CheckEnd returns without unlocking.)
MutualExclusion ==
  /\ \A t \in Threads : pc[t] \in Holding => lock[idx[t]] = 1
  /\ \A s, t \in Threads :
       s # t /\ pc[s] \in Holding /\ pc[t] \in Holding => idx[s] # idx[t]

\* A thread that was told its block is ready finds it so when it copies,
\* however long it slept in between: write() never runs over an unread
\* message and read() never takes an empty block.
ReadyWhenCopied ==
  \A t \in Threads : pc[t] = "copy" => data_available[idx[t]] = Awaited(t)

\* No message that was put in a block is overwritten before it was read.
NeverOverwritten ==
  [][\A b \in Full : buf'[b] = buf[b]]_vars

\* Whoever the threads are and however the ends are opened and closed: every
\* message put in a block is either still in exactly one block, or was
\* returned by exactly one chain of read()s; nothing else is ever returned.
Conservation ==
  LET sentSet == {sent[i] : i \in DOMAIN sent}
      recdSet == {received[i] : i \in DOMAIN received}
      heldSet == {buf[b] : b \in Full}
  IN /\ Len(sent) = Len(received) + Cardinality(Full)
     /\ Cardinality(recdSet) = Len(received)
     /\ Cardinality(heldSet) = Cardinality(Full)
     /\ recdSet \cap heldSet = {}
     /\ recdSet \cup heldSet = sentSet

\* Once both ends are closed, whatever the two processes' open_channel and
\* close_channel did to `used` in between, the channel is unused, and a
\* thread left spinning on a block sees it.
ClosedIsUnused == (\A m \in Modes : ctl[m] = "closed") => used = 0
-----------------------------------------------------------------------------
(* One writer and one reader *)

Writer == CHOOSE w \in Writers : TRUE
Reader == CHOOSE r \in Readers : TRUE

Pending(t) == IF pc[t] \in Ticketed THEN 1 ELSE 0

\* The i-th block from the reader's ticket on, and the queue the ring holds.
FromHead(i) == (count["CHANNEL_READ"] - Pending(Reader) + i - 1) % BlockNum

InTransit ==
  [i \in 1 .. Cardinality(Full) |->
     [msg |-> buf[FromHead(i)], left |-> amount[FromHead(i)]]]

Fifo == INSTANCE FifoChannel
          WITH queue <- InTransit, out <- got,
               Capacity <- BlockNum, Amounts <- 0 .. BlockSize

\* The ring with its locks, flags and tickets implements a bounded queue of
\* messages.  A read into a buffer of a whole block takes each message whole,
\* once and in order; one into a smaller buffer gets the head of the message,
\* and the next one gets the head again, as FifoChannel says.
ImplementsFifo == Fifo!Spec
-----------------------------------------------------------------------------
(* Liveness *)

\* ipc_shm.h:331 and 350: closing an end makes a pending call of that end
\* return, though it may be spinning on a block or hold one.
CloseEndsCalls ==
  \A t \in Threads : ctl[Mode(t)] = "closing" ~> pc[t] = "idle"

\* A message put in a block is read, unless an end is closed.
Delivered ==
  \A n \in 1 .. MaxWrites * Cardinality(Writers) :
    Len(sent) >= n ~>
      Len(received) >= n \/ \E m \in Modes : ctl[m] # "open"

\* ipc_shm.h:332: write() waits "until reader pop up some data, no matter read
\* end opened or not", so a call whose block is empty returns, though the reader
\* has closed its end.  False of the code, as README.md tells.
WriteIgnoresReadEnd ==
  \A w \in Writers :
    pc[w] = "lock" /\ data_available[idx[w]] = 0 ~>
      pc[w] = "idle" \/ ctl["CHANNEL_WRITE"] # "open"

\* ipc_shm.h:350: read() waits for data "no matter write end opened or not",
\* so a message already in a block is read though its writer has closed.  False
\* of the code, as README.md tells.
ReadIgnoresWriteEnd ==
  \A n \in 1 .. MaxWrites * Cardinality(Writers) :
    Len(sent) >= n ~>
      Len(received) >= n \/ ctl["CHANNEL_READ"] # "open" \/ used = 0
-----------------------------------------------------------------------------
\* ipc_shm.h:304 and 310: open_channel that returned 0 has opened the channel
\* for communication, which write() and read() make depend on `used`.  False of
\* the code, as README.md tells.
OpenIsUsed == \A m \in Modes : ctl[m] = "open" => used = 1
=============================================================================
