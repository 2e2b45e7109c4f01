------------------------------ MODULE StepRing ------------------------------
(***************************************************************************)
(* The agent's byte ring of step records (src/agent/domain/step_ring.c).   *)
(* A record never splits across the end of the storage: one that does not  *)
(* fit there is written at offset 0 and the tail of the storage is         *)
(* skipped.  A push the ring refuses changes nothing.                      *)
(*                                                                         *)
(* A record is abstracted to its size and a tag; every byte of the storage *)
(* carries the record and the position it was copied from, so that a read  *)
(* of an overwritten or torn record is visible.                            *)
(***************************************************************************)
EXTENDS Integers, Sequences

CONSTANTS
    Capacity,   \* ring_capacity (TXN_RING_BYTES in the agent)
    RecordMax,  \* TXN_STEP_RECORD_SIZE_MAX
    Tags,       \* contents that tell records apart
    Garbage     \* bytes the caller's storage may hold before the first push

VARIABLES
    read_offset,
    write_offset,
    wrap_offset,
    used_bytes,
    wrapped,
    storage

vars == <<read_offset, write_offset, wrap_offset, used_bytes, wrapped, storage>>

Record == [tag : Tags, size : 1..RecordMax]
Offset == 0..Capacity - 1

Byte(record, index) == [tag |-> record.tag, size |-> record.size, index |-> index]
Bytes == [tag : Tags, size : 1..RecordMax, index : 0..RecordMax - 1]

ASSUME RingAssumption ==
    /\ Capacity \in Nat
    /\ RecordMax \in Nat \ {0}
    /\ RecordMax < Capacity
    /\ Garbage \subseteq Bytes

\* Mutant: the window forgets the tail a wrapping record may skip.
WindowWithoutTail == Capacity

\* The credit the runner grants over the ring (TransactionRunner_Init).
Window == Capacity - RecordMax
-----------------------------------------------------------------------------
\* The storage is caller-owned and StepRing_Init leaves it as it is.
Init ==
    /\ read_offset = 0
    /\ write_offset = 0
    /\ wrap_offset = 0
    /\ used_bytes = 0
    /\ wrapped = FALSE
    /\ storage \in [Offset -> Garbage]

StepRing_Clear ==
    /\ read_offset' = 0
    /\ write_offset' = 0
    /\ wrap_offset' = 0
    /\ used_bytes' = 0
    /\ wrapped' = FALSE
    /\ UNCHANGED storage

\* append, with the write offset the caller has just set.
append(at, record) ==
    /\ storage' = [offset \in Offset |->
                     IF offset \in at..(at + record.size - 1)
                     THEN Byte(record, offset - at) ELSE storage[offset]]
    /\ write_offset' = at + record.size
    /\ used_bytes' = used_bytes + record.size
    /\ UNCHANGED read_offset

\* Mutant: off by one at the end of the storage.
FitsAtEndOffByOne(record) == write_offset + record.size <= Capacity + 1

FitsAtEnd(record) == write_offset + record.size <= Capacity
FitsAtStart(record) == record.size <= read_offset

\* Mutant: only the write offset is compared, not the end of the record.
FitsBeforeReadAnySize(record) == write_offset < read_offset

FitsBeforeRead(record) == write_offset + record.size <= read_offset

\* Mutant: the end of the first segment is not remembered.
pushContiguousForgetsWrap(record) ==
    \/ /\ FitsAtEnd(record)
       /\ append(write_offset, record)
       /\ UNCHANGED <<wrap_offset, wrapped>>
    \/ /\ ~FitsAtEnd(record)
       /\ FitsAtStart(record)
       /\ wrapped' = TRUE
       /\ append(0, record)
       /\ UNCHANGED wrap_offset

pushContiguous(record) ==
    \/ /\ FitsAtEnd(record)
       /\ append(write_offset, record)
       /\ UNCHANGED <<wrap_offset, wrapped>>
    \/ /\ ~FitsAtEnd(record)
       /\ FitsAtStart(record)
       /\ wrap_offset' = write_offset
       /\ wrapped' = TRUE
       /\ append(0, record)

pushWrapped(record) ==
    /\ FitsBeforeRead(record)
    /\ append(write_offset, record)
    /\ UNCHANGED <<wrap_offset, wrapped>>

StepRing_Push(record) ==
    \/ ~wrapped /\ pushContiguous(record)
    \/ wrapped /\ pushWrapped(record)

\* What StepRing_Push returns.
RingTakes(record) ==
    IF wrapped THEN FitsBeforeRead(record)
    ELSE FitsAtEnd(record) \/ FitsAtStart(record)

\* The credit test of pushRecord, the ring's one caller: the bytes in flight
\* (pushed - consumed) are the ring's used bytes.
InWindow(record) == used_bytes + record.size <= Window

StepRing_IsEmpty == used_bytes = 0

\* The end of the segment StepRing_Peek hands out.
segment_end == IF wrapped THEN wrap_offset ELSE write_offset

\* Mutant: the read offset is not wrapped at the end of the first segment.
StepRing_ReleaseWithoutWrap ==
    LET size == storage[read_offset].size
    IN  /\ ~StepRing_IsEmpty
        /\ \/ used_bytes = size /\ StepRing_Clear
           \/ /\ used_bytes # size
              /\ used_bytes' = used_bytes - size
              /\ read_offset' = (read_offset + size) % Capacity
              /\ UNCHANGED <<write_offset, wrap_offset, wrapped, storage>>

\* releaseRecord: the size is the one decoded at the read offset.
StepRing_Release ==
    LET size == storage[read_offset].size
        read == read_offset + size
        used == used_bytes - size
    IN  /\ ~StepRing_IsEmpty
        /\ \/ used = 0 /\ StepRing_Clear
           \/ /\ used # 0
              /\ used_bytes' = used
              /\ IF wrapped /\ read = wrap_offset
                 THEN read_offset' = 0 /\ wrapped' = FALSE
                 ELSE read_offset' = read /\ UNCHANGED wrapped
              /\ UNCHANGED <<write_offset, wrap_offset, storage>>

Next ==
    \/ \E record \in Record : StepRing_Push(record)
    \/ StepRing_Release
    \/ StepRing_Clear

Spec == Init /\ [][Next]_vars
-----------------------------------------------------------------------------
\* Every offset stays inside the storage and every byte is a record's byte.
TypeOK ==
    /\ read_offset \in 0..Capacity
    /\ write_offset \in 0..Capacity
    /\ wrap_offset \in 0..Capacity
    /\ used_bytes \in 0..Capacity
    /\ wrapped \in BOOLEAN
    /\ storage \in [Offset -> Bytes]

\* The bytes of records not yet released: one segment, or two once wrapped.
LiveBytes ==
    IF wrapped
    THEN (read_offset..(wrap_offset - 1)) \cup (0..(write_offset - 1))
    ELSE read_offset..(write_offset - 1)

\* "Callers size their credit to capacity minus one maximal record, which
\* covers that skipped tail" (step_ring.h): a push the runner's window admits
\* is never refused by the ring, so a transaction whose client keeps to the
\* window never aborts with reason overrun.
WindowCoversTail == \A record \in Record : InWindow(record) => RingTakes(record)

\* The record StepRing_Peek hands to TxnStep_Decode lies whole inside the
\* segment it returns, and all its bytes are still the ones pushed together.
HeadIsWhole ==
    ~StepRing_IsEmpty =>
        LET head == storage[read_offset]
        IN  /\ head.index = 0
            /\ read_offset + head.size <= segment_end
            /\ \A i \in 0..(head.size - 1) : storage[read_offset + i] = Byte(head, i)

\* No push writes over a byte that a later Peek still returns.
NoOverwrite ==
    [][\A offset \in LiveBytes \cap LiveBytes' : storage'[offset] = storage[offset]]_vars

\* The records between the read and the write offset, in the order
\* StepRing_Peek and StepRing_Release walk them.
Corrupt == [tag |-> "corrupt", size |-> 0]
Walk[offset \in 0..Capacity, left \in 0..Capacity] ==
    IF left = 0 THEN <<>>
    ELSE LET at == IF wrapped /\ offset = wrap_offset THEN 0 ELSE offset
         IN  IF at \notin Offset \/ storage[at].index # 0 \/ storage[at].size > left
             THEN <<Corrupt>>
             ELSE <<[tag |-> storage[at].tag, size |-> storage[at].size]>>
                    \o Walk[at + storage[at].size, left - storage[at].size]

\* The ring is a FIFO of whole records: every push appends one, every release
\* drops the oldest, whatever the wrapping did in between.
Queue == INSTANCE StepQueue WITH queue <- Walk[read_offset, used_bytes]
ImplementsStepQueue == Queue!Spec
=============================================================================
