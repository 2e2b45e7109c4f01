--------------------------- MODULE StepRingProofs ---------------------------
(***************************************************************************)
(* The step ring's credit and integrity properties, for every capacity,    *)
(* record size limit and record content.  The inductive invariant RingInv  *)
(* says where the live bytes are (Layout) and that they are a chain of     *)
(* whole records (Chain, Heads).                                           *)
(***************************************************************************)
EXTENDS StepRing, TLAPS

\* The offsets of the one or two live segments.  A wrapped ring has a skipped
\* tail shorter than one record: the record that did not fit there.
Layout ==
    /\ used_bytes = 0 => read_offset = 0
    /\ ~wrapped => /\ read_offset <= write_offset
                   /\ used_bytes = write_offset - read_offset
    /\ wrapped => /\ 0 < write_offset
                  /\ write_offset <= read_offset
                  /\ read_offset < wrap_offset
                  /\ Capacity - RecordMax < wrap_offset
                  /\ used_bytes = wrap_offset - read_offset + write_offset

\* The end of the segment a live byte is in.
SegmentEnd(offset) ==
    IF wrapped /\ offset >= read_offset THEN wrap_offset ELSE write_offset

WholeAt(offset) ==
    /\ offset + storage[offset].size <= SegmentEnd(offset)
    /\ \A i \in 0..(storage[offset].size - 1) :
           storage[offset + i] = Byte(storage[offset], i)

FollowedAt(offset) ==
    LET next == offset + storage[offset].size
    IN  next < SegmentEnd(offset) => storage[next].index = 0

\* Every live record start heads a whole record, followed by the end of the
\* segment or by another record start.
Chain == \A offset \in LiveBytes :
             storage[offset].index = 0 => WholeAt(offset) /\ FollowedAt(offset)

\* Both segments start with a record.
Heads ==
    /\ used_bytes # 0 => storage[read_offset].index = 0
    /\ wrapped => storage[0].index = 0

RingInv == TypeOK /\ Layout /\ Chain /\ Heads
-----------------------------------------------------------------------------
\* A push that stays in the window always finds room: at the end, in front of
\* the read offset after skipping the tail, or between the two segments.
LEMMA LayoutCoversWindow ==
    ASSUME TypeOK, Layout, NEW record \in Record, InWindow(record)
    PROVE  RingTakes(record)
<1> USE RingAssumption DEF Record, TypeOK, Layout, InWindow, Window, RingTakes,
        FitsAtEnd, FitsAtStart, FitsBeforeRead
<1>1. CASE wrapped
  BY <1>1
<1>2. CASE ~wrapped
  BY <1>2
<1> QED BY <1>1, <1>2

LEMMA InitRing == Init => RingInv
<1> SUFFICES ASSUME Init PROVE RingInv
  OBVIOUS
<1>1. storage \in [Offset -> Bytes]
  BY RingAssumption DEF Init
<1>a. wrapped \in BOOLEAN
  BY Zenon DEF Init
<1>2. TypeOK
  BY <1>1, <1>a, RingAssumption DEF Init, TypeOK
<1>3. Layout /\ Heads
  BY DEF Init, Layout, Heads
<1>4. Chain
  BY DEF Init, Chain, LiveBytes
<1> QED BY <1>2, <1>3, <1>4 DEF RingInv

LEMMA ClearRing ==
    ASSUME RingInv, StepRing_Clear
    PROVE  RingInv'
<1>a. wrapped' \in BOOLEAN /\ ~wrapped'
  BY Zenon DEF StepRing_Clear
<1>1. TypeOK'
  BY <1>a, RingAssumption DEF StepRing_Clear, RingInv, TypeOK
<1>2. Layout' /\ Heads'
  BY <1>a DEF StepRing_Clear, Layout, Heads
<1>3. LiveBytes' = {}
  BY <1>a DEF StepRing_Clear, LiveBytes
<1>4. Chain'
  BY <1>3 DEF Chain
<1> QED BY <1>1, <1>2, <1>4 DEF RingInv

\* append at an offset whose bytes fit in the storage: what the storage holds
\* afterwards.
LEMMA AppendBytes ==
    ASSUME TypeOK, NEW at \in 0..Capacity, NEW record \in Record,
           at + record.size <= Capacity, append(at, record)
    PROVE  /\ storage' \in [Offset -> Bytes]
           /\ \A offset \in Offset :
                  offset \notin at..(at + record.size - 1) => storage'[offset] = storage[offset]
           /\ storage'[at] = Byte(record, 0)
           /\ \A i \in 0..(record.size - 1) : storage'[at + i] = Byte(record, i)
<1>0. record.size \in 1..RecordMax /\ record.tag \in Tags
  BY DEF Record
<1>1. \A i \in 0..(record.size - 1) : Byte(record, i) \in Bytes
  BY <1>0, RingAssumption DEF Byte, Bytes
<1>2. \A offset \in Offset : storage'[offset] \in Bytes
  BY <1>0, <1>1, RingAssumption DEF append, TypeOK, Offset
<1>3. storage' = [offset \in Offset |-> storage'[offset]]
  BY DEF append
<1>4. storage' \in [Offset -> Bytes]
  BY <1>2, <1>3
<1>5. \A i \in 0..(record.size - 1) : storage'[at + i] = Byte(record, i)
  <2> TAKE i \in 0..(record.size - 1)
  <2>1. at + i \in Offset /\ at + i \in at..(at + record.size - 1) /\ (at + i) - at = i
    BY <1>0, RingAssumption DEF Offset
  <2> QED BY <2>1 DEF append
<1>6. storage'[at] = Byte(record, 0)
  BY <1>0, <1>5, RingAssumption
<1> QED BY <1>0, <1>4, <1>5, <1>6 DEF append, Offset

\* A live record stays whole when the bytes of its segment stay and the
\* segment at most grows by another record.
LEMMA KeptRecord ==
    ASSUME NEW offset \in Offset, storage \in [Offset -> Bytes],
           SegmentEnd(offset) \in 0..Capacity, SegmentEnd(offset)' \in Int,
           WholeAt(offset), FollowedAt(offset),
           \A o \in Offset : offset <= o /\ o < SegmentEnd(offset) => storage'[o] = storage[o],
           offset < SegmentEnd(offset),
           SegmentEnd(offset)' >= SegmentEnd(offset),
           SegmentEnd(offset)' > SegmentEnd(offset) => storage'[SegmentEnd(offset)].index = 0
    PROVE  WholeAt(offset)' /\ FollowedAt(offset)'
<1> USE RingAssumption DEF Offset
<1>a. storage'[offset] = storage[offset]
  BY DEF Offset
<1>b. storage[offset] \in Bytes
  OBVIOUS
<1>1. storage'[offset] = storage[offset] /\ storage[offset].size \in 1..RecordMax
  BY <1>a, <1>b DEF Bytes
<1>2. /\ offset + storage[offset].size <= SegmentEnd(offset)
      /\ \A i \in 0..(storage[offset].size - 1) : storage[offset + i] = Byte(storage[offset], i)
  BY DEF WholeAt
<1>3. offset + storage[offset].size < SegmentEnd(offset)
          => storage[offset + storage[offset].size].index = 0
  BY DEF FollowedAt
<1>4. \A i \in 0..(storage[offset].size - 1) : storage'[offset + i] = storage[offset + i]
  BY <1>1, <1>2
<1>5. WholeAt(offset)'
  <2>1. offset + storage'[offset].size <= SegmentEnd(offset)'
    BY <1>1, <1>2
  <2>2. \A i \in 0..(storage'[offset].size - 1) : storage'[offset + i] = Byte(storage'[offset], i)
    BY <1>1, <1>2, <1>4
  <2> QED BY <2>1, <2>2 DEF WholeAt
<1>6. CASE offset + storage[offset].size < SegmentEnd(offset)
  BY <1>1, <1>3, <1>5, <1>6 DEF FollowedAt
<1>7. CASE offset + storage[offset].size = SegmentEnd(offset)
  BY <1>1, <1>5, <1>7 DEF FollowedAt
<1>8. \/ offset + storage[offset].size < SegmentEnd(offset)
      \/ offset + storage[offset].size = SegmentEnd(offset)
  <2> DEFINE end == SegmentEnd(offset)
             size == storage[offset].size
  <2>1. end \in Int /\ size \in Int /\ offset + size <= end
    BY <1>1, <1>2
  <2> HIDE DEF end, size
  <2>2. offset + size < end \/ offset + size = end
    BY <2>1
  <2> QED BY <2>2 DEF end, size
<1> QED BY <1>6, <1>7, <1>8

\* The record just copied is whole and ends its segment; no other byte of it
\* looks like a record start.
LEMMA NewRecord ==
    ASSUME NEW at \in Int, NEW record \in Record, NEW offset \in at..(at + record.size - 1),
           \A i \in 0..(record.size - 1) : storage'[at + i] = Byte(record, i),
           SegmentEnd(at)' = at + record.size,
           storage'[offset].index = 0
    PROVE  WholeAt(offset)' /\ FollowedAt(offset)'
<1>0. /\ record.size \in 1..RecordMax
      /\ \A i \in Int : Byte(record, i).index = i /\ Byte(record, i).size = record.size
      /\ \A i \in Int : Byte(record, i) = Byte(Byte(record, 0), i)
  BY DEF Record, Byte
<1>1. PICK i \in 0..(record.size - 1) : offset = at + i
  BY <1>0, RingAssumption
<1>2. storage'[offset] = Byte(record, i)
  BY <1>1
<1>3. i = 0 /\ offset = at
  BY <1>0, <1>1, <1>2
<1>4. storage'[at].size = record.size /\ storage'[at] = Byte(record, 0)
  BY <1>0, <1>2, <1>3
<1>5. \A j \in 0..(storage'[at].size - 1) : storage'[at + j] = Byte(storage'[at], j)
  BY <1>0, <1>4
<1> QED BY <1>0, <1>3, <1>4, <1>5, RingAssumption DEF WholeAt, FollowedAt

\* A record copied behind the live bytes of the segment being written extends
\* that segment's chain, or starts the second segment's.
LEMMA PushRing ==
    ASSUME RingInv, NEW record \in Record, StepRing_Push(record)
    PROVE  RingInv'
<1> USE RingAssumption DEF Offset
<1>0. /\ record.size \in 1..RecordMax
      /\ Byte(record, 0).index = 0
  BY DEF Record, Byte
<1>t. /\ read_offset \in 0..Capacity
      /\ write_offset \in 0..Capacity
      /\ wrap_offset \in 0..Capacity
      /\ used_bytes \in 0..Capacity
      /\ wrapped \in BOOLEAN
      /\ storage \in [Offset -> Bytes]
  BY DEF RingInv, TypeOK
<1>1. CASE ~wrapped /\ FitsAtEnd(record) /\ append(write_offset, record)
           /\ UNCHANGED <<wrap_offset, wrapped>>
  <2>1. /\ storage' \in [Offset -> Bytes]
        /\ \A offset \in Offset : offset < write_offset => storage'[offset] = storage[offset]
        /\ storage'[write_offset] = Byte(record, 0)
        /\ \A i \in 0..(record.size - 1) : storage'[write_offset + i] = Byte(record, i)
    BY <1>0, <1>1, <1>t, AppendBytes DEF FitsAtEnd, RingInv
  <2>2. /\ write_offset' = write_offset + record.size /\ write_offset' <= Capacity
        /\ read_offset' = read_offset
        /\ wrap_offset' = wrap_offset
        /\ used_bytes' = used_bytes + record.size
        /\ wrapped' = wrapped
    BY <1>1 DEF append, FitsAtEnd
  <2>3. read_offset <= write_offset /\ used_bytes = write_offset - read_offset
    BY <1>1 DEF RingInv, Layout
  <2>4. TypeOK'
    BY <1>0, <1>t, <2>1, <2>2, <2>3 DEF TypeOK
  <2>5. Layout'
    BY <1>0, <1>1, <1>t, <2>2, <2>3 DEF Layout
  <2>6. \A offset \in Int : SegmentEnd(offset) = write_offset /\ SegmentEnd(offset)' = write_offset'
    BY <1>1, <2>2 DEF SegmentEnd
  <2>7. LiveBytes = read_offset..(write_offset - 1) /\ LiveBytes' = read_offset..(write_offset' - 1)
    BY <1>1, <2>2 DEF LiveBytes
  <2>8. ASSUME NEW offset \in LiveBytes', storage'[offset].index = 0
        PROVE  WholeAt(offset)' /\ FollowedAt(offset)'
    <3>0. offset \in Offset /\ read_offset <= offset /\ offset < write_offset + record.size
      BY <2>7, <2>2, <1>0, <1>t
    <3>1. CASE offset < write_offset
      <4>1. offset \in LiveBytes /\ storage'[offset] = storage[offset]
        BY <3>0, <3>1, <1>t, <2>1, <2>7
      <4>2. WholeAt(offset) /\ FollowedAt(offset)
        BY <4>1, <2>8 DEF RingInv, Chain
      <4>3. SegmentEnd(offset) = write_offset /\ SegmentEnd(offset)' = write_offset + record.size
        BY <2>2, <2>6, <3>0
      <4>4. /\ \A o \in Offset : offset <= o /\ o < SegmentEnd(offset) => storage'[o] = storage[o]
            /\ offset < SegmentEnd(offset)
            /\ SegmentEnd(offset) \in 0..Capacity
            /\ SegmentEnd(offset)' \in Int
            /\ SegmentEnd(offset)' >= SegmentEnd(offset)
        BY <4>3, <3>0, <3>1, <1>0, <1>t, <2>1
      <4>5. storage'[SegmentEnd(offset)].index = 0
        BY <4>3, <1>0, <2>1
      <4> QED BY <3>0, <4>2, <4>4, <4>5, <1>t, KeptRecord, Zenon
    <3>2. CASE offset >= write_offset
      <4>1. PICK at \in Int : at = write_offset
        BY <1>t
      <4>2. SegmentEnd(at)' = at + record.size
        BY <4>1, <2>2, <2>6
      <4>3. offset \in at..(at + record.size - 1)
        BY <4>1, <3>0, <3>2, <1>0, <1>t
      <4>4. \A i \in 0..(record.size - 1) : storage'[at + i] = Byte(record, i)
        BY <4>1, <2>1
      <4> QED BY <4>2, <4>3, <4>4, <2>8, NewRecord, Zenon
    <3>3. offset < write_offset \/ offset >= write_offset
      BY <3>0, <1>t
    <3> QED BY <3>1, <3>2, <3>3
  <2>9. Heads'
    <3>1. read_offset = write_offset \/ storage[read_offset].index = 0
      BY <2>3, <1>t DEF RingInv, Heads
    <3> QED BY <3>1, <1>0, <1>1, <1>t, <2>1, <2>2, <2>3 DEF Heads
  <2> QED BY <2>4, <2>5, <2>8, <2>9 DEF RingInv, Chain
<1>2. CASE ~wrapped /\ ~FitsAtEnd(record) /\ FitsAtStart(record)
           /\ wrap_offset' = write_offset /\ wrapped' = TRUE /\ append(0, record)
  <2>1. /\ storage' \in [Offset -> Bytes]
        /\ \A offset \in Offset : offset >= record.size => storage'[offset] = storage[offset]
        /\ storage'[0] = Byte(record, 0)
        /\ \A i \in 0..(record.size - 1) : storage'[0 + i] = Byte(record, i)
    BY <1>0, <1>2, <1>t, AppendBytes DEF FitsAtStart, RingInv
  <2>w. wrapped' \in BOOLEAN /\ wrapped'
    BY <1>2, Zenon
  <2>2. /\ write_offset' = record.size
        /\ read_offset' = read_offset
        /\ wrap_offset' = write_offset
        /\ used_bytes' = used_bytes + record.size
        /\ record.size <= read_offset
        /\ Capacity < write_offset + record.size
    BY <1>0, <1>2, <1>t DEF append, FitsAtStart, FitsAtEnd
  <2>3. read_offset < write_offset /\ used_bytes = write_offset - read_offset
    BY <1>0, <1>2, <1>t, <2>2 DEF RingInv, Layout
  <2>4. TypeOK'
    BY <1>0, <1>t, <2>1, <2>2, <2>3, <2>w DEF TypeOK
  <2>5. Layout'
    BY <1>0, <1>t, <2>2, <2>3, <2>w DEF Layout
  <2>8. ASSUME NEW offset \in LiveBytes', storage'[offset].index = 0
        PROVE  WholeAt(offset)' /\ FollowedAt(offset)'
    <3>1. CASE offset \in read_offset..(write_offset - 1)
      <4>1. offset \in LiveBytes /\ offset \in Offset /\ storage'[offset] = storage[offset]
        BY <3>1, <1>0, <1>2, <1>t, <2>1, <2>2 DEF LiveBytes
      <4>2. WholeAt(offset) /\ FollowedAt(offset)
        BY <4>1, <2>8 DEF RingInv, Chain
      <4>3. SegmentEnd(offset) = write_offset /\ SegmentEnd(offset)' = write_offset
        BY <1>2, <2>w, <2>2, <3>1 DEF SegmentEnd
      <4>4. /\ \A o \in Offset : offset <= o /\ o < SegmentEnd(offset) => storage'[o] = storage[o]
            /\ offset < SegmentEnd(offset)
            /\ SegmentEnd(offset) \in 0..Capacity
            /\ SegmentEnd(offset)' \in Int
            /\ SegmentEnd(offset)' >= SegmentEnd(offset)
            /\ ~(SegmentEnd(offset)' > SegmentEnd(offset))
        BY <4>3, <3>1, <1>0, <1>t, <2>1, <2>2
      <4> QED BY <4>1, <4>2, <4>4, <1>t, KeptRecord, Zenon
    <3>2. CASE offset \in 0..(record.size - 1)
      <4>1. SegmentEnd(0)' = 0 + record.size
        BY <1>0, <1>t, <2>w, <2>2 DEF SegmentEnd
      <4>2. offset \in 0..(0 + record.size - 1)
        BY <3>2, <1>0
      <4> QED BY <4>1, <4>2, <2>1, <2>8, NewRecord
    <3> QED BY <3>1, <3>2, <2>w, <2>2 DEF LiveBytes
  <2>9. Heads'
    <3>1. storage[read_offset].index = 0
      BY <2>3, <1>t DEF RingInv, Heads
    <3> QED BY <3>1, <1>0, <1>t, <2>1, <2>2, <2>3 DEF Heads
  <2> QED BY <2>4, <2>5, <2>8, <2>9 DEF RingInv, Chain
<1>3. CASE wrapped /\ FitsBeforeRead(record) /\ append(write_offset, record)
           /\ UNCHANGED <<wrap_offset, wrapped>>
  <2>1. /\ storage' \in [Offset -> Bytes]
        /\ \A offset \in Offset : offset < write_offset \/ offset >= write_offset + record.size
               => storage'[offset] = storage[offset]
        /\ storage'[write_offset] = Byte(record, 0)
        /\ \A i \in 0..(record.size - 1) : storage'[write_offset + i] = Byte(record, i)
    BY <1>0, <1>3, <1>t, AppendBytes DEF FitsBeforeRead, RingInv
  <2>2. /\ write_offset' = write_offset + record.size /\ write_offset' <= read_offset
        /\ read_offset' = read_offset
        /\ wrap_offset' = wrap_offset
        /\ used_bytes' = used_bytes + record.size
        /\ wrapped' = wrapped
    BY <1>3 DEF append, FitsBeforeRead
  <2>w. wrapped' /\ wrapped
    BY <1>3, Zenon
  <2>3. /\ 0 < write_offset
        /\ read_offset < wrap_offset
        /\ Capacity - RecordMax < wrap_offset
        /\ used_bytes = wrap_offset - read_offset + write_offset
    BY <1>3 DEF RingInv, Layout
  <2>4. TypeOK'
    BY <1>0, <1>t, <2>1, <2>2, <2>3 DEF TypeOK
  <2>5. Layout'
    BY <1>0, <1>3, <1>t, <2>2, <2>3 DEF Layout
  <2>8. ASSUME NEW offset \in LiveBytes', storage'[offset].index = 0
        PROVE  WholeAt(offset)' /\ FollowedAt(offset)'
    <3>a. LiveBytes' = (read_offset'..(wrap_offset' - 1)) \cup (0..(write_offset' - 1))
      BY <2>w, Zenon DEF LiveBytes
    <3>0. offset \in read_offset..(wrap_offset - 1) \/ offset \in 0..(write_offset + record.size - 1)
      <4>1. /\ read_offset' = read_offset
            /\ wrap_offset' = wrap_offset
            /\ write_offset' = write_offset + record.size
        BY <2>2
      <4>2. offset \in (read_offset'..(wrap_offset' - 1)) \/ offset \in (0..(write_offset' - 1))
        BY <3>a, Zenon
      <4> QED BY <4>1, <4>2, <1>0, <1>t
    <3>1. CASE offset \in read_offset..(wrap_offset - 1)
      <4>1. offset \in LiveBytes /\ offset \in Offset /\ storage'[offset] = storage[offset]
        BY <3>1, <1>0, <1>3, <1>t, <2>1, <2>2 DEF LiveBytes
      <4>2. WholeAt(offset) /\ FollowedAt(offset)
        BY <4>1, <2>8 DEF RingInv, Chain
      <4>3. SegmentEnd(offset) = wrap_offset /\ SegmentEnd(offset)' = wrap_offset
        BY <1>3, <2>2, <3>1 DEF SegmentEnd
      <4>4. /\ \A o \in Offset : offset <= o /\ o < SegmentEnd(offset) => storage'[o] = storage[o]
            /\ offset < SegmentEnd(offset)
            /\ SegmentEnd(offset) \in 0..Capacity
            /\ SegmentEnd(offset)' \in Int
            /\ SegmentEnd(offset)' >= SegmentEnd(offset)
            /\ ~(SegmentEnd(offset)' > SegmentEnd(offset))
        BY <4>3, <3>1, <1>0, <1>t, <2>1, <2>2
      <4> QED BY <4>1, <4>2, <4>4, <1>t, KeptRecord, Zenon
    <3>2. CASE offset \in 0..(write_offset - 1)
      <4>1. offset \in LiveBytes /\ offset \in Offset /\ storage'[offset] = storage[offset]
        BY <3>2, <1>3, <1>t, <2>1 DEF LiveBytes
      <4>2. WholeAt(offset) /\ FollowedAt(offset)
        BY <4>1, <2>8 DEF RingInv, Chain
      <4>3. SegmentEnd(offset) = write_offset /\ SegmentEnd(offset)' = write_offset + record.size
        BY <1>0, <1>3, <1>t, <2>2, <3>2 DEF SegmentEnd
      <4>4. /\ \A o \in Offset : offset <= o /\ o < SegmentEnd(offset) => storage'[o] = storage[o]
            /\ offset < SegmentEnd(offset)
            /\ SegmentEnd(offset) \in 0..Capacity
            /\ SegmentEnd(offset)' \in Int
            /\ SegmentEnd(offset)' >= SegmentEnd(offset)
        BY <4>3, <3>2, <1>0, <1>t, <2>1
      <4>5. storage'[SegmentEnd(offset)].index = 0
        BY <4>3, <1>0, <2>1
      <4> QED BY <4>1, <4>2, <4>4, <4>5, <1>t, KeptRecord, Zenon
    <3>3. CASE offset \in write_offset..(write_offset + record.size - 1)
      <4>1. PICK at \in Int : at = write_offset
        BY <1>t
      <4>2. SegmentEnd(at)' = at + record.size
        BY <4>1, <1>0, <1>3, <1>t, <2>2 DEF SegmentEnd
      <4>3. offset \in at..(at + record.size - 1)
        BY <4>1, <3>3
      <4>4. \A i \in 0..(record.size - 1) : storage'[at + i] = Byte(record, i)
        BY <4>1, <2>1
      <4> QED BY <4>2, <4>3, <4>4, <2>8, NewRecord, Zenon
    <3> QED BY <3>0, <3>1, <3>2, <3>3, <1>0, <1>t
  <2>9. Heads'
    BY <1>0, <1>3, <1>t, <2>1, <2>2, <2>3 DEF Heads, RingInv
  <2> QED BY <2>4, <2>5, <2>8, <2>9 DEF RingInv, Chain
<1> QED BY <1>1, <1>2, <1>3 DEF StepRing_Push, pushContiguous, pushWrapped

\* releaseRecord drops exactly the record Peek handed out: the read offset
\* moves to the next record start, to the second segment, or the ring empties.
LEMMA ReleaseRing ==
    ASSUME RingInv, StepRing_Release
    PROVE  RingInv'
<1> USE RingAssumption DEF Offset
<1>t. /\ read_offset \in 0..Capacity
      /\ write_offset \in 0..Capacity
      /\ wrap_offset \in 0..Capacity
      /\ used_bytes \in 0..Capacity
      /\ wrapped \in BOOLEAN
      /\ storage \in [Offset -> Bytes]
  BY DEF RingInv, TypeOK
<1>r. PICK size \in Int : size = storage[read_offset].size
  <2>1. used_bytes # 0
    BY DEF StepRing_Release, StepRing_IsEmpty
  <2>2. read_offset \in Offset
    BY <2>1, <1>t DEF RingInv, Layout
  <2> QED BY <2>2, <1>t DEF Bytes
<1>1. /\ used_bytes # 0
      /\ read_offset \in LiveBytes
      /\ size \in 1..RecordMax
      /\ read_offset + size <= SegmentEnd(read_offset)
      /\ read_offset + size < SegmentEnd(read_offset) => storage[read_offset + size].index = 0
  <2>1. used_bytes # 0
    BY DEF StepRing_Release, StepRing_IsEmpty
  <2>2. read_offset \in LiveBytes /\ read_offset \in Offset
    BY <2>1, <1>t DEF RingInv, Layout, LiveBytes
  <2>3. size \in 1..RecordMax
    BY <2>2, <1>t, <1>r DEF Bytes
  <2>4. WholeAt(read_offset) /\ FollowedAt(read_offset)
    BY <2>1, <2>2 DEF RingInv, Chain, Heads
  <2> QED BY <2>1, <2>2, <2>3, <2>4, <1>r DEF WholeAt, FollowedAt
<1>2. CASE used_bytes - size = 0
  BY <1>2, <1>r, ClearRing DEF StepRing_Release
<1>3. CASE used_bytes - size # 0 /\ ~wrapped
  <2>1. /\ read_offset' = read_offset + size
        /\ used_bytes' = used_bytes - size
        /\ write_offset' = write_offset
        /\ wrap_offset' = wrap_offset
        /\ storage' = storage
        /\ wrapped' = wrapped
    BY <1>3, <1>r DEF StepRing_Release
  <2>2. /\ read_offset + size < write_offset
        /\ used_bytes = write_offset - read_offset
        /\ storage[read_offset + size].index = 0
    BY <1>1, <1>3, <1>t DEF RingInv, Layout, SegmentEnd
  <2>3. TypeOK' /\ Layout' /\ Heads'
    BY <1>1, <1>3, <1>t, <2>1, <2>2 DEF TypeOK, Layout, Heads
  <2>4. ASSUME NEW offset \in LiveBytes', storage'[offset].index = 0
        PROVE  WholeAt(offset)' /\ FollowedAt(offset)'
    <3>1. offset \in LiveBytes /\ offset \in Int
      BY <2>1, <2>2, <1>1, <1>3, <1>t DEF LiveBytes
    <3>2. WholeAt(offset) /\ FollowedAt(offset)
      BY <3>1, <2>1, <2>4 DEF RingInv, Chain
    <3>3. SegmentEnd(offset) = write_offset /\ SegmentEnd(offset)' = write_offset
      BY <1>3, <2>1 DEF SegmentEnd
    <3> QED BY <3>2, <3>3, <2>1 DEF WholeAt, FollowedAt
  <2> QED BY <2>3, <2>4 DEF RingInv, Chain
<1>4. CASE used_bytes - size # 0 /\ wrapped /\ read_offset + size = wrap_offset
  <2>1. /\ read_offset' = 0
        /\ used_bytes' = used_bytes - size
        /\ write_offset' = write_offset
        /\ wrap_offset' = wrap_offset
        /\ storage' = storage
    BY <1>4, <1>r DEF StepRing_Release
  <2>w. wrapped' \in BOOLEAN /\ ~wrapped'
    BY <1>4, <1>r, Zenon DEF StepRing_Release
  <2>2. /\ 0 < write_offset
        /\ write_offset <= read_offset
        /\ used_bytes = wrap_offset - read_offset + write_offset
        /\ storage[0].index = 0
    BY <1>4 DEF RingInv, Layout, Heads
  <2>3. TypeOK' /\ Layout' /\ Heads'
    BY <1>1, <1>4, <1>t, <2>1, <2>2, <2>w DEF TypeOK, Layout, Heads
  <2>4. ASSUME NEW offset \in LiveBytes', storage'[offset].index = 0
        PROVE  WholeAt(offset)' /\ FollowedAt(offset)'
    <3>0. offset \in 0..(write_offset - 1)
      BY <2>1, <2>w DEF LiveBytes
    <3>1. offset \in LiveBytes
      BY <3>0, <1>4 DEF LiveBytes
    <3>2. WholeAt(offset) /\ FollowedAt(offset)
      BY <3>1, <2>1, <2>4 DEF RingInv, Chain
    <3>3. SegmentEnd(offset) = write_offset /\ SegmentEnd(offset)' = write_offset
      BY <1>t, <2>1, <2>2, <2>w, <3>0 DEF SegmentEnd
    <3> QED BY <3>2, <3>3, <2>1 DEF WholeAt, FollowedAt
  <2> QED BY <2>3, <2>4 DEF RingInv, Chain
<1>5. CASE used_bytes - size # 0 /\ wrapped /\ read_offset + size # wrap_offset
  <2>1. /\ read_offset' = read_offset + size
        /\ used_bytes' = used_bytes - size
        /\ write_offset' = write_offset
        /\ wrap_offset' = wrap_offset
        /\ storage' = storage
        /\ wrapped' = wrapped
    BY <1>5, <1>r DEF StepRing_Release
  <2>2. /\ 0 < write_offset
        /\ write_offset <= read_offset
        /\ Capacity - RecordMax < wrap_offset
        /\ used_bytes = wrap_offset - read_offset + write_offset
        /\ storage[0].index = 0
    BY <1>5 DEF RingInv, Layout, Heads
  <2>3. read_offset + size < wrap_offset /\ storage[read_offset + size].index = 0
    BY <1>1, <1>5, <1>t DEF SegmentEnd
  <2>4. TypeOK' /\ Layout' /\ Heads'
    BY <1>1, <1>5, <1>t, <2>1, <2>2, <2>3 DEF TypeOK, Layout, Heads
  <2>5. ASSUME NEW offset \in LiveBytes', storage'[offset].index = 0
        PROVE  WholeAt(offset)' /\ FollowedAt(offset)'
    <3>0. offset \in ((read_offset + size)..(wrap_offset - 1)) \cup (0..(write_offset - 1))
      BY <2>1, <1>5 DEF LiveBytes
    <3>1. offset \in LiveBytes
      BY <3>0, <1>1, <1>5, <1>t DEF LiveBytes
    <3>2. WholeAt(offset) /\ FollowedAt(offset)
      BY <3>1, <2>1, <2>5 DEF RingInv, Chain
    <3>3. SegmentEnd(offset)' = SegmentEnd(offset)
      BY <1>1, <1>5, <1>t, <2>1, <2>2, <3>0 DEF SegmentEnd
    <3> QED BY <3>2, <3>3, <2>1 DEF WholeAt, FollowedAt
  <2> QED BY <2>4, <2>5 DEF RingInv, Chain
<1> QED BY <1>t, <1>2, <1>3, <1>4, <1>5

LEMMA NextRing == RingInv /\ [Next]_vars => RingInv'
<1> SUFFICES ASSUME RingInv, [Next]_vars PROVE RingInv'
  OBVIOUS
<1>1. ASSUME NEW record \in Record, StepRing_Push(record)
      PROVE  RingInv'
  BY <1>1, PushRing
<1>2. CASE StepRing_Release
  BY <1>2, ReleaseRing
<1>3. CASE StepRing_Clear
  BY <1>3, ClearRing
<1>4. CASE UNCHANGED vars
  BY <1>4 DEF vars, RingInv, TypeOK, Layout, Chain, Heads, LiveBytes, WholeAt,
     FollowedAt, SegmentEnd
<1> QED BY <1>1, <1>2, <1>3, <1>4 DEF Next

\* The ring's offsets always describe one or two segments of whole records.
THEOREM RingIsInvariant == Spec => []RingInv
BY InitRing, NextRing, PTL DEF Spec

\* The offsets of the ring never leave its storage, whatever the runner pushes
\* and releases (step_ring.c).
THEOREM RingTypeCorrect == Spec => []TypeOK
<1>1. RingInv => TypeOK
  BY DEF RingInv
<1> QED BY <1>1, RingIsInvariant, PTL

\* A record within capacity minus one maximal record is always taken: the
\* claim of step_ring.h, for every capacity and every record size limit.
THEOREM WindowIsEnough == Spec => []WindowCoversTail
<1>1. RingInv => WindowCoversTail
  BY LayoutCoversWindow DEF RingInv, WindowCoversTail
<1> QED BY <1>1, RingIsInvariant, PTL

\* StepRing_Peek always returns the start of one whole, intact record.
THEOREM PeekReturnsWholeRecord == Spec => []HeadIsWhole
<1>1. RingInv => HeadIsWhole
  <2> SUFFICES ASSUME RingInv, used_bytes # 0 PROVE HeadIsWhole
    BY DEF HeadIsWhole, StepRing_IsEmpty
  <2>1. read_offset \in LiveBytes /\ SegmentEnd(read_offset) = segment_end
    BY RingAssumption DEF RingInv, TypeOK, Layout, LiveBytes, SegmentEnd, segment_end
  <2>2. storage[read_offset].index = 0 /\ WholeAt(read_offset)
    BY <2>1 DEF RingInv, Heads, Chain
  <2> QED BY <2>1, <2>2 DEF HeadIsWhole, WholeAt
<1> QED BY <1>1, RingIsInvariant, PTL

\* Pushing never changes a byte of a record that is still to be read.
THEOREM PushesNeverOverwrite == Spec => NoOverwrite
<1> DEFINE Kept == \A offset \in LiveBytes \cap LiveBytes' : storage'[offset] = storage[offset]
<1>1. ASSUME RingInv, [Next]_vars PROVE [Kept]_vars
  <2> USE RingAssumption DEF Offset
  <2>t. /\ read_offset \in 0..Capacity
        /\ write_offset \in 0..Capacity
        /\ wrap_offset \in 0..Capacity
        /\ wrapped \in BOOLEAN
    BY <1>1 DEF RingInv, TypeOK
  <2>1. ASSUME NEW record \in Record, StepRing_Push(record)
        PROVE  Kept
    <3>0. record.size \in 1..RecordMax
      BY DEF Record
    <3>1. CASE ~wrapped /\ FitsAtEnd(record) /\ append(write_offset, record)
      <4>1. LiveBytes = read_offset..(write_offset - 1)
        BY <3>1 DEF LiveBytes
      <4> QED BY <3>0, <3>1, <4>1, <2>t DEF append, FitsAtEnd
    <3>2. CASE ~wrapped /\ FitsAtStart(record) /\ append(0, record)
      <4>1. LiveBytes = read_offset..(write_offset - 1)
        BY <3>2 DEF LiveBytes
      <4> QED BY <3>0, <3>2, <4>1, <2>t DEF append, FitsAtStart
    <3>3. CASE wrapped /\ FitsBeforeRead(record) /\ append(write_offset, record)
      <4>1. LiveBytes = (read_offset..(wrap_offset - 1)) \cup (0..(write_offset - 1))
        BY <3>3 DEF LiveBytes
      <4> QED BY <3>0, <3>3, <4>1, <2>t DEF append, FitsBeforeRead
    <3> QED BY <2>1, <3>1, <3>2, <3>3 DEF StepRing_Push, pushContiguous, pushWrapped
  <2>2. StepRing_Clear => Kept
    BY DEF StepRing_Clear
  <2>3. StepRing_Release => Kept
    BY <2>2 DEF StepRing_Release
  <2> QED BY <1>1, <2>1, <2>2, <2>3 DEF Next
<1> QED BY <1>1, RingIsInvariant, PTL DEF Spec, NoOverwrite
=============================================================================
