------------------------ MODULE SyslogHandlerProofs ------------------------
(***************************************************************************)
(* Theorems about SyslogHandler, for every list of sizes to try, every MTU *)
(* and every set of records.                                               *)
(***************************************************************************)
EXTENDS SyslogHandler, FiniteSetTheorems, SequenceTheorems, TLAPS

\* The place-holder of a handler that emits nothing is a record like others.
LEMMA NothingIsARecord == RecordType(Nothing)
  BY DEF RecordType, Nothing

LEMMA RecordTypes == ASSUME NEW r \in Records \union {Nothing} PROVE RecordType(r)
  BY SyslogAssumption, NothingIsARecord

\* A number of digits is a number.
LEMMA DigitsType == ASSUME NEW n PROVE Digits(n) \in Nat
  <1>1. IsFiniteSet(0..9)
    <2> 0 \in Int /\ 9 \in Int
      OBVIOUS
    <2> QED
      BY FS_Interval, Zenon
  <1>2. IsFiniteSet({e \in 0..9 : 10^e <= n})
    BY <1>1, FS_Subset
  <1> QED
    BY <1>2, FS_CardinalityType DEF Digits

\* _cleanly_slice_encoded_string, from the beginning of a character on: the
\* slice ends between two characters, not before its beginning; below a limit
\* of four bytes or more it takes at least one byte, and at most three less
\* than it could.
LEMMA CleanSlice ==
    ASSUME NEW r, RecordType(r), NEW first \in 0..r.length, r.start[first] = first,
           NEW limit \in Int
    PROVE  /\ CleanSliceEnd(r, first, limit) \in first..r.length
           /\ r.start[CleanSliceEnd(r, first, limit)] = CleanSliceEnd(r, first, limit)
           /\ limit >= 0 => CleanSliceEnd(r, first, limit) <= first + limit
           /\ limit >= 4 /\ first < r.length => CleanSliceEnd(r, first, limit) > first
           /\ limit >= 0 => \/ CleanSliceEnd(r, first, limit) = r.length
                            \/ CleanSliceEnd(r, first, limit) > first + limit - 4
  <1> DEFINE cut == SliceEnd(r, first, limit)
             end == CleanSliceEnd(r, first, limit)
  <1>1. r.length \in Nat
    BY DEF RecordType
  <1>2. /\ cut \in first..r.length
        /\ limit >= 0 => cut <= first + limit
        /\ limit >= 0 => cut = r.length \/ cut = first + limit
    BY <1>1 DEF SliceEnd
  <1>3. end = r.start[cut]
    BY DEF CleanSliceEnd
  <1> HIDE DEF cut, end
  <1>4. cut \in 0..r.length /\ cut \in Int
    BY <1>1, <1>2
  <1>5. end \in (cut - 3)..cut
    BY <1>3, <1>4 DEF RecordType
  <1>6. \A j \in end..cut : r.start[j] = end
    BY <1>3, <1>4 DEF RecordType
  <1>7. end \in 0..r.length
    <2>1. r.start \in [0..r.length -> 0..r.length]
      BY DEF RecordType
    <2> QED
      BY <1>3, <1>4, <2>1
  <1>8. r.start[r.length] = r.length
    BY DEF RecordType
  <1>9. end \in Int /\ end <= cut /\ end >= cut - 3
    BY <1>4, <1>5
  <1>10. end >= first
    <2> SUFFICES ASSUME end < first PROVE FALSE
      BY <1>1, <1>9
    <2>1. first \in end..cut
      BY <1>1, <1>2, <1>9
    <2>2. first = end
      BY <1>6, <2>1
    <2> QED
      BY <1>9, <2>2
  <1>11. r.start[end] = end
    <2>1. end \in end..cut
      BY <1>4, <1>9
    <2> QED
      BY <1>6, <2>1
  <1>12. cut = r.length => end = r.length
    BY <1>3, <1>8
  <1>13. limit >= 4 /\ first < r.length => end > first
    BY <1>1, <1>2, <1>9, <1>12
  <1>14. limit >= 0 => end = r.length \/ end > first + limit - 4
    BY <1>1, <1>2, <1>9, <1>12
  <1>15. limit >= 0 => end <= first + limit
    BY <1>1, <1>2, <1>4, <1>9
  <1>16. end \in first..r.length
    BY <1>1, <1>2, <1>4, <1>9, <1>10
  <1> QED
    BY <1>11, <1>13, <1>14, <1>15, <1>16 DEF end
-----------------------------------------------------------------------------
LEMMA InitHolds == Init => IInv
  BY SyslogAssumption DEF Init, IInv, TypeOK, ConnectionIsKnown, RecordIsInHand,
     PacketsAreLimited, RoundsTakeBytes, NothingIsLost, Nothing

\* What a record has room for does not change while the handler is in use.
LEMMA RoomIsInt ==
    ASSUME NEW r, RecordType(r), maximumLength \in Int, NEW i \in Nat
    PROVE  /\ Room(r, i) \in Int
           /\ Continuation(i) \in Nat
           /\ MessageLengthLimit(r) \in Int
           /\ Preamble(r) \in Nat
           /\ Room(r, i) = MessageLengthLimit(r) - Preamble(r) - 12 - Continuation(i)
           /\ MessageLengthLimit(r) = maximumLength - r.framing
           /\ r.framing \in Nat
  <1>1. Continuation(i) \in Nat
    BY DigitsType, Digits(i) \in Nat DEF Continuation
  <1>2. Preamble(r) \in Nat /\ MessageLengthLimit(r) \in Int /\ r.framing \in Nat
    BY DEF Preamble, MessageLengthLimit, RecordType
  <1> QED
    BY <1>1, <1>2 DEF Room, MessageLengthLimit

\* Parts of the invariant that hold of any handler without packets.
LEMMA NoPackets ==
    ASSUME parts' = <<>>
    PROVE  PacketsAreLimited' /\ (pc' # "slicing" => RoundsTakeBytes') /\ NothingIsLost'
  BY DEF PacketsAreLimited, RoundsTakeBytes, NothingIsLost

\* The constructor, with its probes, only decides the size in use.
LEMMA ConstructorKeeps ==
    ASSUME IInv, \/ Construct \/ ProbeSent \/ ProbeTooLong \/ ProbeFails \/ Replace
    PROVE  IInv'
  <1> USE DEF IInv
  <1>1. parts' = <<>> /\ position' = 0 /\ pc' \in {"new", "probing", "idle"}
    BY DEF Construct, ProbeSent, ProbeTooLong, ProbeFails, Replace, Discovered,
       RecordIsInHand, emission
  <1>2. PacketsAreLimited' /\ RoundsTakeBytes' /\ NothingIsLost' /\ RecordIsInHand'
    <2>1. RecordIsInHand'
      BY <1>1 DEF RecordIsInHand
    <2> QED
      BY <1>1, <2>1, NoPackets
  <1>3. CASE Construct
    <2>1. TypeOK'
      BY <1>3, SyslogAssumption DEF Construct, TypeOK, emission
    <2>2. ConnectionIsKnown'
      BY <1>3 DEF Construct, ConnectionIsKnown, emission
    <2> QED
      BY <1>2, <2>1, <2>2
  <1>4. CASE ProbeSent
    <2>1. MTU_ATTEMPTS[attempt] \in Nat
      BY SyslogAssumption DEF TypeOK
    <2>2. TypeOK'
      BY <1>4, <2>1, SyslogAssumption DEF ProbeSent, Discovered, TypeOK, emission
    <2>3. ConnectionIsKnown'
      BY <1>4, <2>1 DEF ProbeSent, Discovered, ConnectionIsKnown, emission
    <2> QED
      BY <1>2, <2>2, <2>3
  <1>5. CASE ProbeTooLong
    <2>1. TypeOK'
      BY <1>5, SyslogAssumption DEF ProbeTooLong, Discovered, TypeOK, emission
    <2>2. ConnectionIsKnown'
      BY <1>5 DEF ProbeTooLong, Discovered, ConnectionIsKnown, emission
    <2> QED
      BY <1>2, <2>1, <2>2
  <1>6. CASE ProbeFails
    <2>1. TypeOK'
      BY <1>6, SyslogAssumption DEF ProbeFails, Discovered, TypeOK, emission
    <2>2. ConnectionIsKnown'
      BY <1>6 DEF ProbeFails, Discovered, ConnectionIsKnown, emission
    <2> QED
      BY <1>2, <2>1, <2>2
  <1>7. CASE Replace
    <2>1. TypeOK' /\ ConnectionIsKnown'
      BY <1>7 DEF Replace, TypeOK, ConnectionIsKnown, connection, emission
    <2> QED
      BY <1>2, <2>1
  <1> QED
    BY <1>3, <1>4, <1>5, <1>6, <1>7

\* A record that fits is one packet of its own size.
LEMMA EmitWholeKeeps == ASSUME IInv, EmitWhole PROVE IInv'
  <1> USE DEF IInv
  <1> DEFINE r == record'
  <1>1. /\ r \in Records
        /\ RecordType(r)
        /\ parts' = <<Packet(0, r.length, r.framing + r.length)>>
        /\ r.length < MessageLengthLimit(r)
        /\ pc' = "sending"
        /\ unsent' = 1
        /\ UNCHANGED <<mtu, cached, attempt, socket, overflow, maximumLength, position>>
        /\ pc = "idle"
    BY SyslogAssumption DEF EmitWhole, connection
  <1>2. /\ parts'[1] = [first |-> 0, last |-> r.length, size |-> r.framing + r.length]
        /\ Len(parts') = 1
        /\ parts' \in Seq([first : Nat, last : Nat, size : Int])
        /\ r.length \in Nat
        /\ r.start[r.length] = r.length
        /\ r.framing \in Nat
    BY <1>1 DEF Packet, RecordType
  <1>3. position = 0
    BY <1>1 DEF TypeOK, RecordIsInHand
  <1>4. TypeOK'
    BY <1>1, <1>2, <1>3 DEF TypeOK
  <1>5. ConnectionIsKnown' /\ RecordIsInHand' /\ RoundsTakeBytes'
    BY <1>1 DEF ConnectionIsKnown, RecordIsInHand, RoundsTakeBytes
  <1>6. PacketsAreLimited'
    BY <1>1, <1>2 DEF PacketsAreLimited, MessageLengthLimit, TypeOK
  <1>7. NothingIsLost'
    BY <1>1, <1>2 DEF NothingIsLost, ContinuesAt
  <1> QED
    BY <1>4, <1>5, <1>6, <1>7

\* A record that is cut ends between two characters, and not too early.
LEMMA EmitTruncatedKeeps == ASSUME IInv, EmitTruncated PROVE IInv'
  <1> USE DEF IInv
  <1> DEFINE r == record'
             limit == MessageLengthLimit(r)
             end == CleanSliceEnd(r, 0, limit)
  <1>1. /\ r \in Records
        /\ RecordType(r)
        /\ parts' = <<Packet(0, end, r.framing + end)>>
        /\ r.length >= limit
        /\ pc' = "sending"
        /\ unsent' = 1
        /\ overflow = "truncate"
        /\ UNCHANGED <<mtu, cached, attempt, socket, overflow, maximumLength, position>>
        /\ pc = "idle"
        /\ position = 0
    BY SyslogAssumption DEF EmitTruncated, connection, RecordIsInHand
  <1>2. /\ maximumLength \in Int
        /\ r.length \in Nat
        /\ r.framing \in Nat
        /\ limit \in Int
        /\ limit = maximumLength - r.framing
    BY <1>1 DEF TypeOK, RecordType, MessageLengthLimit
  <1>3. r.start[0] = 0
    BY <1>1 DEF RecordType
  <1>4. /\ end \in 0..r.length
        /\ r.start[end] = end
        /\ limit >= 0 => end <= limit
        /\ limit >= 0 => end = r.length \/ end > limit - 4
    <2>1. 0 \in 0..r.length
      BY <1>2
    <2> HIDE DEF limit, r
    <2> QED
      BY <1>1, <1>2, <1>3, <2>1, CleanSlice
  <1>5. HasRoom(r) => limit >= 4
    <2>1. 1 \in 1..(r.length + 1) /\ 1 \in Nat
      BY <1>2
    <2>2. Room(r, 1) <= limit
      BY <1>1, <1>2, <2>1, RoomIsInt
    <2>3. Room(r, 1) \in Int
      BY <1>1, <1>2, <2>1, RoomIsInt
    <2> HIDE DEF limit, r
    <2> QED
      BY <1>2, <2>1, <2>2, <2>3 DEF HasRoom
  <1>6. HasRoom(record)' = HasRoom(record') /\ MessageLengthLimit(record)' = limit
    BY <1>1 DEF HasRoom, Room, MessageLengthLimit, Preamble, Continuation
  <1> HIDE DEF end, limit
  <1>7. /\ parts'[1] = [first |-> 0, last |-> end, size |-> r.framing + end]
        /\ Len(parts') = 1
        /\ parts' \in Seq([first : Nat, last : Nat, size : Int])
    BY <1>1, <1>2, <1>4 DEF Packet
  <1>8. TypeOK'
    BY <1>1, <1>2, <1>7 DEF TypeOK
  <1>9. ConnectionIsKnown' /\ RecordIsInHand' /\ RoundsTakeBytes'
    BY <1>1 DEF ConnectionIsKnown, RecordIsInHand, RoundsTakeBytes
  <1>10. PacketsAreLimited'
    BY <1>1, <1>2, <1>4, <1>5, <1>6, <1>7 DEF PacketsAreLimited
  <1>11. NothingIsLost'
    BY <1>1, <1>2, <1>4, <1>5, <1>6, <1>7 DEF NothingIsLost
  <1> QED
    BY <1>8, <1>9, <1>10, <1>11

\* A record that is to be split has no packets yet.
LEMMA EmitFragmentedKeeps == ASSUME IInv, EmitFragmented PROVE IInv'
  <1> USE DEF IInv
  <1>1. /\ record' \in Records
        /\ RecordType(record')
        /\ pc = "idle"
        /\ pc' = "slicing"
        /\ overflow = "fragment"
        /\ position' = record'.offset
        /\ UNCHANGED <<mtu, cached, attempt, socket, overflow, maximumLength, parts, unsent>>
        /\ parts = <<>>
    BY SyslogAssumption DEF EmitFragmented, connection, RecordIsInHand
  <1>2. /\ record'.offset \in 0..record'.length
        /\ record'.length \in Nat
        /\ record'.start[record'.offset] = record'.offset
    BY <1>1 DEF RecordType
  <1>3. TypeOK'
    BY <1>1, <1>2 DEF TypeOK
  <1>4. ConnectionIsKnown' /\ RecordIsInHand' /\ RoundsTakeBytes'
    BY <1>1, <1>2 DEF ConnectionIsKnown, RecordIsInHand, RoundsTakeBytes
  <1>5. PacketsAreLimited' /\ NothingIsLost'
    BY <1>1, NoPackets
  <1> QED
    BY <1>3, <1>4, <1>5

\* A round takes a chunk that fits, between characters, from where the last one
\* ended.
LEMMA SliceKeeps == ASSUME IInv, Slice PROVE IInv'
  <1> USE DEF IInv
  <1> DEFINE n == Len(parts)
             i == n + 1
             room == Room(record, i)
             end == CleanSliceEnd(record, position, room)
             overhead == record.framing + Preamble(record) + Continuation(i)
             size == overhead + end - position + (IF end < record.length THEN 12 ELSE 0)
             new == Packet(position, end, size)
  <1>1. /\ RecordType(record)
        /\ record \in Records \union {Nothing}
        /\ pc = "slicing" /\ pc' = "slicing"
        /\ position \in 0..record.length /\ position < record.length
        /\ record.start[position] = position
        /\ parts' = Append(parts, new)
        /\ position' = end
        /\ UNCHANGED <<mtu, cached, attempt, socket, overflow, maximumLength, record, unsent>>
        /\ overflow = "fragment"
        /\ position >= record.offset
        /\ record.offset \in Nat
        /\ record.length \in Nat
    <2>1. /\ record \in Records \union {Nothing}
          /\ position \in 0..record.length
          /\ pc = "slicing" /\ position < record.length
      BY DEF Slice, TypeOK
    <2>2. RecordType(record)
      BY <2>1, RecordTypes
    <2>3. record.offset \in Nat /\ record.length \in Nat
      BY <2>2 DEF RecordType
    <2>4. /\ overflow = "fragment"
          /\ position >= record.offset
          /\ record.start[position] = position
      BY <2>1 DEF RecordIsInHand
    <2>5. /\ parts' = Append(parts, new)
          /\ position' = end
          /\ pc' = "slicing"
          /\ UNCHANGED <<mtu, cached, attempt, socket, overflow, maximumLength, record, unsent>>
      BY <2>1 DEF Slice, connection
    <2> QED
      BY <2>1, <2>2, <2>3, <2>4, <2>5
  <1>2. /\ parts \in Seq([first : Nat, last : Nat, size : Int])
        /\ n \in Nat
        /\ unsent \in 0..n
        /\ maximumLength \in Int
    BY DEF TypeOK
  <1>3. /\ room \in Int
        /\ overhead \in Int
        /\ room = maximumLength - overhead - 12
    <2>1. i \in Nat
      BY <1>2
    <2> HIDE DEF i
    <2>2. /\ Room(record, i) \in Int
          /\ Continuation(i) \in Nat
          /\ MessageLengthLimit(record) \in Int
          /\ Preamble(record) \in Nat
          /\ Room(record, i) = MessageLengthLimit(record) - Preamble(record) - 12 - Continuation(i)
          /\ MessageLengthLimit(record) = maximumLength - record.framing
          /\ record.framing \in Nat
      BY <1>1, <1>2, <2>1, RoomIsInt
    <2>3. maximumLength \in Int
      BY <1>2
    <2>4. overhead \in Int
      BY <2>2
    <2>5. Room(record, i) = maximumLength - overhead - 12
      BY <2>2, <2>3
    <2> QED
      BY <2>2, <2>4, <2>5
  <1>4. /\ end \in position..record.length
        /\ record.start[end] = end
        /\ room >= 0 => end <= position + room
        /\ room >= 4 => end > position
    <2> HIDE DEF room
    <2> QED
      BY <1>1, <1>3, CleanSlice
  <1>5. HasRoom(record)' = HasRoom(record)
    BY <1>1 DEF HasRoom, Room, MessageLengthLimit, Preamble, Continuation
  <1>6. HasRoom(record) => n <= position /\ room >= 4
    <2> SUFFICES ASSUME HasRoom(record) PROVE n <= position /\ room >= 4
      OBVIOUS
    <2>1. n <= position
      BY <1>1 DEF RoundsTakeBytes
    <2>2. i \in 1..(record.length + 1)
      BY <1>1, <1>2, <2>1
    <2> QED
      BY <2>1, <2>2 DEF HasRoom
  <1> HIDE DEF room, overhead, end
  <1>7. /\ new = [first |-> position, last |-> end, size |-> size]
        /\ new \in [first : Nat, last : Nat, size : Int]
        /\ size \in Int
    BY <1>1, <1>3, <1>4 DEF Packet
  <1>8. HasRoom(record) => size <= maximumLength
    BY <1>1, <1>2, <1>3, <1>4, <1>6
  <1> HIDE DEF new, size
  <1>9. /\ Len(parts') = n + 1
        /\ parts' \in Seq([first : Nat, last : Nat, size : Int])
        /\ parts'[n + 1] = new
        /\ \A k \in 1..n : parts'[k] = parts[k]
    BY <1>1, <1>2, <1>7
  <1>10. TypeOK'
    BY <1>1, <1>2, <1>4, <1>9 DEF TypeOK
  <1>11. ConnectionIsKnown' /\ RecordIsInHand'
    BY <1>1, <1>4 DEF ConnectionIsKnown, RecordIsInHand
  <1>12. PacketsAreLimited'
    <2> SUFFICES ASSUME HasRoom(record), NEW k \in 1..(n + 1)
                 PROVE  parts'[k].size <= maximumLength
      BY <1>1, <1>5, <1>9 DEF PacketsAreLimited
    <2>1. CASE k = n + 1
      BY <1>7, <1>8, <1>9, <2>1
    <2>2. CASE k \in 1..n
      BY <1>9, <2>2 DEF PacketsAreLimited
    <2> QED
      BY <1>2, <2>1, <2>2
  <1>13. RoundsTakeBytes'
    BY <1>1, <1>2, <1>4, <1>5, <1>6, <1>9 DEF RoundsTakeBytes
  <1>14. NothingIsLost'
    <2>1. ASSUME NEW k \in 1..(n + 1)
          PROVE  /\ parts'[k].last = ContinuesAt(k)'
                 /\ record.start[parts'[k].last] = parts'[k].last
      <3>1. CASE k = n + 1
        BY <1>1, <1>2, <1>4, <1>7, <1>9, <3>1 DEF ContinuesAt
      <3>2. CASE k = n
        BY <1>1, <1>2, <1>7, <1>9, <3>2 DEF ContinuesAt, NothingIsLost
      <3>3. CASE k < n
        <4>1. k \in 1..n /\ k + 1 \in 1..n
          BY <1>2, <3>3
        <4>2. parts'[k] = parts[k] /\ parts'[k + 1] = parts[k + 1]
          BY <1>9, <4>1
        <4>3. ContinuesAt(k)' = parts[k + 1].first
          BY <1>2, <1>9, <3>3, <4>2 DEF ContinuesAt
        <4>4. ContinuesAt(k) = parts[k + 1].first
          BY <3>3 DEF ContinuesAt
        <4>5. parts[k].last = ContinuesAt(k) /\ record.start[parts[k].last] = parts[k].last
          BY <1>1, <4>1 DEF NothingIsLost
        <4> QED
          BY <4>2, <4>3, <4>4, <4>5
      <3> QED
        BY <1>2, <3>1, <3>2, <3>3
    <2>2. parts'[1].first \in {0, record.offset}
      <3>1. CASE n = 0
        BY <1>1, <1>2, <1>7, <1>9, <3>1 DEF RecordIsInHand, TypeOK
      <3>2. CASE n > 0
        BY <1>1, <1>2, <1>9, <3>2 DEF NothingIsLost
      <3> QED
        BY <1>2, <3>1, <3>2
    <2> QED
      BY <1>1, <1>9, <2>1, <2>2 DEF NothingIsLost
  <1> QED
    BY <1>10, <1>11, <1>12, <1>13, <1>14

\* The loop ends where the record does.
LEMMA SliceLastKeeps == ASSUME IInv, SliceLast PROVE IInv'
  <1> USE DEF IInv
  <1>1. /\ pc = "slicing" /\ pc' = "sending"
        /\ position = record.length
        /\ unsent' = Len(parts)
        /\ Len(parts) \in Nat
        /\ overflow = "fragment"
        /\ UNCHANGED <<mtu, cached, attempt, socket, overflow, maximumLength, record,
                       position, parts>>
    BY DEF SliceLast, connection, TypeOK, RecordIsInHand
  <1>2. TypeOK' /\ ConnectionIsKnown' /\ RecordIsInHand' /\ RoundsTakeBytes'
    BY <1>1 DEF TypeOK, ConnectionIsKnown, RecordIsInHand, RoundsTakeBytes
  <1>3. HasRoom(record)' = HasRoom(record)
    BY <1>1 DEF HasRoom, Room, MessageLengthLimit, Preamble, Continuation
  <1>4. PacketsAreLimited'
    BY <1>1, <1>3 DEF PacketsAreLimited
  <1>5. NothingIsLost'
    BY <1>1 DEF NothingIsLost, ContinuesAt
  <1> QED
    BY <1>2, <1>4, <1>5

\* _send leaves the packets alone, or forgets the record.
LEMMA ForgetKeeps == ASSUME IInv, Forget, UNCHANGED connection, pc \notin {"new", "probing"}
                     PROVE  IInv'
  <1> USE DEF IInv
  <1>1. TypeOK' /\ RecordIsInHand'
    BY DEF Forget, TypeOK, RecordIsInHand, connection, Nothing
  <1>2. ConnectionIsKnown'
    BY DEF Forget, ConnectionIsKnown, connection
  <1>3. PacketsAreLimited' /\ RoundsTakeBytes' /\ NothingIsLost'
    BY NoPackets DEF Forget
  <1> QED
    BY <1>1, <1>2, <1>3

LEMMA KeepPackets ==
    ASSUME IInv, pc \in {"sending", "reconnecting"}, pc' \in {"sending", "reconnecting"},
           unsent' \in 0..unsent, UNCHANGED <<connection, record, position, parts>>
    PROVE  IInv'
  <1> USE DEF IInv
  <1>1. TypeOK' /\ RecordIsInHand' /\ ConnectionIsKnown' /\ RoundsTakeBytes'
    BY DEF TypeOK, RecordIsInHand, ConnectionIsKnown, RoundsTakeBytes, connection
  <1>2. HasRoom(record)' = HasRoom(record) /\ MessageLengthLimit(record)' = MessageLengthLimit(record)
    BY DEF HasRoom, Room, MessageLengthLimit, Preamble, Continuation, connection
  <1>3. PacketsAreLimited'
    BY <1>2 DEF PacketsAreLimited, connection
  <1>4. NothingIsLost'
    BY <1>2 DEF NothingIsLost, ContinuesAt, connection
  <1> QED
    BY <1>1, <1>3, <1>4

LEMMA SendKeeps == ASSUME IInv, SendStep PROVE IInv'
  <1>1. unsent \in Nat /\ pc \in {"sending", "reconnecting"}
    BY DEF IInv, TypeOK, SendStep, Send, SendFailsOnce, SendFails, SendNothing
  <1>2. CASE Forget /\ UNCHANGED connection
    BY <1>1, <1>2, ForgetKeeps
  <1>3. CASE /\ pc' \in {"sending", "reconnecting"}
             /\ unsent' \in 0..unsent
             /\ UNCHANGED <<connection, record, position, parts>>
    BY <1>1, <1>3, KeepPackets
  <1> QED
    BY <1>1, <1>2, <1>3 DEF SendStep, Send, Sent, SendFailsOnce, SendFails, SendNothing, emission

LEMMA StutterKeeps == ASSUME IInv, UNCHANGED vars PROVE IInv'
  BY DEF IInv, TypeOK, ConnectionIsKnown, RecordIsInHand, PacketsAreLimited,
     RoundsTakeBytes, NothingIsLost, ContinuesAt, HasRoom, Room, MessageLengthLimit,
     Preamble, Continuation, vars
-----------------------------------------------------------------------------
\* The inductive invariant of SyslogHandler: what the constructor knows of the
\* connection, and what emit has made of the record so far.
THEOREM SyslogInductive == Spec => []IInv
  <1>1. IInv /\ [Next]_vars => IInv'
    BY ConstructorKeeps, EmitWholeKeeps, EmitTruncatedKeeps, EmitFragmentedKeeps,
       SliceKeeps, SliceLastKeeps, SendKeeps, StutterKeeps DEF Next, Emit
  <1> QED
    BY <1>1, InitHolds, PTL DEF Spec

\* Every variable of the handler keeps its type.
THEOREM SyslogTypeCorrect == Spec => []TypeOK
  BY SyslogInductive, PTL DEF IInv

\* No packet of emit is larger than the interface takes, if its record has room
\* for a character behind the preamble.
THEOREM SyslogPacketsFit == Spec => []PacketsFit
  <1>1. IInv => PacketsFit
    <2> SUFFICES ASSUME IInv, HasRoom(record), mtu >= WORST_CASE_MTU_IP,
                        NEW k \in 1..Len(parts)
                 PROVE  parts[k].size <= Capacity
      BY DEF PacketsFit
    <2>1. parts[k].size <= maximumLength
      BY DEF IInv, PacketsAreLimited
    <2>2. pc \notin {"new", "probing"}
      BY DEF IInv, RecordIsInHand
    <2>3. maximumLength <= Capacity
      BY <2>2, SyslogAssumption DEF IInv, ConnectionIsKnown, Capacity, TypeOK
    <2>4. maximumLength \in Int /\ Capacity \in Int
      BY SyslogAssumption DEF IInv, TypeOK, Capacity
    <2>5. parts[k].size \in Int
      <3>1. parts \in Seq([first : Nat, last : Nat, size : Int])
        BY DEF IInv, TypeOK
      <3>2. parts[k] \in [first : Nat, last : Nat, size : Int]
        BY <3>1, ElementOfSeq
      <3> QED
        BY <3>2
    <2> QED
      BY <2>1, <2>3, <2>4, <2>5
  <1> QED
    BY <1>1, SyslogInductive, PTL

\* The packets of a record that emit splits carry its message in order, whole
\* and once, and divide no character.
THEOREM SyslogNothingIsLost == Spec => []NothingIsLost
  BY SyslogInductive, PTL DEF IInv
=============================================================================
