--------------------------- MODULE SyslogHandler ---------------------------
(***************************************************************************)
(* SyslogHandler (common/logging.py): how a log record becomes packets.    *)
(* The constructor finds the MTU of the connection by trial and keeps it   *)
(* per host; emit sends a record that fits as one packet and cuts one that *)
(* does not, or splits it into chunks, behind a preamble each.             *)
(*                                                                         *)
(* A record is known by its bytes' places, from 0 on, and by the character *)
(* each of them belongs to.  A chunk is the bytes from `first` up to, and  *)
(* without, `last`; a packet is a chunk and its size on the wire.          *)
(***************************************************************************)
EXTENDS Integers, Sequences, FiniteSets

CONSTANTS
    MTU_ATTEMPTS,           \* sizes tried, the largest first
    WORST_CASE_MTU_IP,
    DATAGRAM_HEADER_LENGTH, \* ..._IN_BYTES
    StreamLimit,            \* the megabyte for sockets that are not UDP
    InterfaceMtus,          \* MTUs that the network may have
    Records,                \* records the program may log, see RecordType
    MaxParts,               \* BOUND: packets of one record
    Faults                  \* which of PossibleFaults may happen

(*   probe  a trial packet fails for another reason than its length        *)
(*   send   a packet cannot be sent                                        *)
PossibleFaults == {"probe", "send"}

\* length   bytes of the formatted record
\* start    where the character begins to which a byte belongs, in four bytes
\*          at most; the end of the record is a place of its own
\* offset   where the message begins behind the preamble
\* found    or where 30 characters end, if the message was not found in it
\* framing  bytes of priority, prefix and suffix
RecordType(r) ==
    /\ r.length \in Nat
    /\ r.start \in [0..r.length -> 0..r.length]
    /\ \A k \in 0..r.length : /\ r.start[k] \in (k - 3)..k
                              /\ \A j \in r.start[k]..k : r.start[j] = r.start[k]
    /\ r.start[r.length] = r.length
    /\ r.offset \in 0..r.length
    /\ r.start[r.offset] = r.offset
    /\ r.found \in BOOLEAN
    /\ r.framing \in Nat

ASSUME SyslogAssumption ==
    /\ MTU_ATTEMPTS \in Seq(Nat) /\ Len(MTU_ATTEMPTS) > 0
    /\ WORST_CASE_MTU_IP \in Nat
    /\ DATAGRAM_HEADER_LENGTH \in Nat
    /\ StreamLimit \in Nat
    /\ InterfaceMtus \subseteq Nat
    /\ \A r \in Records : RecordType(r)
    /\ MaxParts \in Nat
    /\ Faults \subseteq PossibleFaults

VARIABLES
    mtu,            \* what the interface takes; the program never sees it
    cached,         \* _MINIMUM_MTU_CACHE of the host, 0 if it has none
    attempt,        \* place in MTU_ATTEMPTS
    socket,         \* "udp", "tcp" or "unix"
    overflow,       \* "fragment" or "truncate"
    maximumLength,  \* self.maximum_length
    pc,             \* where the handler is
    record,         \* the record being emitted
    position,       \* where remaining_message begins
    parts,          \* packets made so far
    unsent          \* how many of them _send has left

connection == <<mtu, cached, attempt, socket, overflow, maximumLength>>
emission == <<record, position, parts, unsent>>
vars == <<mtu, cached, attempt, socket, overflow, maximumLength, pc, record,
          position, parts, unsent>>

Nothing == [length |-> 0, start |-> [k \in {0} |-> 0], offset |-> 0,
            found |-> TRUE, framing |-> 0]

Init ==
    /\ mtu \in InterfaceMtus
    /\ cached = 0
    /\ attempt = 1
    /\ socket = "udp"
    /\ overflow = "fragment"
    /\ maximumLength = 0
    /\ pc = "new"
    /\ record = Nothing
    /\ position = 0
    /\ parts = <<>>
    /\ unsent = 0
-----------------------------------------------------------------------------
(***************************************************************************)
(* The constructor                                                         *)
(***************************************************************************)
\* The overflow argument is heeded for UDP only.
Construct ==
    /\ pc = "new"
    /\ socket' \in {"udp", "tcp", "unix"}
    /\ IF socket' = "udp"
         THEN /\ overflow' \in {"fragment", "truncate"}
              /\ maximumLength' = IF cached = 0 THEN 0 ELSE cached - DATAGRAM_HEADER_LENGTH
              /\ pc' = IF cached = 0 THEN "probing" ELSE "idle"
         ELSE /\ overflow' = "truncate"
              /\ maximumLength' = StreamLimit
              /\ pc' = "idle"
    /\ attempt' = 1
    /\ UNCHANGED <<mtu, cached, emission>>

Discovered(found) ==
    /\ cached' = found
    /\ maximumLength' = found - DATAGRAM_HEADER_LENGTH
    /\ pc' = "idle"
    /\ UNCHANGED attempt

\* _discover_minimum_mtu_to_target: a packet of the size to try, header
\* included, left the interface, which may not fragment it, or was too long.
ProbeSent ==
    /\ pc = "probing"
    /\ MTU_ATTEMPTS[attempt] <= mtu
    /\ Discovered(MTU_ATTEMPTS[attempt])
    /\ UNCHANGED <<mtu, socket, overflow, emission>>

ProbeTooLong ==
    /\ pc = "probing"
    /\ MTU_ATTEMPTS[attempt] > mtu
    /\ IF attempt < Len(MTU_ATTEMPTS)
         THEN /\ attempt' = attempt + 1
              /\ UNCHANGED <<cached, maximumLength, pc>>
         ELSE Discovered(WORST_CASE_MTU_IP)
    /\ UNCHANGED <<mtu, socket, overflow, emission>>

ProbeFails ==
    /\ "probe" \in Faults
    /\ pc = "probing"
    /\ Discovered(WORST_CASE_MTU_IP)
    /\ UNCHANGED <<mtu, socket, overflow, emission>>

\* Another handler in the same process finds the cache.
Replace ==
    /\ pc = "idle"
    /\ pc' = "new"
    /\ UNCHANGED <<connection, emission>>
-----------------------------------------------------------------------------
(***************************************************************************)
(* emit                                                                    *)
(***************************************************************************)
MessageLengthLimit(r) == maximumLength - r.framing

\* What comes before the message and is repeated in each packet; one that had
\* to be made up ends in a space.
Preamble(r) == r.offset + (IF r.found THEN 0 ELSE 1)

\* The length of '{}'.format(n), for less than 10^10 packets.
Digits(n) == Cardinality({e \in 0..9 : 10^e <= n})

\* "(cont'd #) ..." and the number, in packets after the first.
Continuation(i) == IF i > 1 THEN 14 + Digits(i) ELSE 0

\* MUTANT of Room: the number of the packet is not subtracted.
RoomWithoutNumber(r, i) ==
    MessageLengthLimit(r) - Preamble(r) - 12 - (IF i > 1 THEN 14 ELSE 0)

\* What a packet has left for its chunk; "... (cont'd)" has 12 bytes.
Room(r, i) == MessageLengthLimit(r) - Preamble(r) - 12 - Continuation(i)

\* encoded_string[:limit] of the bytes from `first` on: a limit below zero
\* counts from the end.
SliceEnd(r, first, limit) ==
    IF limit >= 0
      THEN IF first + limit <= r.length THEN first + limit ELSE r.length
      ELSE IF r.length + limit >= first THEN r.length + limit ELSE first

\* MUTANT of CleanSliceEnd: characters may be split.
RawSliceEnd(r, first, limit) == SliceEnd(r, first, limit)

\* MUTANT of CleanSliceEnd: the last character is taken to be split always.
CarefulSliceEnd(r, first, limit) ==
    LET end == SliceEnd(r, first, limit)
    IN  IF end > first THEN r.start[end - 1] ELSE end

\* _cleanly_slice_encoded_string: back to where the split character begins.
CleanSliceEnd(r, first, limit) == r.start[SliceEnd(r, first, limit)]

Packet(first, last, size) == [first |-> first, last |-> last, size |-> size]

\* A record below the limit is one packet; one that is as long is not.
EmitWhole ==
    /\ pc = "idle"
    /\ record' \in Records
    /\ record'.length < MessageLengthLimit(record')
    /\ parts' = <<Packet(0, record'.length, record'.framing + record'.length)>>
    /\ unsent' = 1
    /\ pc' = "sending"
    /\ UNCHANGED <<connection, position>>

EmitTruncated ==
    /\ pc = "idle"
    /\ overflow = "truncate"
    /\ record' \in Records
    /\ LET limit == MessageLengthLimit(record')
           end == CleanSliceEnd(record', 0, limit)
       IN  /\ record'.length >= limit
           /\ parts' = <<Packet(0, end, record'.framing + end)>>
    /\ unsent' = 1
    /\ pc' = "sending"
    /\ UNCHANGED <<connection, position>>

EmitFragmented ==
    /\ pc = "idle"
    /\ overflow = "fragment"
    /\ record' \in Records
    /\ record'.length >= MessageLengthLimit(record')
    /\ position' = record'.offset
    /\ pc' = "slicing"
    /\ UNCHANGED <<connection, parts, unsent>>

\* One round of "while remaining_message".
Slice ==
    /\ pc = "slicing"
    /\ position < record.length
    /\ Len(parts) < MaxParts
    /\ LET i == Len(parts) + 1
           end == CleanSliceEnd(record, position, Room(record, i))
           size == record.framing + Preamble(record) + Continuation(i) + end - position
                     + (IF end < record.length THEN 12 ELSE 0)
       IN  /\ parts' = Append(parts, Packet(position, end, size))
           /\ position' = end
    /\ UNCHANGED <<connection, pc, record, unsent>>

SliceLast ==
    /\ pc = "slicing"
    /\ position = record.length
    /\ unsent' = Len(parts)
    /\ pc' = "sending"
    /\ UNCHANGED <<connection, record, position, parts>>
-----------------------------------------------------------------------------
(***************************************************************************)
(* _send                                                                   *)
(***************************************************************************)
Forget ==
    /\ pc' = "idle"
    /\ record' = Nothing
    /\ position' = 0
    /\ parts' = <<>>
    /\ unsent' = 0

Sent ==
    IF unsent > 1
      THEN unsent' = unsent - 1 /\ pc' = "sending" /\ UNCHANGED <<record, position, parts>>
      ELSE Forget

Send ==
    /\ pc \in {"sending", "reconnecting"}
    /\ unsent > 0
    /\ Sent
    /\ UNCHANGED connection

\* A Unix socket is closed and opened again, and the packet sent once more.
SendFailsOnce ==
    /\ "send" \in Faults
    /\ pc = "sending"
    /\ unsent > 0
    /\ socket = "unix"
    /\ pc' = "reconnecting"
    /\ UNCHANGED <<connection, emission>>

\* handleError: what is left of the record is dropped.
SendFails ==
    /\ "send" \in Faults
    /\ pc = "reconnecting" \/ (pc = "sending" /\ socket # "unix")
    /\ unsent > 0
    /\ Forget
    /\ UNCHANGED connection

\* A record without a byte behind its preamble makes no packet.
SendNothing ==
    /\ pc = "sending"
    /\ unsent = 0
    /\ Forget
    /\ UNCHANGED connection

Emit == EmitWhole \/ EmitTruncated \/ EmitFragmented
SendStep == Send \/ SendFailsOnce \/ SendFails \/ SendNothing
Next ==
    \/ Construct \/ ProbeSent \/ ProbeTooLong \/ ProbeFails \/ Replace
    \/ Emit \/ Slice \/ SliceLast \/ SendStep

Spec == Init /\ [][Next]_vars

\* emit does not wait for anything, and the sockets do not block for ever.
FairSpec == Spec /\ WF_vars(Slice) /\ WF_vars(SliceLast) /\ WF_vars(SendStep)
-----------------------------------------------------------------------------
\* A packet of the record has room for a character even if it is one of many.
HasRoom(r) == \A k \in 1..(r.length + 1) : Room(r, k) >= 4

TypeOK ==
    /\ mtu \in InterfaceMtus
    /\ cached \in Nat
    /\ attempt \in 1..Len(MTU_ATTEMPTS)
    /\ socket \in {"udp", "tcp", "unix"}
    /\ overflow \in {"fragment", "truncate"}
    /\ maximumLength \in Int
    /\ pc \in {"new", "probing", "idle", "slicing", "sending", "reconnecting"}
    /\ record \in Records \union {Nothing}
    /\ position \in 0..record.length
    /\ parts \in Seq([first : Nat, last : Nat, size : Int])
    /\ unsent \in 0..Len(parts)

\* What the largest packet of the socket may hold.
Capacity == IF socket = "udp" THEN mtu - DATAGRAM_HEADER_LENGTH ELSE StreamLimit

\* "to ensure that data is not lost by exceeding the MTU of the connection":
\* every packet of a record, with its header, is one that the interface takes,
\* whatever number of digits its place has and however the MTU was found.
PacketsFit ==
    HasRoom(record) /\ mtu >= WORST_CASE_MTU_IP =>
        \A k \in 1..Len(parts) : parts[k].size <= Capacity

\* The packets of a record that is split carry its message in order, whole and
\* once, and no character is divided between two of them; one that is cut is
\* cut by no more than has to be.
ContinuesAt(k) == IF k < Len(parts) THEN parts[k + 1].first ELSE
                  IF pc = "slicing" THEN position ELSE record.length
NothingIsLost ==
    /\ overflow = "fragment" => \A k \in 1..Len(parts) :
          /\ parts[k].last = ContinuesAt(k)
          /\ record.start[parts[k].last] = parts[k].last
    /\ parts # <<>> => parts[1].first \in {0, record.offset}
    /\ overflow = "truncate" /\ HasRoom(record) => \A k \in 1..Len(parts) :
          /\ record.start[parts[k].last] = parts[k].last
          /\ parts[k].last > record.length - 1 \/ parts[k].last > MessageLengthLimit(record) - 4

\* The loop of emit, which holds the lock of the handler, ends: each round takes
\* a character, and the next number does not use up what is left for one.
EmissionEnds == pc = "slicing" /\ HasRoom(record) ~> pc = "idle"

\* The inductive invariant behind the first two: the size in use is one that
\* the interface takes, no packet is larger than it, and each one took a byte,
\* so that the number of a packet is never higher than that of the bytes.
ConnectionIsKnown ==
    /\ mtu >= WORST_CASE_MTU_IP => cached <= mtu
    /\ pc = "probing" => socket = "udp"
    /\ pc \notin {"new", "probing"} =>
          IF socket = "udp" THEN maximumLength = cached - DATAGRAM_HEADER_LENGTH
                            ELSE maximumLength = StreamLimit /\ overflow = "truncate"
RecordIsInHand ==
    /\ pc \in {"new", "probing", "idle"} => parts = <<>> /\ position = 0
    /\ pc = "slicing" => /\ overflow = "fragment"
                         /\ position >= record.offset
                         /\ record.start[position] = position
                         /\ parts = <<>> => position = record.offset
PacketsAreLimited ==
    HasRoom(record) => \A k \in 1..Len(parts) : parts[k].size <= maximumLength
RoundsTakeBytes == pc = "slicing" /\ HasRoom(record) => Len(parts) <= position
IInv ==
    /\ TypeOK
    /\ ConnectionIsKnown
    /\ RecordIsInHand
    /\ PacketsAreLimited
    /\ RoundsTakeBytes
    /\ NothingIsLost

\* The docstring of emit makes no exception for long preambles: the chunks have
\* "lengths less than or equal to the chunk length".
PacketsAlwaysFit ==
    mtu >= WORST_CASE_MTU_IP => \A k \in 1..Len(parts) : parts[k].size <= Capacity
EmissionAlwaysEnds == pc = "slicing" ~> pc = "idle"
=============================================================================
