-------------------------- MODULE MCSyslogHandler --------------------------
(***************************************************************************)
(* SyslogHandler for TLC: sizes are scaled down, records are as long as it *)
(* takes for a tenth packet.                                               *)
(***************************************************************************)
EXTENDS SyslogHandler

MTUs == <<110, 90, 80>>

\* Characters of one byte, but for one of `width` bytes after every `gap`.
Start(gap, width, k) == LET within == k % (gap + width)
                        IN  IF within <= gap THEN k ELSE k - (within - gap)

Log(gap, width, groups, offset, found, framing) ==
    LET length == groups * (gap + width)
    IN  [length |-> length, start |-> [k \in 0..length |-> Start(gap, width, k)],
         offset |-> Start(gap, width, offset), found |-> found, framing |-> framing]

\* Short and long records, and a long preamble of each kind.
Logs ==
    {Log(gap, width, groups, offset, found, 5) :
        gap \in 0..1, width \in {1, 3, 4}, groups \in {0, 3, 12, 24},
        offset \in {0}, found \in BOOLEAN}
    \union {Log(1, 4, 12, offset, TRUE, 5) : offset \in {3, 12, 24, 32}}
    \union {Log(0, 1, 2, 2, FALSE, 70)}
=============================================================================
