----------------------------- MODULE IbusParser -----------------------------
(***************************************************************************)
(* The two IBUS parsers, ibus_parse_byte of the bring-up firmware and      *)
(* Receiver::pushByte of rt_core, fed with the same bytes.  The receiver   *)
(* sends frame after frame; on the way to the parsers a byte may be lost   *)
(* (an overrun of the UART) or changed.  Frames, bytes and checksum have   *)
(* their real width.  Neither parser uses the pause between two frames.    *)
(***************************************************************************)
EXTENDS Naturals, Sequences

CONSTANTS Payloads,     \* the channel vectors the receiver sends
          Noise,        \* what a byte may be changed to
          MaxLost,      \* bound on the bytes lost
          MaxChanged    \* bound on the bytes changed

IBUS_FRAME_SIZE == 32
IBUS_CMD == 64
IBUS_CHANNELS == 14
Channels == [1..IBUS_CHANNELS -> 0..(2^16 - 1)]

ASSUME IbusParserAssumption ==
    /\ \A p \in Payloads : p \in Channels
    /\ Noise \subseteq 0..255
    /\ MaxLost \in Nat /\ MaxChanged \in Nat

VARIABLES
    payload,     \* the frame the receiver is sending, or has sent last
    sending,     \* the bytes it has yet to send
    intact,      \* every byte of it so far has arrived unchanged
    frame, index_frame,  \* the bytes collected by ibus_parse_byte, by pushByte
    ch, channels,        \* what each has decoded last (before Receiver shapes the sticks), and ...
    c_good, cpp_good,    \* ... whether it was at the last byte
    lost, changed,
    c_missed, cpp_missed \* history: intact frames missed in a row; for ibus_parse_byte
                         \* only those of Plain count

vars == <<payload, sending, intact, frame, index_frame, ch, channels, c_good, cpp_good,
          lost, changed, c_missed, cpp_missed>>

\* 0xffff minus the bytes before the checksum, in 16 bits.
Checksum(f) ==
    LET rest[n \in 0..30] == IF n = 0 THEN 2^16 - 1 ELSE (rest[n - 1] + 2^16 - f[n]) % 2^16
    IN rest[30]

\* encodeIbusFrame.
Frame(p) ==
    LET body == <<IBUS_FRAME_SIZE, IBUS_CMD>>
                \o [i \in 1..(2 * IBUS_CHANNELS) |->
                      IF i % 2 = 1 THEN p[(i + 1) \div 2] % 256 ELSE p[i \div 2] \div 256]
        sum == Checksum(body)
    IN body \o <<sum % 256, sum \div 256>>

Frames == [p \in Payloads |-> Frame(p)]

\* The payloads whose frames have 0x20 nowhere but at their start.
Plain == {p \in Payloads : \A i \in 2..IBUS_FRAME_SIZE : Frames[p][i] # IBUS_FRAME_SIZE}

\* Mutant: any checksum will do.
ChecksumOkAlways(f) == TRUE

ChecksumOk(f) == Checksum(f) = f[31] + 256 * f[32]

Decode(f) == [i \in 1..IBUS_CHANNELS |-> f[1 + 2 * i] + 256 * f[2 + 2 * i]]

\* Mutant: collects from any byte on.
CCollectAny(f, b) == Append(f, b)

\* ibus_parse_byte: starts at any 0x20 and looks at the second byte at the end only.
CCollect(f, b) == IF f = <<>> /\ b # IBUS_FRAME_SIZE THEN <<>> ELSE Append(f, b)
CAccepts(f) == f[1] = IBUS_FRAME_SIZE /\ f[2] = IBUS_CMD /\ ChecksumOk(f)

\* Mutant: pushByte looks at the second byte at the end, too.
CppCollectAny(f, b) == IF f = <<>> /\ b # IBUS_FRAME_SIZE THEN <<>> ELSE Append(f, b)

\* pushByte: starts over when the second byte is not 0x40, and drops that byte.
CppCollect(f, b) ==
    IF (f = <<>> /\ b # IBUS_FRAME_SIZE) \/ (Len(f) = 1 /\ b # IBUS_CMD)
    THEN <<>> ELSE Append(f, b)
CppAccepts(f) == ChecksumOk(f)

Init ==
    /\ payload \in Payloads /\ sending = Frames[payload] /\ intact = TRUE
    /\ frame = <<>> /\ index_frame = <<>>
    /\ ch = <<>> /\ channels = <<>>
    /\ c_good = FALSE /\ cpp_good = FALSE
    /\ lost = 0 /\ changed = 0 /\ c_missed = 0 /\ cpp_missed = 0

\* Byte b reaches both parsers.
Arrive(b) ==
    LET c == CCollect(frame, b)
        cpp == CppCollect(index_frame, b)
        c_full == Len(c) = IBUS_FRAME_SIZE
        cpp_full == Len(cpp) = IBUS_FRAME_SIZE
    IN /\ frame' = IF c_full THEN <<>> ELSE c
       /\ c_good' = (c_full /\ CAccepts(c))
       /\ ch' = IF c_good' THEN Decode(c) ELSE ch
       /\ index_frame' = IF cpp_full THEN <<>> ELSE cpp
       /\ cpp_good' = (cpp_full /\ CppAccepts(cpp))
       /\ channels' = IF cpp_good' THEN Decode(cpp) ELSE channels

Deliver ==
    /\ sending # <<>>
    /\ Arrive(Head(sending))
    /\ sending' = Tail(sending)
    /\ UNCHANGED <<payload, intact, lost, changed, c_missed, cpp_missed>>

Change(b) ==
    /\ sending # <<>> /\ b # Head(sending)
    /\ changed < MaxChanged
    /\ Arrive(b)
    /\ sending' = Tail(sending)
    /\ intact' = FALSE
    /\ changed' = changed + 1
    /\ UNCHANGED <<payload, lost, c_missed, cpp_missed>>

Lose ==
    /\ sending # <<>>
    /\ lost < MaxLost
    /\ sending' = Tail(sending)
    /\ intact' = FALSE
    /\ lost' = lost + 1
    /\ c_good' = FALSE /\ cpp_good' = FALSE
    /\ UNCHANGED <<payload, frame, index_frame, ch, channels, changed, c_missed, cpp_missed>>

\* The receiver goes on to the next frame; the parsers have had all of the last one.
NextFrame(p) ==
    /\ sending = <<>>
    /\ payload' = p
    /\ sending' = Frames[p]
    /\ intact' = TRUE
    /\ c_good' = FALSE /\ cpp_good' = FALSE
    /\ c_missed' = IF intact /\ payload \in Plain /\ ~c_good THEN c_missed + 1 ELSE 0
    /\ cpp_missed' = IF intact /\ ~cpp_good THEN cpp_missed + 1 ELSE 0
    /\ UNCHANGED <<frame, index_frame, ch, channels, lost, changed>>

Next ==
    \/ Deliver \/ Lose
    \/ \E b \in Noise : Change(b)
    \/ \E p \in Payloads : NextFrame(p)

Spec == Init /\ [][Next]_vars
-----------------------------------------------------------------------------
(* A frame that a parser accepts is one the receiver sent, whole: it ends  *)
(* with the last byte on the wire and has the channels that were sent,     *)
(* however the parser came to its start and whatever was lost before.      *)
NoForgedFrame ==
    /\ c_good => sending = <<>> /\ ch = payload
    /\ cpp_good => sending = <<>> /\ channels = payload

(* pushByte finds the next frame again: it misses at most one intact frame *)
(* after a fault, even with 0x20 among the channel bytes.                  *)
CppResyncs == cpp_missed <= 1

(* Of frames that have 0x20 at their start only, ibus_parse_byte misses at *)
(* most one intact one in a row.  With a stick at rest whose low byte is   *)
(* 0x20 it may stay out of step until the stick moves.                     *)
CResyncs == c_missed <= 1
=============================================================================
