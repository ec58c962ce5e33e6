----------------------------- MODULE FrameParser -----------------------------
(***************************************************************************)
(* The byte-at-a-time parser of device-to-host frames (framing.h), on a    *)
(* link that damages, drops and adds bytes.  A device sends one frame      *)
(* after the other; pump_rx_() feeds each byte that arrives to the parser, *)
(* in as many passes of loop() as it takes, so a step is one byte.         *)
(***************************************************************************)
EXTENDS Crc16

CONSTANTS
    MaxRxPayload,   \* MAX_RX_PAYLOAD, 132 in the code
    Frames,         \* the frames the device sends
    NoiseBytes,     \* what a damaged or an added byte may be
    MaxFaults       \* bound: bytes damaged, lost or added

VARIABLES
    parser,         \* the members of FrameParser
    result,         \* what the last byte made feed() return
    wire,           \* the bytes of the frame being sent that are to come
    frame,          \* that frame
    whole,          \* none of its bytes was damaged, lost, or had noise between
    aligned,        \* the parser was looking for a frame when it began
    missed,         \* plain frames in a row that arrived whole and were missed
    faults

vars == <<parser, result, wire, frame, whole, aligned, missed, faults>>

Byte == {n \in Nat : n < 256}

SYNC_BYTE == 165
FRAME_NOTIFY == 64
FRAME_SET_RESP == 129
FRAME_GET_RESP == 130
RESP_HEADER_LEN == 3

FrameTypes == {FRAME_NOTIFY, FRAME_SET_RESP, FRAME_GET_RESP}

-----------------------------------------------------------------------------
(* FrameParser *)

States == {"SYNC", "TYPE", "HEADER", "PAYLOAD", "CRC_LO", "CRC_HI"}

Results == {"NEED_MORE", "FRAME", "CRC_FAILED", "OVERSIZE"}

\* payload is what was written to payload_ for this frame, so that
\* payload_pos_ is its length.
Parsers == [state : States, type : Byte, status : Byte, len : Crcs,
            header_pos : 0 .. RESP_HEADER_LEN, payload : Seq(Byte),
            crc : Crcs, rx_crc : Crcs]

ParserAtStart ==
    [state |-> "SYNC", type |-> 0, status |-> 0, len |-> 0, header_pos |-> 0,
     payload |-> <<>>, crc |-> CRC16_INIT, rx_crc |-> 0]

\* field |= byte << 8: the low byte is in place.
Little(field, byte) == (field % 256) + 256 * byte

Hunted(p, byte) ==
    IF byte = SYNC_BYTE THEN [p EXCEPT !.state = "TYPE"] ELSE p

\* Mutants: a sync byte in place of the type is dropped with the one before,
\* or the header's position is left where it was.
TypedDropping(p, byte) ==
    IF byte \in FrameTypes
    THEN [p EXCEPT !.state = "HEADER", !.type = byte, !.crc = Crc16Update(CRC16_INIT, byte),
                   !.header_pos = 0]
    ELSE [p EXCEPT !.state = "SYNC"]

TypedResuming(p, byte) ==
    CASE byte = SYNC_BYTE -> p
      [] byte \in FrameTypes ->
            [p EXCEPT !.state = "HEADER", !.type = byte, !.crc = Crc16Update(CRC16_INIT, byte)]
      [] OTHER -> [p EXCEPT !.state = "SYNC"]

Typed(p, byte) ==
    CASE byte = SYNC_BYTE -> p
      [] byte \in FrameTypes ->
            [p EXCEPT !.state = "HEADER", !.type = byte, !.crc = Crc16Update(CRC16_INIT, byte),
                      !.header_pos = 0]
      [] OTHER -> [p EXCEPT !.state = "SYNC"]

\* Mutant: one byte more than the buffer holds.
OversizeLater(len) == len > MaxRxPayload + 1

Oversize(len) == len > MaxRxPayload

\* The status, the low and the high byte of the length.
HeaderField(p, byte) ==
    CASE p.header_pos = 0 -> [p EXCEPT !.status = byte]
      [] p.header_pos = 1 -> [p EXCEPT !.len = byte]
      [] OTHER -> [p EXCEPT !.len = Little(p.len, byte)]

HeaderTaken(p, byte) ==
    [HeaderField(p, byte) EXCEPT !.crc = Crc16Update(p.crc, byte),
                                 !.header_pos = p.header_pos + 1]

LastOfHeader(p) == p.header_pos + 1 >= RESP_HEADER_LEN

Headed(p, byte) ==
    LET taken == HeaderTaken(p, byte)
    IN  CASE ~LastOfHeader(p) -> taken
          [] LastOfHeader(p) /\ Oversize(taken.len) -> [taken EXCEPT !.state = "SYNC"]
          [] OTHER -> [taken EXCEPT !.payload = <<>>,
                                    !.state = IF taken.len = 0 THEN "CRC_LO" ELSE "PAYLOAD"]

Filled(p, byte) ==
    [p EXCEPT !.crc = Crc16Update(p.crc, byte), !.payload = Append(@, byte),
              !.state = IF Len(p.payload) + 1 >= p.len THEN "CRC_LO" ELSE "PAYLOAD"]

\* Mutant: the checksum is not compared.
MatchesAlways(p, byte) == TRUE

Matches(p, byte) == Little(p.rx_crc, byte) = p.crc

\* Mutant: only a frame that is in order sends the parser back to hunting.
CheckedOnSuccess(p, byte) ==
    [p EXCEPT !.rx_crc = Little(p.rx_crc, byte),
              !.state = IF Matches(p, byte) THEN "SYNC" ELSE "CRC_HI"]

Checked(p, byte) ==
    [p EXCEPT !.rx_crc = Little(p.rx_crc, byte), !.state = "SYNC"]

Feed(p, byte) ==
    CASE p.state = "SYNC" -> Hunted(p, byte)
      [] p.state = "TYPE" -> Typed(p, byte)
      [] p.state = "HEADER" -> Headed(p, byte)
      [] p.state = "PAYLOAD" -> Filled(p, byte)
      [] p.state = "CRC_LO" -> [p EXCEPT !.rx_crc = byte, !.state = "CRC_HI"]
      [] OTHER -> Checked(p, byte)

FedResult(p, byte) ==
    CASE p.state = "CRC_HI" -> IF Matches(p, byte) THEN "FRAME" ELSE "CRC_FAILED"
      [] p.state = "HEADER" /\ LastOfHeader(p) /\ Oversize(HeaderTaken(p, byte).len) -> "OVERSIZE"
      [] OTHER -> "NEED_MORE"

-----------------------------------------------------------------------------
(* The device and the link *)

Covered(f) ==
    <<f.type, f.status, Len(f.payload) % 256, Len(f.payload) \div 256>> \o f.payload

Encoded(f) ==
    <<SYNC_BYTE>> \o Covered(f) \o <<Crc16Of(Covered(f)) % 256, Crc16Of(Covered(f)) \div 256>>

\* Without a byte that could be taken for the beginning of a frame.
Plain(f) == \A i \in 2 .. Len(Encoded(f)) : Encoded(f)[i] # SYNC_BYTE

ASSUME ParserAssumption ==
    /\ MaxRxPayload \in Crcs /\ MaxFaults \in Nat
    /\ NoiseBytes \subseteq Byte
    /\ Frames \subseteq [type : FrameTypes, status : Byte, payload : Seq(Byte)]
    /\ \A f \in Frames : Len(f.payload) <= MaxRxPayload

TypeOK ==
    /\ parser \in Parsers
    /\ result \in Results
    /\ wire \in Seq(Byte)
    /\ frame \in Frames
    /\ whole \in BOOLEAN /\ aligned \in BOOLEAN
    /\ missed \in Nat
    /\ faults \in 0 .. MaxFaults

Init ==
    /\ parser = ParserAtStart
    /\ result = "NEED_MORE"
    /\ wire = <<>> /\ frame \in Frames
    /\ whole = FALSE /\ aligned = FALSE
    /\ missed = 0 /\ faults = 0

Hunting == parser.state \in {"SYNC", "TYPE"}

Send(f) ==
    /\ wire = <<>>
    /\ frame' = f
    /\ wire' = Encoded(f)
    /\ whole' = TRUE
    /\ aligned' = Hunting
    /\ result' = "NEED_MORE"
    /\ UNCHANGED <<parser, missed, faults>>

\* pump_rx_()
Take(byte) ==
    /\ parser' = Feed(parser, byte)
    /\ result' = FedResult(parser, byte)

\* The last byte of a frame is through; missed counts plain frames only.
Counted(intact) ==
    missed' = IF Len(wire) = 1 /\ intact /\ Plain(frame) /\ result' # "FRAME"
              THEN missed + 1
              ELSE IF Len(wire) = 1 THEN 0 ELSE missed

Arrive ==
    /\ wire # <<>>
    /\ wire' = Tail(wire)
    /\ Take(Head(wire))
    /\ Counted(whole)
    /\ UNCHANGED <<frame, whole, aligned, faults>>

Fault ==
    /\ faults < MaxFaults
    /\ faults' = faults + 1
    /\ UNCHANGED <<frame, aligned>>

Damage(byte) ==
    /\ Fault
    /\ wire # <<>> /\ byte # Head(wire)
    /\ wire' = Tail(wire)
    /\ Take(byte)
    /\ whole' = FALSE
    /\ Counted(FALSE)

Drop ==
    /\ Fault
    /\ wire # <<>>
    /\ wire' = Tail(wire)
    /\ whole' = FALSE
    /\ result' = "NEED_MORE"
    /\ Counted(FALSE)
    /\ UNCHANGED parser

Noise(byte) ==
    /\ Fault
    /\ Take(byte)
    /\ whole' = (whole /\ wire = <<>>)
    /\ missed' = 0
    /\ UNCHANGED wire

\* reset(), which start_probe_() calls.
Reset ==
    /\ parser.state # "SYNC"
    /\ parser' = [parser EXCEPT !.state = "SYNC"]
    /\ result' = "NEED_MORE"
    /\ whole' = (whole /\ wire = <<>>)
    /\ missed' = 0
    /\ UNCHANGED <<wire, frame, aligned, faults>>

Next ==
    \/ \E f \in Frames : Send(f)
    \/ Arrive
    \/ \E byte \in NoiseBytes : Damage(byte) \/ Noise(byte)
    \/ Drop
    \/ Reset

Spec == Init /\ [][Next]_vars

-----------------------------------------------------------------------------

(***************************************************************************)
(* payload_[payload_pos_++] stays inside of payload_[MAX_RX_PAYLOAD],      *)
(* whatever lengths arrive (feed(), State::HEADER and State::PAYLOAD).     *)
(***************************************************************************)
WritesInBounds ==
    parser.state = "PAYLOAD" => Len(parser.payload) < parser.len /\ parser.len <= MaxRxPayload

\* FrameParser::type(), status() and payload().
Delivered == [type |-> parser.type, status |-> parser.status, payload |-> parser.payload]

(***************************************************************************)
(* What the hub is given as a frame is one that the device sends, with its *)
(* status and payload: no damaged frame, and none put together from noise  *)
(* or from the rest of one frame and the beginning of the next (feed(),    *)
(* State::CRC_HI).                                                         *)
(***************************************************************************)
OnlySent == result = "FRAME" => Delivered \in Frames

(***************************************************************************)
(* A frame is only handed over when the two bytes at its end are the       *)
(* checksum of all of it, from the type to the last byte of the payload,   *)
(* wherever in the noise the parser took it to begin (feed(): the checksum *)
(* is folded in byte by byte, in three states).                            *)
(***************************************************************************)
ChecksWhole ==
    result = "FRAME" =>
        /\ Len(parser.payload) = parser.len
        /\ Crc16Of(Covered(Delivered)) = parser.rx_crc

(***************************************************************************)
(* "Tolerates arbitrary noise" (FrameParser): a frame that arrives whole   *)
(* while the parser is looking for one is delivered, also after bytes that *)
(* looked like the start of a frame ("treating this 0xA5 as the discarded  *)
(* byte would consume the real sync byte"), and delivered as it was sent.  *)
(***************************************************************************)
AlignedDelivered ==
    [][Arrive /\ Len(wire) = 1 /\ whole /\ aligned
         => result' = "FRAME" /\ Delivered' = frame]_vars

(***************************************************************************)
(* "Requires resynchronisation on the next sync byte" (FrameParser):       *)
(* damage costs the frames that a wrong length can swallow and no more, as *)
(* long as no byte of a later frame looks like a sync byte.                *)
(***************************************************************************)
ShortestFrame == 2 + RESP_HEADER_LEN + 2

MissedBounded ==
    missed <= (RESP_HEADER_LEN + MaxRxPayload + 2 + ShortestFrame - 1) \div ShortestFrame

=============================================================================
