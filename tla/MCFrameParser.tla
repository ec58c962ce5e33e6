---------------------------- MODULE MCFrameParser ----------------------------
(***************************************************************************)
(* Instances of FrameParser for TLC.                                       *)
(***************************************************************************)
EXTENDS FrameParser

\* The shortest answer, and a notification with a byte that looks like a
\* sync byte.
MCFrames ==
    {[type |-> FRAME_SET_RESP, status |-> 0, payload |-> <<>>],
     [type |-> FRAME_NOTIFY, status |-> 0, payload |-> <<SYNC_BYTE, 0>>]}

\* A sync byte, a type, and two lengths: the longest, and one too long.
MCNoiseBytes == {SYNC_BYTE, FRAME_GET_RESP, 3, 4}

=============================================================================
