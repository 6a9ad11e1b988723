--------------------------- MODULE RtpTimestamper ---------------------------
(***************************************************************************)
(* The media clock of a translated audio stream (class RtpTimestamper):     *)
(* frames of fixed duration, handed over in bursts and after pauses, are    *)
(* given the timestamps and sequence numbers of one continuous RTP stream.  *)
(* Time is in milliseconds, or any coarser unit both constants share.       *)
(***************************************************************************)
EXTENDS Integers

CONSTANTS FrameDuration,   \* frameDurationMs
          GapThreshold,    \* gapThresholdMs
          TicksPerMs,      \* clockRate / 1000
          SeqModulus       \* 65536, the range of a uint16

ASSUME RtpAssumption ==
    /\ FrameDuration \in Nat \ {0}
    /\ GapThreshold \in Nat
    /\ TicksPerMs \in Nat \ {0}
    /\ SeqModulus \in Nat \ {0}

VARIABLES now,              \* the wall clock
          nextTimestamp, sequenceNumber,
          playoutEndWall    \* when the media emitted so far finishes playing

clock == <<nextTimestamp, sequenceNumber, playoutEndWall>>

Undefined == -1

RtpInit ==
    /\ nextTimestamp = 0
    /\ sequenceNumber = -1
    /\ playoutEndWall = Undefined

SamplesPerFrame == TicksPerMs * FrameDuration

PlayoutEnd == IF playoutEndWall = Undefined THEN now ELSE playoutEndWall

Idle == now - PlayoutEnd

WallTicks == TicksPerMs * Idle  \* mutant: the timeline follows the wall clock

\* Silence the source left beyond the buffered media, when it is not mere jitter.
GapTicks == IF Idle > GapThreshold THEN TicksPerMs * Idle ELSE 0

NotAnchored == PlayoutEnd  \* mutant: the gap is not waited for

Anchor == IF Idle > GapThreshold THEN now ELSE PlayoutEnd

(* What nextFrameTimestamp returns ... *)
Timestamp == nextTimestamp + GapTicks
Unwrapped == sequenceNumber + 1  \* mutant
SequenceNumber == (sequenceNumber + 1) % SeqModulus
EndAfter == Anchor + FrameDuration
BufferAhead == IF EndAfter > now THEN EndAfter - now ELSE 0

(* ... and changes. *)
NextFrameTimestamp ==
    /\ nextTimestamp' = Timestamp + SamplesPerFrame
    /\ playoutEndWall' = EndAfter
    /\ sequenceNumber' = SequenceNumber
=============================================================================
