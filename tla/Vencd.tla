------------------------------- MODULE Vencd -------------------------------
(***************************************************************************)
(* run_encoder of omega4-vencd: camera buffers go from the V4L2 driver to  *)
(* the hardware encoder and back while the encoder's output is sent as RTP *)
(* packets or written to a file.  One thread; the camera and the signal    *)
(* handler run beside it.  Modelled from the point where camera, encoder   *)
(* and output are open: everything before only ends the program.           *)
(***************************************************************************)
EXTENDS RtpH264, FiniteSets

CONSTANTS
  Buffers,     \* the V4L2 buffers (--buffers)
  NoBuffer,    \* no frame dequeued
  Frames,      \* --frames, here with a limit: 0 means none
  Skip,        \* --skip
  RtpSeqMod,   \* values of the RTP sequence number: 2^16
  RtpTimeMod,  \* values of the RTP timestamp: 2^32
  Step,        \* timestamp_step
  Coded,       \* the units the encoder may produce, without start codes
  MaxParts,    \* bound: partitions of a frame
  MaxUnits     \* bound: units produced in a run

ASSUME VencdAssumption ==
  /\ IsFiniteSet(Buffers) /\ Buffers # {}
  /\ NoBuffer \notin Buffers
  /\ Frames \in Nat \ {0} /\ Skip \in Nat /\ MaxParts \in Nat /\ MaxUnits \in Nat
  /\ RtpSeqMod \in Nat \ {0} /\ RtpTimeMod \in Nat \ {0} /\ Step \in Nat

\* What the encoder produces are NAL units as H.264 has them: bytes without a
\* start code inside, not ending in a zero, and none of the type of a fragment.
NalUnit(u) ==
  /\ u \in Seq(0..255) /\ u # <<>>
  /\ u[Len(u)] # 0
  /\ \A i \in 1..(Len(u) - 2) : ~(u[i] = 0 /\ u[i + 1] = 0 /\ u[i + 2] \in {0, 1})
  /\ ~IsFragment(u)

ASSUME CodedAssumption == \A u \in Coded : NalUnit(u)

VARIABLES
  sink,      \* "rtp" or "file", from the command line
  pc,        \* where run_encoder is: before "header", at the "head" of the loop,
             \* in "grab" (VIDIOC_DQBUF), reading "parts" of a frame, or "ended"
  captured,  \* frames dequeued, counted up to Skip
  encoded,   \* frames encoded
  part,      \* parts read of the current frame
  stopAt,    \* encoded when stop_requested was set, -1 before
  result,    \* exit status of run_encoder
  queued,    \* buffers the camera may write to
  filled,    \* buffers the camera is done with, in order
  held,      \* the buffer of the current frame
  lost,      \* buffers whose VIDIOC_QBUF failed
  rtp,       \* sequence and timestamp of struct rtp_output
  sent,      \* packets sent; frame is the frame they belong to
  file,      \* bytes in the file
  given      \* parts output_write was called with

camera == <<queued, filled, held, lost>>
output == <<rtp, sent, file, given>>
vars == <<sink, pc, captured, encoded, part, stopAt, result, camera, output>>

Init ==
  /\ sink \in {"rtp", "file"}
  /\ pc = "header"
  /\ captured = 0 /\ encoded = 0 /\ part = 0
  /\ stopAt = -1
  /\ result = 1
  /\ queued = Buffers
  /\ filled = <<>>
  /\ held = NoBuffer
  /\ lost = {}
  /\ rtp = [seq |-> 0, timestamp |-> 0]
  /\ sent = <<>> /\ file = <<>> /\ given = <<>>

-----------------------------------------------------------------------------
\* What the encoder puts into its output buffer: the first unit behind a start
\* code of four bytes, further ones behind one of three.
StartCode(u) == IF u = 1 THEN <<0, 0, 0, 1>> ELSE <<0, 0, 1>>

AnnexB(p) == FlattenSeq([u \in 1..Len(p.units) |-> StartCode(u) \o p.units[u]])

ProducedUnits == FlattenSeq([i \in 1..Len(given) |-> given[i].units])

Parts(ends) ==
  {p \in [units : {<<>>} \cup {<<u>> : u \in Coded} \cup {<<u, v>> : u, v \in Coded},
          end : ends, frame : {encoded}] :
     Len(p.units) + Len(ProducedUnits) <= MaxUnits}

-----------------------------------------------------------------------------
\* A mistake: a timestamp that advances with every part.
TimeAfterAny(p, complete) == (rtp.timestamp + Step) % RtpTimeMod

\* rtp->seq after k packets, rtp->timestamp after a part of which all packets
\* (complete) were sent.
SeqAfter(k) == (rtp.seq + k) % RtpSeqMod

TimeAfter(p, complete) ==
  IF p.end /\ complete THEN (rtp.timestamp + Step) % RtpTimeMod ELSE rtp.timestamp

\* rtp_send_packet for the first k packets of a part; after the last part of a
\* frame output_write advances the timestamp.
Sends(p, k) ==
  LET packets == Packets(AnnexB(p), p.end)
  IN /\ sent' = sent \o [n \in 1..k |->
                  [payload |-> packets[n].payload, marker |-> packets[n].marker,
                   seq |-> SeqAfter(n - 1), timestamp |-> rtp.timestamp,
                   frame |-> p.frame]]
     /\ rtp' = [seq |-> SeqAfter(k), timestamp |-> TimeAfter(p, k = Len(packets))]

\* output_write succeeds; without bytes it is not called, or returns at once.
Written(p) ==
  /\ given' = Append(given, p)
  /\ IF p.units = <<>> THEN UNCHANGED <<rtp, sent, file>>
     ELSE IF sink = "rtp" THEN Sends(p, Len(Packets(AnnexB(p), p.end))) /\ UNCHANGED file
     ELSE file' = file \o AnnexB(p) /\ UNCHANGED <<rtp, sent>>

\* output_write fails: sendto after k packets, or fwrite.
WriteFails(p) ==
  /\ p.units # <<>>
  /\ given' = Append(given, p)
  /\ \/ /\ sink = "rtp"
        /\ LET n == Len(Packets(AnnexB(p), p.end))
           IN \E k \in 0..(n - 1) : Sends(p, k)
        /\ UNCHANGED file
     \/ /\ sink = "file"
        /\ \E k \in 0..(Len(AnnexB(p)) - 1) : file' = file \o SubSeq(AnnexB(p), 1, k)
        /\ UNCHANGED <<rtp, sent>>

-----------------------------------------------------------------------------
\* camera_put_frame: a VIDIOC_QBUF that fails is reported and forgotten.
Put(b) ==
  /\ \/ queued' = queued \cup {b} /\ UNCHANGED lost
     \/ lost' = lost \cup {b} /\ UNCHANGED queued
  /\ held' = NoBuffer

\* "done": camera_close stops the stream and releases every buffer, whoever had it.
Close(status) ==
  /\ pc' = "ended"
  /\ result' = status
  /\ queued' = {} /\ filled' = <<>> /\ held' = NoBuffer
  /\ UNCHANGED lost

\* MPP_ENC_GET_HDR_SYNC, whose failure is ignored, and the header's output.
Header ==
  /\ pc = "header"
  /\ \E p \in Parts({FALSE}) :
       \/ Written(p) /\ pc' = "head" /\ UNCHANGED <<result, camera>>
       \/ WriteFails(p) /\ Close(1)
  /\ UNCHANGED <<sink, captured, encoded, part, stopAt>>

\* A mistake: the loop does not look at stop_requested.
ContinuesBlind == encoded < Frames

\* The condition of the loop.
Continues == stopAt = -1 /\ encoded < Frames

NextFrame ==
  /\ pc = "head"
  /\ Continues
  /\ pc' = "grab"
  /\ UNCHANGED <<sink, captured, encoded, part, stopAt, result, camera, output>>

\* The loop is left: the status tells whether the file could be flushed.
Finish ==
  /\ pc = "head"
  /\ ~Continues
  /\ Close(0) \/ (sink = "file" /\ Close(1))
  /\ UNCHANGED <<sink, captured, encoded, part, stopAt, output>>

\* A mistake: a skipped frame is not given back.
GrabSkippedKept ==
  /\ pc = "grab" /\ captured < Skip
  /\ filled # <<>>
  /\ filled' = Tail(filled)
  /\ held' = NoBuffer
  /\ captured' = captured + 1
  /\ pc' = "head"
  /\ UNCHANGED <<sink, encoded, part, stopAt, result, queued, lost, output>>

\* camera_get_frame during the warm-up: the frame goes straight back.
GrabSkipped ==
  /\ pc = "grab" /\ captured < Skip
  /\ filled # <<>>
  /\ filled' = Tail(filled)
  /\ Put(Head(filled))
  /\ captured' = captured + 1
  /\ pc' = "head"
  /\ UNCHANGED <<sink, encoded, part, stopAt, result, output>>

\* camera_get_frame, and the frame goes to the encoder.
Grab ==
  /\ pc = "grab" /\ captured = Skip
  /\ filled # <<>>
  /\ filled' = Tail(filled)
  /\ held' = Head(filled)
  /\ pc' = "parts"
  /\ UNCHANGED <<sink, captured, encoded, part, stopAt, result, queued, lost, output>>

\* VIDIOC_DQBUF, mpp_frame_init or encode_put_frame fails; only the last one
\* puts the frame back before the camera is closed.
GrabFails ==
  /\ pc = "grab"
  /\ Close(1)
  /\ UNCHANGED <<sink, captured, encoded, part, stopAt, output>>

\* A mistake: the loop over the parts of a frame ends with a stop as well.
FrameDoneStopped(p) == p.end \/ stopAt # -1

\* The condition the loop over the parts of a frame ends with: eoi.
FrameDone(p) == p.end

\* encode_get_packet returns a part: the whole frame, or a partition of it.
\* The part that ends the frame gives the buffer back.
ReadPart ==
  /\ pc = "parts"
  /\ \E p \in Parts(IF part + 1 < MaxParts THEN BOOLEAN ELSE {TRUE}) :
       /\ Written(p)
       /\ IF FrameDone(p)
          THEN Put(held) /\ encoded' = encoded + 1 /\ pc' = "head" /\ part' = 0
          ELSE part' = part + 1 /\ UNCHANGED <<pc, encoded, queued, lost, held>>
  /\ UNCHANGED <<sink, captured, stopAt, result, filled>>

\* encode_get_packet or the output of the part fails.
PartFails ==
  /\ pc = "parts"
  /\ UNCHANGED output \/ \E p \in Parts(BOOLEAN) : WriteFails(p)
  /\ Close(1)
  /\ UNCHANGED <<sink, captured, encoded, part, stopAt>>

\* The camera has filled a buffer.
Fill ==
  /\ \E b \in queued : queued' = queued \ {b} /\ filled' = Append(filled, b)
  /\ UNCHANGED <<sink, pc, captured, encoded, part, stopAt, result, held, lost, output>>

\* SIGTERM or SIGINT: on_signal.
Signal ==
  /\ stopAt = -1
  /\ pc # "ended"
  /\ stopAt' = encoded
  /\ UNCHANGED <<sink, pc, captured, encoded, part, result, camera, output>>

Next ==
  \/ Header
  \/ NextFrame
  \/ Finish
  \/ GrabSkipped
  \/ Grab
  \/ GrabFails
  \/ ReadPart
  \/ PartFails
  \/ Fill
  \/ Signal

\* The thread goes on while its calls return, the encoder finishes what it was
\* given, and the camera fills the buffers it has; no call has to fail.
Progress == Header \/ NextFrame \/ Finish \/ GrabSkipped \/ Grab \/ ReadPart

Spec == Init /\ [][Next]_vars /\ WF_vars(Progress) /\ WF_vars(Fill)

\* When the thread can go on, and the camera: only VIDIOC_DQBUF waits, for the camera.
LoopReady == pc \in {"header", "head", "parts"} \/ (pc = "grab" /\ filled # <<>>)

LoopGoesOn == LoopReady => ENABLED <<Progress>>_vars
CameraGoesOn == queued # {} => ENABLED <<Fill>>_vars

-----------------------------------------------------------------------------
Bytes == 0..255

TypeOK ==
  /\ sink \in {"rtp", "file"}
  /\ pc \in {"header", "head", "grab", "parts", "ended"}
  /\ captured \in 0..Skip /\ encoded \in 0..Frames /\ part \in 0..MaxParts
  /\ stopAt \in -1..Frames
  /\ result \in {0, 1}
  /\ queued \in SUBSET Buffers /\ lost \in SUBSET Buffers
  /\ filled \in Seq(Buffers)
  /\ held \in Buffers \cup {NoBuffer}
  /\ rtp \in [seq : 0..(RtpSeqMod - 1), timestamp : 0..(RtpTimeMod - 1)]
  /\ sent \in Seq([payload : Seq(Bytes), marker : BOOLEAN, seq : 0..(RtpSeqMod - 1),
                   timestamp : 0..(RtpTimeMod - 1), frame : 0..Frames])
  /\ file \in Seq(Bytes)
  /\ given \in Seq([units : Seq(Coded), end : BOOLEAN, frame : 0..Frames])

\* Every buffer is in one place, on every path through the loop: waiting for
\* the camera, filled, with the encoder (only while its parts are read), or
\* lost to a failed VIDIOC_QBUF.  So the camera never writes to the frame
\* the encoder reads, and never runs out of buffers otherwise.
BuffersKept ==
  pc # "ended" =>
    /\ queued \cup Range(filled) \cup lost \cup ({held} \ {NoBuffer}) = Buffers
    /\ queued \cap (Range(filled) \cup lost \cup {held}) = {}
    /\ Range(filled) \cap (lost \cup {held}) = {}
    /\ held \notin lost
    /\ \A i, j \in DOMAIN filled : filled[i] = filled[j] => i = j
    /\ held # NoBuffer <=> pc = "parts"

Failed == pc = "ended" /\ result = 1

Delivered ==
  CASE sink = "rtp" -> Received(sent)
    [] sink = "file" /\ file # <<>> -> Units(file)
    [] OTHER -> <<>>

\* An RFC 6184 receiver, or a reader of the file, gets the units the encoder
\* produced, whatever their lengths: no packet exceeds the MTU, and a failed
\* send in the middle of a unit leaves nothing but a shorter stream.  Numbers
\* follow one another, so that it sees what the network lost.
UnitsArrive ==
  /\ ~Failed => Delivered = ProducedUnits
  /\ sink = "rtp" => IsPrefix(Delivered, ProducedUnits)
  /\ \A n \in DOMAIN sent :
       /\ Len(sent[n].payload) <= MaxPayload
       /\ sent[n].seq = (n - 1) % RtpSeqMod

\* Frames whose last partition came without bytes.
Silent == {given[i].frame : i \in {j \in DOMAIN given : given[j].end /\ given[j].units = <<>>}}

\* The marker is on the last packet of a frame and on no other, also when the
\* frame comes in partitions of several units each.  (A frame that ends with an
\* empty partition gets none: output_write has no packet to put it on.)
MarkerEndsFrame ==
  \A n \in DOMAIN sent :
    sent[n].marker <=>
      /\ sent[n].frame < encoded
      /\ sent[n].frame \notin Silent
      /\ \A m \in DOMAIN sent : m > n => sent[m].frame # sent[n].frame

\* All packets of a frame carry its timestamp, the header's that of the first
\* frame, and successive frames are one step apart; without the marker the
\* step is missing too.
TimestampPerFrame ==
  \A n \in DOMAIN sent :
    sent[n].timestamp =
      ((sent[n].frame - Cardinality({f \in Silent : f < sent[n].frame})) * Step) % RtpTimeMod

\* After SIGTERM at most the frame being waited for or encoded is finished,
\* and it is finished: a clean exit never leaves half a frame behind.
CleanStop ==
  /\ stopAt # -1 => encoded <= stopAt + 1
  /\ pc = "ended" /\ result = 0 =>
       \A i \in DOMAIN given :
         given[i].frame < encoded \/ (i = 1 /\ encoded = 0)

\* The program ends after a signal, unless every buffer got lost on its way
\* back to the camera: VIDIOC_DQBUF then waits for ever, and xioctl repeats it.
StopEnds == stopAt # -1 ~> pc = "ended" \/ lost = Buffers
=============================================================================
