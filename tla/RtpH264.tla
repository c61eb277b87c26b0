------------------------------ MODULE RtpH264 ------------------------------
(***************************************************************************)
(* omega4-vencd's way from Annex-B H.264 to RTP packets and back: the code *)
(* finds start codes (h264_find_start_code), cuts the units between them   *)
(* (rtp_send_annexb) and fragments the long ones (rtp_send_nal); Received  *)
(* is the receiver of RFC 6184 in packetization-mode 1, which the README's *)
(* SDP announces.  A string is a sequence of byte values.                  *)
(***************************************************************************)
EXTENDS Integers, Sequences, SequencesExt

CONSTANT MaxPayload  \* --rtp-mtu less RTP_HEADER_SIZE

ASSUME PayloadAssumption == MaxPayload \in Nat /\ MaxPayload > 2

-----------------------------------------------------------------------------
\* The length of the start code at position i, 0 when there is none.
PrefixAt(b, i) ==
  IF i + 2 > Len(b) \/ b[i] # 0 \/ b[i + 1] # 0 THEN 0
  ELSE IF b[i + 2] = 1 THEN 3
  ELSE IF i + 3 <= Len(b) /\ b[i + 2] = 0 /\ b[i + 3] = 1 THEN 4 ELSE 0

\* h264_find_start_code: the first start code from position i on; behind the
\* string when there is none (the code returns -1).
FindStartCode(b, from) ==
  LET found == {i \in from..Len(b) : PrefixAt(b, i) # 0}
  IN IF found = {} THEN Len(b) + 1
     ELSE CHOOSE i \in found : \A j \in found : i <= j

\* The two scans of rtp_send_annexb: the units from the start code at pos
\* on, empty ones left out.
UnitsFrom(b) ==
  LET cut[pos \in 1..(Len(b) + 1)] ==
        IF pos > Len(b) THEN <<>>
        ELSE LET start == pos + PrefixAt(b, pos)
                 next == FindStartCode(b, start)
             IN (IF start < next THEN <<SubSeq(b, start, next - 1)>> ELSE <<>>)
                  \o cut[next]
  IN cut

\* Without any start code the string is one unit; otherwise what is in front
\* of the first start code is dropped.
Units(b) ==
  LET first == FindStartCode(b, 1)
  IN IF first > Len(b) THEN <<b>> ELSE UnitsFrom(b)[first]

-----------------------------------------------------------------------------
\* rtp_send_nal's two bytes in front of a fragment (FU indicator and header).
FuIndicator(unit) == (unit[1] \div 32) * 32 + 28

FuHeader(unit, start, end) ==
  (unit[1] % 32) + (IF start THEN 128 ELSE 0) + (IF end THEN 64 ELSE 0)

FuPayload == MaxPayload - 2

\* Fragments of a unit: its bytes behind the header, FuPayload at a time.
Fragments(unit) == (Len(unit) - 1 + FuPayload - 1) \div FuPayload

\* A mistake: a unit one byte longer than a packet is sent as it is.
PayloadsLong(unit) ==
  IF Len(unit) <= MaxPayload + 1 THEN <<unit>>
  ELSE [k \in 1..Fragments(unit) |->
          LET off == (k - 1) * FuPayload + 1
              upto == IF k = Fragments(unit) THEN Len(unit) ELSE off + FuPayload
          IN <<FuIndicator(unit), FuHeader(unit, k = 1, k = Fragments(unit))>>
               \o SubSeq(unit, off + 1, upto)]

\* rtp_send_nal: the payloads of the packets of one unit.
Payloads(unit) ==
  IF Len(unit) <= MaxPayload THEN <<unit>>
  ELSE [k \in 1..Fragments(unit) |->
          LET off == (k - 1) * FuPayload + 1
              upto == IF k = Fragments(unit) THEN Len(unit) ELSE off + FuPayload
          IN <<FuIndicator(unit), FuHeader(unit, k = 1, k = Fragments(unit))>>
               \o SubSeq(unit, off + 1, upto)]

\* A mistake: the marker goes on the last packet of every unit.
PacketsMarkUnits(b, marker) ==
  LET units == Units(b)
  IN FlattenSeq([u \in DOMAIN units |->
       [p \in DOMAIN Payloads(units[u]) |->
          [payload |-> Payloads(units[u])[p],
           marker |-> marker /\ p = Len(Payloads(units[u]))]]])

\* rtp_send_annexb: what is handed to rtp_send_packet.  The marker goes on
\* the last packet of the last unit (nal_idx == nal_count, and end).
Packets(b, marker) ==
  LET units == Units(b)
      all == FlattenSeq([u \in DOMAIN units |-> Payloads(units[u])])
  IN [p \in 1..Len(all) |-> [payload |-> all[p], marker |-> marker /\ p = Len(all)]]

-----------------------------------------------------------------------------
\* The receiver: a packet that is no fragment is a unit; fragments are
\* collected from a start to an end.
IsFragment(payload) == payload[1] % 32 = 28

FirstFragment(payload) == payload[2] >= 128

LastFragment(payload) == (payload[2] % 128) >= 64

UnitHeader(payload) == (payload[1] \div 32) * 32 + (payload[2] % 32)

\* What n packets make: the finished units, and the one being collected.
Received(packets) ==
  LET got[n \in 0..Len(packets)] ==
        IF n = 0 THEN [units |-> <<>>, open |-> <<>>]
        ELSE LET p == packets[n].payload
                 sofar == IF FirstFragment(p) THEN <<UnitHeader(p)>> ELSE got[n - 1].open
                 more == sofar \o SubSeq(p, 3, Len(p))
             IN IF ~IsFragment(p) THEN [units |-> Append(got[n - 1].units, p), open |-> <<>>]
                ELSE IF LastFragment(p) THEN [units |-> Append(got[n - 1].units, more), open |-> <<>>]
                ELSE [units |-> got[n - 1].units, open |-> more]
  IN got[Len(packets)].units
=============================================================================
