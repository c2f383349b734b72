-------------------------------- MODULE Receive --------------------------------
(***************************************************************************)
(* What arrives from the GNSS receiver (services/gnss_m10q.c): the UART    *)
(* callback puts bytes into a ring, and the GNSS thread takes them out one *)
(* by one and gives them to one of two parsers, that of UBX messages or    *)
(* that of NMEA sentences.  Bytes are lost when the ring is full, and when *)
(* the UART stops.                                                         *)
(*                                                                         *)
(* Bytes are numbers, and both checksums are computed.  The receiver sends *)
(* acknowledgements and the sentences of Bodies; MaxPayload and MaxLine    *)
(* stand for 64 and 1021.                                                  *)
(***************************************************************************)
EXTENDS Integers, Sequences, FiniteSets, SequencesExt

CONSTANTS
  Bodies,      \* sentences, from after $ to before *
  RingBytes,   \* size of rx_ring_buf
  MaxPayload,  \* sizeof(ubx_rx.payload)
  MaxLine,     \* sizeof(nmea_line_buf) - 3
  MaxFrames,   \* bound: messages and sentences sent
  MaxGaps      \* bound: times bytes are lost

Sync1 == 181   Sync2 == 98   Dollar == 36   Star == 42   Cr == 13   Lf == 10

\* What a sentence is made of, whose lines fit the parser's array.
Characters == (32..126) \ {Dollar, Star}

ASSUME ReceiveAssumption ==
  /\ \A b \in Bodies : b \in Seq(Characters) /\ Len(b) \in 4..MaxLine - 4
  /\ {RingBytes, MaxFrames, MaxGaps} \subseteq Nat
  /\ MaxLine \in Nat \ {0} /\ MaxPayload \in 6..255

Hex(d) == IF d < 10 THEN 48 + d ELSE 55 + d

\* An exclusive or: a bit is set if an odd number of the bytes has it.
XorOf(s) ==
  LET bit(w) == w * (Cardinality({i \in 1..Len(s) : (s[i] \div w) % 2 = 1}) % 2)
  IN  bit(1) + bit(2) + bit(4) + bit(8) + bit(16) + bit(32) + bit(64) + bit(128)

\* ubx_update_rx_checksum()
Check(ck, b) == <<(ck[1] + b) % 256, (ck[1] + ck[2] + b) % 256>>
Fletcher(s) ==
  LET ck[n \in 0..Len(s)] == IF n = 0 THEN <<0, 0>> ELSE Check(ck[n - 1], s[n])
  IN  ck[Len(s)]

Sentence(body) == <<Dollar>> \o body \o <<Star, Hex(XorOf(body) \div 16), Hex(XorOf(body) % 16)>>
AckBody == <<5, 1, 2, 0, 6, 1>>    \* ACK-ACK of CFG-MSG
Frames == {Sentence(b) \o <<Cr, Lf>> : b \in Bodies}
            \cup {<<Sync1, Sync2>> \o AckBody \o Fletcher(AckBody)}

VARIABLES
  wire,     \* what the receiver has yet to send of a frame
  rxRing,   \* rx_ring_buf: bytes, each with whether bytes were lost before it
  gap,      \* bytes have been lost since the last one put into the ring
  ubx,      \* ubx_rx.state
  len,      \* ubx_rx.length
  payload,  \* what has been checksummed: class, id, length and payload
  ckA,      \* ubx_rx.ck_a
  line,     \* nmea_line_buf up to nmea_line_pos
  since,    \* history: bytes parsed since the last loss
  holes,    \* history: losses since the line began
  got,      \* history: the sentence or message handled last
  missed,   \* history: a sentence ended unhandled though nothing was lost lately
  frames, gaps   \* history

ubxVars == <<ubx, len, payload, ckA>>
receiveVars == <<wire, rxRing, gap, ubxVars, line, since, holes, got, missed, frames, gaps>>

Words == {n \in Nat : n \div 256 < 256}    \* uint16_t
UbxStates == {"search", "sync2", "class", "id", "len_l", "len_h", "payload", "ck_a", "ck_b"}

\* Bytes a message that never was can swallow: the longest payload and checksum.
Swallowed == MaxPayload + 2
LongestFrame == CHOOSE n \in {Len(f) : f \in Frames} : \A f \in Frames : Len(f) <= n
Cap == LongestFrame + Swallowed

ReceiveTypeOK ==
  /\ wire \in Seq(0..255) /\ rxRing \in Seq((0..255) \X BOOLEAN) /\ Len(rxRing) <= RingBytes
  /\ ubx \in UbxStates /\ len \in Words /\ ckA \in 0..255
  /\ payload \in Seq(0..255) /\ Len(payload) <= 4 + MaxPayload
  /\ line \in Seq(0..255) /\ Len(line) <= MaxLine
  /\ {gap, missed} \subseteq BOOLEAN /\ since \in 0..Cap /\ holes \in 0..2

ReceiveInit ==
  /\ wire = <<>> /\ rxRing = <<>> /\ gap = FALSE
  /\ ubx = "search" /\ len = 0 /\ payload = <<>> /\ ckA = 0 /\ line = <<>>
  /\ since = Cap /\ holes = 0 /\ got = <<>> /\ missed = FALSE /\ frames = 0 /\ gaps = 0

-----------------------------------------------------------------------------
(* The receiver and the UART callback *)

SendFrame ==
  /\ wire = <<>> /\ frames < MaxFrames /\ frames' = frames + 1
  /\ wire' \in Frames
  /\ UNCHANGED <<rxRing, gap, ubxVars, line, since, holes, got, missed, gaps>>

\* UART_RX_RDY: the ring takes the byte, or drops it when it is full.
RxReady ==
  /\ wire # <<>> /\ wire' = Tail(wire)
  /\ \/ /\ Len(rxRing) < RingBytes
        /\ rxRing' = Append(rxRing, <<Head(wire), gap>>) /\ gap' = FALSE /\ UNCHANGED gaps
     \/ /\ Len(rxRing) = RingBytes /\ (gap \/ gaps < MaxGaps)
        /\ gap' = TRUE /\ gaps' = gaps + (IF gap THEN 0 ELSE 1) /\ UNCHANGED rxRing
  /\ UNCHANGED <<ubxVars, line, since, holes, got, missed, frames>>

\* UART_RX_STOPPED, UART_RX_DISABLED: what comes until reception is enabled
\* again is lost; an overrun also empties the ring.
RxStopped ==
  /\ gaps < MaxGaps /\ gaps' = gaps + 1 /\ gap' = TRUE
  /\ \E n \in 0..Len(wire) : wire' = SubSeq(wire, n + 1, Len(wire))
  /\ rxRing' \in {rxRing, <<>>}
  /\ UNCHANGED <<ubxVars, line, since, holes, got, missed, frames>>

-----------------------------------------------------------------------------
(* The GNSS thread: process_uart_data() *)

NextByte == IF rxRing = <<>> THEN {} ELSE {Head(rxRing)[1]}

\* ring_buf_get() of one byte
TakeByte(b) ==
  /\ rxRing' = Tail(rxRing)
  /\ since' = IF Head(rxRing)[2] THEN 1 ELSE IF since < Cap THEN since + 1 ELSE Cap
  /\ holes' = IF ubx = "search" /\ b = Dollar THEN 0
              ELSE IF Head(rxRing)[2] /\ holes < 2 THEN holes + 1 ELSE holes
  /\ UNCHANGED <<wire, gap, frames, gaps>>

\* ubx_reset_parser()
ResetParser == ubx' = "search" /\ len' = 0 /\ payload' = <<>> /\ UNCHANGED ckA

UbxSync(b) ==
  /\ TakeByte(b)
  /\ \/ ubx = "search" /\ b = Sync1 /\ ubx' = "sync2" /\ UNCHANGED <<len, payload, ckA>>
     \/ ubx = "sync2" /\ b = Sync2 /\ ubx' = "class" /\ payload' = <<>> /\ UNCHANGED <<len, ckA>>
     \/ ubx = "sync2" /\ b = Sync1 /\ UNCHANGED ubxVars
     \/ ubx = "sync2" /\ b \notin {Sync1, Sync2} /\ ResetParser
  /\ missed' = (missed \/ (ubx = "sync2" /\ b = Cr /\ since' = Cap))
  /\ UNCHANGED <<line, got>>

\* Mutant: a length beyond the payload's array is believed.
LengthBelieved(n) ==
  IF n = 0 THEN ubx' = "ck_a" /\ len' = n ELSE ubx' = "payload" /\ len' = n

\* Class, id and length; one that the payload's array cannot hold is no message.
Length(n) ==
  CASE n > MaxPayload -> ubx' = "search" /\ len' = 0
    [] n = 0          -> ubx' = "ck_a" /\ len' = n
    [] OTHER          -> ubx' = "payload" /\ len' = n

UbxBody(b) ==
  /\ TakeByte(b)
  /\ payload' = Append(payload, b)
  /\ \/ ubx = "class" /\ ubx' = "id" /\ UNCHANGED len
     \/ ubx = "id" /\ ubx' = "len_l" /\ UNCHANGED len
     \/ ubx = "len_l" /\ ubx' = "len_h" /\ len' = b
     \/ ubx = "len_h" /\ Length(len + 256 * b)
     \/ /\ ubx = "payload" /\ UNCHANGED len
        /\ ubx' = IF Len(payload') - 4 >= len THEN "ck_a" ELSE ubx
  /\ missed' = (missed \/ (b = Cr /\ since' = Cap))
  /\ UNCHANGED <<ckA, line, got>>

UbxCheck(b) ==
  /\ TakeByte(b)
  /\ \/ ubx = "ck_a" /\ ubx' = "ck_b" /\ ckA' = b /\ UNCHANGED <<len, payload, got>>
     \/ /\ ubx = "ck_b" /\ ResetParser
        /\ got' = IF <<ckA, b>> = Fletcher(payload) THEN payload ELSE got
  /\ missed' = (missed \/ (b = Cr /\ since' = Cap))
  /\ UNCHANGED line

\* A $ starts a sentence, whatever has come of the one before.
NmeaStart(b) ==
  /\ ubx = "search" /\ b = Dollar /\ TakeByte(b)
  /\ line' = <<b>>
  /\ UNCHANGED <<ubxVars, got, missed>>

\* strtol() of two characters in base 16: digits, after white space or a sign
Digit(b) ==
  CASE b \in 48..57  -> b - 48
    [] b \in 65..70  -> b - 55
    [] b \in 97..102 -> b - 87
    [] OTHER         -> -1
HexValue(b1, b2) ==
  LET d1 == Digit(b1)  d2 == Digit(b2) IN
  CASE d1 >= 0 /\ d2 >= 0                        -> 16 * d1 + d2
    [] d1 >= 0 /\ d2 < 0                         -> d1
    [] b1 \in (9..13) \cup {32, 43} /\ d2 >= 0    -> d2
    [] b1 = 45 /\ d2 >= 0                        -> (256 - d2) % 256
    [] OTHER                                     -> 0
CharAt(s, i) == IF i <= Len(s) THEN s[i] ELSE 0

\* Mutant: a line in which no * is found needs no checksum.
ValidUnlessStarred(s) ==
  /\ Len(s) >= 8 /\ s[1] = Dollar
  /\ LET stars == {i \in 2..Len(s) : s[i] = Star /\ i <= Len(s) - 2}
         star  == CHOOSE i \in stars : \A j \in stars : i <= j
     IN  stars # {} => XorOf(SubSeq(s, 2, star - 1))
                         = HexValue(CharAt(s, star + 1), CharAt(s, star + 2))

\* validate_nmea_checksum(): the * is looked for up to three before the end.
ValidSentence(s) ==
  /\ Len(s) >= 8 /\ s[1] = Dollar
  /\ LET stars == {i \in 2..Len(s) : s[i] = Star /\ i <= Len(s) - 2}
         star  == CHOOSE i \in stars : \A j \in stars : i <= j
     IN  /\ stars # {}
         /\ XorOf(SubSeq(s, 2, star - 1)) = HexValue(CharAt(s, star + 1), CharAt(s, star + 2))

NmeaEnd(b) ==
  /\ ubx = "search" /\ b \in {Cr, Lf} /\ TakeByte(b)
  /\ line' = <<>>
  /\ got' = IF ValidSentence(line) /\ holes < 2 THEN line ELSE got
  /\ missed' = (missed \/ (b = Cr /\ since' = Cap /\ ~ValidSentence(line)))
  /\ UNCHANGED ubxVars

\* A character of a line, which is given up when it is too long; or a stray byte.
NmeaByte(b) ==
  /\ ubx = "search" /\ b \notin {Sync1, Dollar, Cr, Lf} /\ TakeByte(b)
  /\ line' = IF line # <<>> /\ Len(line) < MaxLine THEN Append(line, b) ELSE <<>>
  /\ UNCHANGED <<ubxVars, got, missed>>

ReceiveNext ==
  \/ SendFrame \/ RxReady \/ RxStopped
  \/ \E b \in NextByte :
       \/ UbxSync(b) \/ UbxBody(b) \/ UbxCheck(b)
       \/ NmeaStart(b) \/ NmeaEnd(b) \/ NmeaByte(b)

ReceiveSpec == ReceiveInit /\ [][ReceiveNext]_receiveVars

-----------------------------------------------------------------------------
(* Properties *)

\* Whatever bytes are lost (gnss_m10q.c:194, 215), what passes a checksum and is
\* handled is an acknowledgement that the receiver sent, or as far as its checksum
\* a sentence that it sent.  What follows the checksum in the line is not looked
\* at; and an exclusive or cannot tell two losses in one line from none, nor notice
\* one whose characters cancel out: the instance's sentences have no such stretch.
HandledWasSent ==
  got \in {<<>>, AckBody} \/ \E b \in Bodies : IsPrefix(Sentence(b), got)

\* A loss costs no more than the sentences it touches and what a message that
\* never was can swallow (gnss_m10q.c:760): a sentence all of which came that
\* much later is handled.
Resynchronises == ~missed
===============================================================================
