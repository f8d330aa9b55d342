---------------------------- MODULE ElementReader ----------------------------
(***************************************************************************)
(* Finding the packets in the bytes that a transport receives              *)
(* (src/src/c/encoding/element-reader.c and tlv-structure-decoder.c).  A   *)
(* packet is a TLV element: type, length and value, where the first octet  *)
(* of type and length can say that 2, 4 or 8 more octets follow.  The      *)
(* bytes arrive in pieces that have nothing to do with the elements.       *)
(***************************************************************************)
EXTENDS Naturals, Sequences

CONSTANTS
  Streams,         \* the sequences of elements that can be received
  MaxPiece,        \* the length of the receive buffer
  MaxPacketSize,   \* MAX_NDN_PACKET_SIZE
  Capacity,        \* how long partialData can get
  ListenerThrows   \* whether onReceivedElement can throw

ASSUME ReaderAssumption ==
  /\ MaxPiece \in Nat \ {0} /\ MaxPacketSize \in Nat /\ Capacity \in Nat
  /\ ListenerThrows \in BOOLEAN
  /\ \A s \in Streams : s \in Seq(Seq(0 .. 255))

VARIABLES
  elements,        \* the elements that are sent
  received,        \* how many of their bytes were received
  data,            \* data, dataLength in onReceivedData: what it has not yet
                   \* read of the piece it was called with
  decoder,         \* tlvStructureDecoder
  usePartialData,
  gotPartialDataError,
  partialData,     \* the first partialDataLength bytes of partialData
  reported,        \* the elements given to onReceivedElement
  isLost           \* whether bytes were dropped that the decoder did not see

readerVars == <<elements, received, data, decoder, usePartialData,
                gotPartialDataError, partialData, reported, isLost>>

(* header has the first headerLength bytes of headerBuffer, and            *)
(* useHeaderBuffer is set when there are any.                              *)
InitDecoder ==
  [gotElementEnd |-> FALSE, offset |-> 0, state |-> "type", header |-> <<>>,
   nBytesToRead |-> 0]

DecoderStates == {"type", "typeBytes", "length", "lengthBytes", "value"}

ReaderTypeOK ==
  /\ elements \in Streams /\ received \in Nat
  /\ data \in Seq(0 .. 255) /\ Len(data) <= MaxPiece
  /\ decoder.state \in DecoderStates /\ decoder.nBytesToRead \in Nat
  /\ decoder.offset \in 0 .. MaxPiece /\ Len(decoder.header) < 8
  /\ usePartialData \in BOOLEAN /\ gotPartialDataError \in BOOLEAN
  /\ partialData \in Seq(0 .. 255) /\ Len(partialData) <= Capacity
  /\ reported \in Seq(Seq(0 .. 255)) /\ isLost \in BOOLEAN

ReaderInit ==
  /\ elements \in Streams
  /\ received = 0 /\ data = <<>> /\ decoder = InitDecoder
  /\ usePartialData = FALSE /\ gotPartialDataError = FALSE
  /\ partialData = <<>> /\ reported = <<>> /\ isLost = FALSE

First(s, n) == SubSeq(s, 1, n)
From(s, n) == SubSeq(s, n + 1, Len(s))

Joined(seqs) ==
  LET upTo[k \in 0 .. Len(seqs)] == IF k = 0 THEN <<>> ELSE upTo[k - 1] \o seqs[k]
  IN  upTo[Len(seqs)]

Stream == Joined(elements)

-----------------------------------------------------------------------------
(* findElementEnd: one pass of its loop is a step from decoder state d     *)
(* over the input.                                                         *)
IsExtended(octet) == octet >= 253
Width(octet) == CASE octet = 253 -> 2 [] octet = 254 -> 4 [] octet = 255 -> 8

(* A number with the most significant byte first.                          *)
VarNumber(bytes) ==
  LET upTo[k \in 0 .. Len(bytes)] == IF k = 0 THEN 0 ELSE 256 * upTo[k - 1] + bytes[k]
  IN  upTo[Len(bytes)]

(* The elements of a stream are whole: a type and a length, which begin    *)
(* with an octet that says how long they are, and as many bytes of value   *)
(* as the length says.                                                     *)
Extension(octet) == IF IsExtended(octet) THEN Width(octet) ELSE 0
TypeEnd(e) == 1 + Extension(e[1])
LengthEnd(e) == TypeEnd(e) + 1 + Extension(e[TypeEnd(e) + 1])
ValueLength(e) ==
  IF IsExtended(e[TypeEnd(e) + 1]) THEN VarNumber(SubSeq(e, TypeEnd(e) + 2, LengthEnd(e)))
  ELSE e[TypeEnd(e) + 1]
IsElement(e) ==
  /\ Len(e) > 0 /\ Len(e) > TypeEnd(e) /\ Len(e) >= LengthEnd(e)
  /\ Len(e) - LengthEnd(e) = ValueLength(e)

ASSUME StreamsAssumption == \A s \in Streams : \A n \in DOMAIN s : IsElement(s[n])

Remaining(d, input) == Len(input) - d.offset
NextOctet(d, input) == input[d.offset + 1]

ReadType(d, input) ==
  LET octet == NextOctet(d, input) IN
  IF IsExtended(octet)
  THEN [d EXCEPT !.offset = @ + 1, !.state = "typeBytes", !.nBytesToRead = Width(octet)]
  ELSE [d EXCEPT !.offset = @ + 1, !.state = "length"]

(* Skip nBytesToRead bytes, or those that there are.  The mutant forgets   *)
(* the bytes that an earlier piece had.                                    *)
SkipAll(d, input, done) ==
  IF Remaining(d, input) < d.nBytesToRead THEN [d EXCEPT !.offset = Len(input)] ELSE done

Skip(d, input, done) ==
  IF Remaining(d, input) < d.nBytesToRead
  THEN [d EXCEPT !.offset = Len(input), !.nBytesToRead = @ - Remaining(d, input)]
  ELSE done

ReadTypeBytes(d, input) ==
  Skip(d, input, [d EXCEPT !.offset = @ + d.nBytesToRead, !.state = "length"])

ReadValueBytes(d, input) ==
  Skip(d, input, [d EXCEPT !.offset = @ + d.nBytesToRead, !.gotElementEnd = TRUE])

(* The value begins, and an element without value ends.  The mutant waits  *)
(* for a value in any case.                                                *)
BeginAnyValue(d, length) == [d EXCEPT !.state = "value", !.nBytesToRead = length]
BeginValue(d, length) ==
  IF length = 0 THEN [d EXCEPT !.nBytesToRead = 0, !.gotElementEnd = TRUE]
  ELSE [d EXCEPT !.state = "value", !.nBytesToRead = length]

ReadLength(d, input) ==
  LET octet == NextOctet(d, input)
      next == [d EXCEPT !.offset = @ + 1]
  IN  IF IsExtended(octet)
      THEN [next EXCEPT !.state = "lengthBytes", !.nBytesToRead = Width(octet)]
      ELSE BeginValue(next, octet)

(* Collect the octets of the length, across pieces.                        *)
ReadLengthBytes(d, input) ==
  LET needed == d.nBytesToRead - Len(d.header)
      have == IF needed > Remaining(d, input) THEN Remaining(d, input) ELSE needed
      bytes == d.header \o SubSeq(input, d.offset + 1, d.offset + have)
      next == [d EXCEPT !.offset = @ + have]
  IN  IF have < needed THEN [next EXCEPT !.header = bytes]
      ELSE BeginValue(next, VarNumber(bytes))

DecoderStep(d, input) ==
  CASE d.gotElementEnd \/ d.offset >= Len(input) -> d
    [] OTHER ->
       CASE d.state = "type" -> ReadType(d, input)
         [] d.state = "typeBytes" -> ReadTypeBytes(d, input)
         [] d.state = "length" -> ReadLength(d, input)
         [] d.state = "lengthBytes" -> ReadLengthBytes(d, input)
         [] OTHER -> ReadValueBytes(d, input)

(* Every pass reads a byte or ends the loop.                               *)
FindElementEnd(d, input) ==
  LET after[k \in 0 .. Len(input)] ==
        IF k = 0 THEN d ELSE DecoderStep(after[k - 1], input)
  IN  after[Len(input)]

-----------------------------------------------------------------------------
(* onReceivedData is called with the next piece.  An action below is one   *)
(* pass of its loop.                                                       *)
OnReceivedData(n) ==
  /\ data = <<>>
  /\ received + n <= Len(Stream)
  /\ received' = received + n
  /\ data' = SubSeq(Stream, received + 1, received + n)
  /\ UNCHANGED <<elements, decoder, usePartialData, gotPartialDataError, partialData,
                 reported, isLost>>

Scanned == FindElementEnd([decoder EXCEPT !.offset = 0], data)

HasPartialError == usePartialData /\ gotPartialDataError
Partial == IF usePartialData THEN partialData ELSE <<>>

(* An error return: the transport throws it and the rest of the piece is   *)
(* lost.                                                                   *)
ReturnError == data' = <<>> /\ UNCHANGED <<elements, received, reported>>

ElementEnds ==
  /\ data # <<>> /\ Scanned.gotElementEnd
  /\ HasPartialError \/ ~usePartialData \/ Len(Partial) + Scanned.offset <= Capacity
  /\ usePartialData' = FALSE
  /\ decoder' = InitDecoder
  /\ partialData' = <<>>
  /\ reported' = IF HasPartialError THEN reported
                 ELSE Append(reported, Partial \o First(data, Scanned.offset))
  /\ \/ data' = From(data, Scanned.offset) /\ UNCHANGED isLost
     \/ /\ ListenerThrows /\ ~HasPartialError
        /\ data' = <<>> /\ isLost' = (isLost \/ Scanned.offset < Len(data))
  /\ UNCHANGED <<elements, received, gotPartialDataError>>

ElementEndDoesNotFit ==
  /\ data # <<>> /\ Scanned.gotElementEnd
  /\ usePartialData /\ ~gotPartialDataError
  /\ Len(Partial) + Scanned.offset > Capacity
  /\ decoder' = Scanned
  /\ ReturnError /\ isLost' = TRUE
  /\ UNCHANGED <<usePartialData, gotPartialDataError, partialData>>

(* The piece ends in the middle of an element.                             *)
IsInMiddle == data # <<>> /\ ~Scanned.gotElementEnd

SavePartial ==
  /\ IsInMiddle /\ ~HasPartialError
  /\ Len(Partial) + Len(data) <= MaxPacketSize
  /\ Len(Partial) + Len(data) <= Capacity
  /\ usePartialData' = TRUE /\ gotPartialDataError' = FALSE
  /\ partialData' = Partial \o data
  /\ decoder' = Scanned
  /\ data' = <<>>
  /\ UNCHANGED <<elements, received, reported, isLost>>

SkipPartial ==
  /\ IsInMiddle /\ HasPartialError
  /\ decoder' = Scanned
  /\ data' = <<>>
  /\ UNCHANGED <<elements, received, usePartialData, gotPartialDataError, partialData,
                 reported, isLost>>

PartialExceedsMaximum ==
  /\ IsInMiddle /\ ~HasPartialError
  /\ Len(Partial) + Len(data) > MaxPacketSize
  /\ usePartialData' = FALSE /\ gotPartialDataError' = FALSE
  /\ partialData' = <<>>
  /\ decoder' = InitDecoder
  /\ ReturnError /\ isLost' = TRUE

(* Remember that partialData is not valid.  The mutant does not.           *)
CopyErrorUnflagged == FALSE
CopyErrorFlag == TRUE

PartialDoesNotFit ==
  /\ IsInMiddle /\ ~HasPartialError
  /\ Len(Partial) + Len(data) <= MaxPacketSize
  /\ Len(Partial) + Len(data) > Capacity
  /\ usePartialData' = TRUE /\ gotPartialDataError' = CopyErrorFlag
  /\ partialData' = Partial
  /\ decoder' = Scanned
  /\ ReturnError /\ UNCHANGED isLost

ReaderNext ==
  \/ \E n \in 1 .. MaxPiece : OnReceivedData(n)
  \/ ElementEnds \/ ElementEndDoesNotFit
  \/ SavePartial \/ SkipPartial \/ PartialExceedsMaximum \/ PartialDoesNotFit

ReaderSpec == ReaderInit /\ [][ReaderNext]_readerVars

-----------------------------------------------------------------------------
(* Every element fits in partialData, and the reader has kept its place.   *)
AllFit == ~isLost /\ \A n \in DOMAIN elements : Len(elements[n]) <= Capacity

(* However the stream is cut into pieces, within a type, a length or a     *)
(* value, the elements are reported whole and in order, and after each     *)
(* piece all those that have arrived.                                      *)
ReportedInOrder ==
  AllFit =>
    /\ Len(reported) <= Len(elements) /\ reported = First(elements, Len(reported))
    /\ data = <<>> =>
         \A n \in DOMAIN elements :
           Len(Joined(First(elements, n))) <= received => Len(reported) >= n

(* An element that does not fit in partialData is skipped, and only such   *)
(* an element, as long as the reader keeps its place in the stream.        *)
SkipsOnlyTooLong ==
  ~isLost =>
    \E f \in [DOMAIN reported -> DOMAIN elements] :
      /\ \A j, k \in DOMAIN reported : j < k => f[j] < f[k]
      /\ \A k \in DOMAIN reported : reported[k] = elements[f[k]]
      /\ \A k \in DOMAIN reported, n \in DOMAIN elements :
           n < f[k] => Len(elements[n]) > Capacity \/ \E j \in DOMAIN reported : f[j] = n

(* Only whole elements are reported, also after an error or an exception,  *)
(* which an application may disregard (face.hpp, line 655).                *)
ReportedIsElement ==
  \A k \in DOMAIN reported : \E n \in DOMAIN elements : reported[k] = elements[n]
=============================================================================
