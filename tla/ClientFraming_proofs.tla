------------------------ MODULE ClientFraming_proofs ------------------------
(***************************************************************************)
(* Theorems about ClientFraming, for any connections, requests, fragments  *)
(* and short writes.                                                       *)
(***************************************************************************)
EXTENDS ClientFraming, DataInduction

-----------------------------------------------------------------------------
(* Bytes. *)

\* The bytes of requests of the given lengths.
Byte == Nat \X Nat
BytesOf(lens) ==
    { b \in Byte : b[1] \in DOMAIN lens /\ b[2] \in 1 .. HeaderSize + lens[b[1]] }

\* A request more.
LEMMA BytesMonotonic ==
    ASSUME NEW lens \in Seq(Sizes), NEW size \in Sizes
    PROVE  BytesOf(lens) \subseteq BytesOf(Append(lens, size))
<1>1. \A i \in DOMAIN lens : i \in DOMAIN Append(lens, size) /\ Append(lens, size)[i] = lens[i]
  OBVIOUS
<1> QED
  BY <1>1 DEF BytesOf

\* Header and body of a request are bytes of it.
LEMMA RequestBytes ==
    ASSUME NEW lens \in Seq(Sizes), NEW i \in DOMAIN lens
    PROVE  /\ Header(i) \in Seq(BytesOf(lens)) /\ Len(Header(i)) = HeaderSize
           /\ Body(i, lens[i]) \in Seq(BytesOf(lens)) /\ Len(Body(i, lens[i])) = lens[i]
<1>1. lens[i] \in Nat /\ i \in Nat
  <2>1. i \in 1 .. Len(lens) /\ Len(lens) \in Nat
    BY LenProperties
  <2>2. lens[i] \in Sizes
    BY <2>1, ElementOfSeq
  <2>3. Sizes \subseteq Nat
    BY FramingAssumption
  <2>4. i \in Nat
    BY <2>1
  <2>5. lens[i] \in Nat
    BY <2>2, <2>3
  <2> QED
    BY <2>4, <2>5
<1>2. \A k \in 1 .. HeaderSize + lens[i] : <<i, k>> \in BytesOf(lens)
  BY <1>1 DEF BytesOf, Byte, HeaderSize
<1>3. Header(i) = [k \in 1 .. HeaderSize |-> <<i, k>>]
  BY <1>1 DEF Header, Bytes, HeaderSize
<1>4. Body(i, lens[i]) = [k \in 1 .. lens[i] |-> <<i, HeaderSize + k>>]
  BY <1>1 DEF Body, Bytes, HeaderSize
<1>5. Header(i) \in Seq(BytesOf(lens)) /\ Len(Header(i)) = HeaderSize
  BY <1>1, <1>2, <1>3 DEF HeaderSize
<1>6. Body(i, lens[i]) \in Seq(BytesOf(lens)) /\ Len(Body(i, lens[i])) = lens[i]
  BY <1>1, <1>2, <1>4 DEF HeaderSize
<1> QED
  BY <1>5, <1>6

\* Parts of a sequence of bytes.
LEMMA PartType ==
    ASSUME NEW S, NEW q \in Seq(S), NEW m \in Nat \ {0}, NEW n \in 0 .. Len(q)
    PROVE  /\ SubSeq(q, m, n) \in Seq(S)
           /\ Len(SubSeq(q, m, n)) = IF m <= n THEN n - m + 1 ELSE 0
           /\ \A k \in 1 .. n - m + 1 : SubSeq(q, m, n)[k] = q[m + k - 1]
<1>1. \A k \in m .. n : q[k] \in S
  BY ElementOfSeq
<1>2. m \in Int /\ n \in Int
  BY LenProperties
<1> QED
  BY <1>1, <1>2, SubSeqProperties

-----------------------------------------------------------------------------
(* Types. *)

FrameInv ==
    /\ sent \in [Conns -> Seq(Sizes)]
    /\ sending \in [Conns -> BOOLEAN]
    /\ open \in [Conns -> BOOLEAN]
    /\ cutAt \in [Conns -> Nat]
    /\ wire \in [Conns -> Seq(Byte)]
    /\ input \in [Conns -> Seq(Byte)]
    /\ current \in Conns \cup {NoConn}
    /\ len \in Nat
    /\ trail \in 0 .. NoDigit
    /\ \A c \in Conns : /\ sending[c] => sent[c] # <<>>
                        /\ cutAt[c] \in 0 .. Len(sent[c])
                        /\ wire[c] \in Seq(BytesOf(sent[c]))
                        /\ input[c] \in Seq(BytesOf(sent[c]))

LEMMA FrameType == FrameInv => TypeOK
<1> SUFFICES ASSUME FrameInv PROVE TypeOK
  OBVIOUS
<1>1. ASSUME NEW c \in Conns, NEW buf \in {wire[c], input[c]}, NEW k \in DOMAIN buf
      PROVE  buf[k][1] \in DOMAIN sent[c] /\ buf[k][2] \in 1 .. HeaderSize + sent[c][buf[k][1]]
  <2>1. buf \in Seq(BytesOf(sent[c]))
    BY DEF FrameInv
  <2>2. buf[k] \in BytesOf(sent[c])
    BY <2>1
  <2> QED
    BY <2>2 DEF BytesOf
<1> QED
  BY <1>1 DEF FrameInv, TypeOK

LEMMA FrameInit == Init => FrameInv
BY FramingAssumption DEF Init, FrameInv, NoDigit

\* What the front of a buffer says is a number.
LEMMA ParsedType ==
    ASSUME FrameInv, NEW c \in Conns, NEW buf \in Seq(BytesOf(sent[c])), Len(buf) >= 1
    PROVE  ParsedSize(c, buf) \in Nat
<1>1. buf[1] \in BytesOf(sent[c])
  BY LenProperties, ElementOfSeq
<1>2. sent[c] \in Seq(Sizes) /\ buf[1][1] \in DOMAIN sent[c]
  BY <1>1 DEF FrameInv, BytesOf
<1>3. sent[c][buf[1][1]] \in Sizes /\ buf[1][2] \in 1 .. HeaderSize + sent[c][buf[1][1]]
  BY <1>1, <1>2 DEF BytesOf
<1>4. sent[c][buf[1][1]] \in Nat /\ TextValue[buf[1][2]] \in Nat
  BY <1>3, FramingAssumption DEF Positions
<1> QED
  BY <1>4 DEF ParsedSize, FrameInv, NoDigit

\* What is written fits, and is of the request.
LEMMA WriteType ==
    ASSUME FrameInv, NEW c \in Conns, NEW lens \in Seq(Sizes),
           BytesOf(sent[c]) \subseteq BytesOf(lens),
           NEW bytes \in Seq(BytesOf(lens)), NEW i \in 1 .. Len(lens),
           Len(sent[c]) <= Len(lens), Write(c, i, bytes), sent' = [sent EXCEPT ![c] = lens]
    PROVE  /\ wire' \in [Conns -> Seq(Byte)] /\ cutAt' \in [Conns -> Nat]
           /\ \A d \in Conns : /\ wire'[d] \in Seq(BytesOf(sent'[d]))
                               /\ cutAt'[d] \in 0 .. Len(sent'[d])
<1>1. Len(wire[c]) \in Nat /\ SendBuffer[c] \in Nat /\ Len(wire[c]) < SendBuffer[c]
  <2>1. wire[c] \in Seq(Byte)
    BY DEF FrameInv
  <2>2. SendBuffer[c] \in Nat
    BY FramingAssumption
  <2> QED
    BY <2>1, <2>2, LenProperties DEF Write
<1>2. Len(bytes) \in Nat
  BY LenProperties
<1>3. Fits(c, bytes) \in Seq(BytesOf(lens))
  <2> DEFINE n == IF SendBuffer[c] - Len(wire[c]) < Len(bytes)
                  THEN SendBuffer[c] - Len(wire[c]) ELSE Len(bytes)
  <2>1. n \in 0 .. Len(bytes)
    BY <1>1, <1>2
  <2>2. SubSeq(bytes, 1, n) \in Seq(BytesOf(lens))
    BY <2>1, PartType
  <2> QED
    BY <2>2 DEF Fits
<1>4. wire[c] \in Seq(BytesOf(lens))
  BY SeqMonotonic DEF FrameInv
<1>5. wire[c] \o Fits(c, bytes) \in Seq(BytesOf(lens))
  BY <1>3, <1>4, ConcatProperties
<1>6. BytesOf(lens) \subseteq Byte
  BY DEF BytesOf
<1>7. wire[c] \o Fits(c, bytes) \in Seq(Byte)
  BY <1>5, <1>6, SeqMonotonic
<1>8. wire' \in [Conns -> Seq(Byte)] /\ \A d \in Conns : wire'[d] \in Seq(BytesOf(sent'[d]))
  BY <1>5, <1>7 DEF FrameInv, Write
<1>9. cutAt' \in [Conns -> Nat] /\ \A d \in Conns : cutAt'[d] \in 0 .. Len(sent'[d])
  <2>1. Len(lens) \in Nat /\ Len(sent[c]) \in Nat
    BY LenProperties DEF FrameInv
  <2>2. \E n \in {cutAt[c], i} : cutAt' = [cutAt EXCEPT ![c] = n]
    BY DEF Write
  <2>3. PICK n \in {cutAt[c], i} : cutAt' = [cutAt EXCEPT ![c] = n]
    BY <2>2
  <2>4. n \in 0 .. Len(lens)
    BY <2>1 DEF FrameInv
  <2>5. cutAt' \in [Conns -> Nat]
    BY <2>1, <2>3, <2>4 DEF FrameInv
  <2>6. ASSUME NEW d \in Conns PROVE cutAt'[d] \in 0 .. Len(sent'[d])
    <3>1. CASE d = c
      BY <2>3, <2>4, <3>1 DEF FrameInv
    <3>2. CASE d # c
      BY <2>3, <3>2 DEF FrameInv
    <3> QED
      BY <3>1, <3>2
  <2> QED
    BY <2>5, <2>6
<1> QED
  BY <1>8, <1>9

\* What the loop finds at the front of the buffer, when it takes a turn.
LEMMA FrontType ==
    ASSUME FrameInv, current # NoConn, len >= HeaderSize, len <= Len(input[current])
    PROVE  /\ current \in Conns /\ input[current] \in Seq(BytesOf(sent[current]))
           /\ Len(input[current]) \in Nat
           /\ ParsedSize(current, input[current]) \in Nat
<1>1. current \in Conns /\ input[current] \in Seq(BytesOf(sent[current]))
  BY DEF FrameInv
<1>2. Len(input[current]) \in Nat
  BY <1>1, LenProperties
<1>3. Len(input[current]) >= 1
  BY <1>2 DEF FrameInv, HeaderSize
<1> QED
  BY <1>1, <1>2, <1>3, ParsedType

\* The steps of the client keep the bytes and count on no more than there are.
LEMMA OneSideType ==
    ASSUME FrameInv, NEW c \in Conns, NEW buf \in Seq(BytesOf(sent[c])),
           input' = [input EXCEPT ![c] = buf]
    PROVE  /\ input' \in [Conns -> Seq(Byte)]
           /\ \A d \in Conns : input'[d] \in Seq(BytesOf(sent[d]))
<1>1. BytesOf(sent[c]) \subseteq Byte
  BY DEF BytesOf
<1>2. buf \in Seq(Byte)
  BY <1>1, SeqMonotonic
<1> QED
  BY <1>2 DEF FrameInv

LEMMA FrameStep ==
    FrameInv /\ LenWithinBuffer /\ [Next]_vars => FrameInv' /\ LenWithinBuffer'
<1> SUFFICES ASSUME FrameInv, LenWithinBuffer, [Next]_vars
             PROVE  FrameInv' /\ LenWithinBuffer'
  OBVIOUS
<1> USE DEF ctl, cli
<1>1. ASSUME NEW c \in Conns, SendSize(c) PROVE FrameInv' /\ LenWithinBuffer'
  <2>1. PICK size \in Sizes : sent' = [sent EXCEPT ![c] = Append(@, size)]
    BY <1>1 DEF SendSize
  <2> DEFINE lens == Append(sent[c], size)
             i == Len(sent[c]) + 1
  <2>2. sent[c] \in Seq(Sizes) /\ Len(sent[c]) \in Nat
    BY LenProperties DEF FrameInv
  <2>3. lens \in Seq(Sizes) /\ Len(lens) = i /\ i \in DOMAIN lens /\ i \in 1 .. Len(lens)
        /\ lens # <<>>
    BY <2>2
  <2>4. BytesOf(sent[c]) \subseteq BytesOf(lens)
    BY <2>2, BytesMonotonic
  <2>5. Header(i) \in Seq(BytesOf(lens))
    BY <2>3, RequestBytes
  <2>6. sent' = [sent EXCEPT ![c] = lens] /\ Write(c, i, Header(i))
    BY <1>1, <2>1 DEF SendSize
  <2> HIDE DEF lens, i
  <2>7. Len(sent[c]) <= Len(lens)
    BY <2>2, <2>3 DEF i
  <2>8. /\ wire' \in [Conns -> Seq(Byte)] /\ cutAt' \in [Conns -> Nat]
        /\ \A d \in Conns : /\ wire'[d] \in Seq(BytesOf(sent'[d]))
                            /\ cutAt'[d] \in 0 .. Len(sent'[d])
    BY <2>3, <2>4, <2>5, <2>6, <2>7, WriteType
  <2>9. UNCHANGED <<open, input, current, len, trail>> /\ sending' = [sending EXCEPT ![c] = TRUE]
    BY <1>1 DEF SendSize
  <2>10. sent' \in [Conns -> Seq(Sizes)] /\ sending' \in [Conns -> BOOLEAN]
         /\ \A d \in Conns : sending'[d] => sent'[d] # <<>>
    BY <2>3, <2>6, <2>9 DEF FrameInv
  <2>11. \A d \in Conns : input'[d] \in Seq(BytesOf(sent'[d]))
    <3>1. input[c] \in Seq(BytesOf(lens))
      BY <2>4, SeqMonotonic DEF FrameInv
    <3> QED
      BY <2>6, <2>9, <3>1 DEF FrameInv
  <2>12. FrameInv'
    BY <2>8, <2>9, <2>10, <2>11 DEF FrameInv
  <2> QED
    BY <2>9, <2>12 DEF LenWithinBuffer
<1>2. ASSUME NEW c \in Conns, SendMessage(c) PROVE FrameInv' /\ LenWithinBuffer'
  <2> DEFINE lens == sent[c]
             i == Len(lens)
             bytes == Body(i, Last(lens))
  <2>1. UNCHANGED <<sent, open, input, current, len, trail>>
        /\ sending' = [sending EXCEPT ![c] = FALSE] /\ Write(c, i, bytes)
    BY <1>2 DEF SendMessage
  <2>2. lens \in Seq(Sizes) /\ lens # <<>>
    BY <1>2 DEF SendMessage, FrameInv
  <2>3. i \in 1 .. Len(lens) /\ i \in DOMAIN lens /\ Last(lens) = lens[i]
    BY <2>2 DEF Last
  <2>4. bytes \in Seq(BytesOf(lens))
    BY <2>2, <2>3, RequestBytes
  <2>5. sent' = [sent EXCEPT ![c] = lens]
    BY <2>1 DEF FrameInv
  <2> HIDE DEF bytes, i
  <2>6. Len(sent[c]) <= Len(lens) /\ BytesOf(sent[c]) \subseteq BytesOf(lens)
    BY <2>2, LenProperties
  <2>7. /\ wire' \in [Conns -> Seq(Byte)] /\ cutAt' \in [Conns -> Nat]
        /\ \A d \in Conns : /\ wire'[d] \in Seq(BytesOf(sent'[d]))
                            /\ cutAt'[d] \in 0 .. Len(sent'[d])
    BY <2>1, <2>2, <2>3, <2>4, <2>5, <2>6, WriteType
  <2>8. FrameInv'
    BY <2>1, <2>7 DEF FrameInv
  <2> QED
    BY <2>1, <2>8 DEF LenWithinBuffer
<1>3. ASSUME NEW c \in Conns, Stop(c) PROVE FrameInv' /\ LenWithinBuffer'
  <2>1. PICK n \in 0 .. Len(wire[c]) : wire' = [wire EXCEPT ![c] = SubSeq(@, 1, n)]
    BY <1>3 DEF Stop
  <2>2. /\ UNCHANGED <<sent, sending, cutAt, input, current, len, trail>>
        /\ open' \in [Conns -> BOOLEAN]
    BY <1>3 DEF Stop, FrameInv
  <2>3. wire[c] \in Seq(Byte) /\ wire[c] \in Seq(BytesOf(sent[c]))
    BY DEF FrameInv
  <2>4. SubSeq(wire[c], 1, n) \in Seq(Byte) /\ SubSeq(wire[c], 1, n) \in Seq(BytesOf(sent[c]))
    BY <2>3, PartType
  <2>5. FrameInv'
    BY <2>1, <2>2, <2>4 DEF FrameInv
  <2> QED
    BY <2>2, <2>5 DEF LenWithinBuffer
<1>4. ASSUME NEW c \in Conns, OnRecvValue(c) PROVE FrameInv' /\ LenWithinBuffer'
  <2>1. PICK n \in 1 .. Len(wire[c]) :
          /\ input' = [input EXCEPT ![c] = @ \o SubSeq(wire[c], 1, n)]
          /\ wire' = [wire EXCEPT ![c] = SubSeq(@, n + 1, Len(@))]
          /\ len' = BufferLength(input[c], n)
    BY <1>4 DEF OnRecvValue
  <2>2. /\ current' = c /\ trail' \in TrailingBytes
        /\ UNCHANGED <<sent, sending, open, cutAt>>
    BY <1>4 DEF OnRecvValue
  <2> DEFINE S == BytesOf(sent[c])
             part == SubSeq(wire[c], 1, n)
             rest == SubSeq(wire[c], n + 1, Len(wire[c]))
  <2>3. wire[c] \in Seq(S) /\ input[c] \in Seq(S) /\ wire[c] \in Seq(Byte)
    BY DEF FrameInv
  <2>4. Len(wire[c]) \in Nat /\ Len(input[c]) \in Nat /\ n \in Nat /\ n + 1 \in Nat \ {0}
    BY <2>3, LenProperties
  <2>5. part \in Seq(S) /\ Len(part) = n
    BY <2>3, <2>4, PartType
  <2>6. rest \in Seq(S) /\ rest \in Seq(Byte)
    BY <2>3, <2>4, PartType
  <2> HIDE DEF S, part, rest
  <2>7. input[c] \o part \in Seq(S) /\ Len(input[c] \o part) = Len(input[c]) + n
    BY <2>3, <2>5, ConcatProperties
  <2>8. input' = [input EXCEPT ![c] = input[c] \o part]
    BY <2>1 DEF part
  <2>9. /\ input' \in [Conns -> Seq(Byte)]
        /\ \A d \in Conns : input'[d] \in Seq(BytesOf(sent[d]))
    BY <2>7, <2>8, OneSideType DEF S
  <2>10. /\ wire' \in [Conns -> Seq(Byte)]
         /\ \A d \in Conns : wire'[d] \in Seq(BytesOf(sent[d]))
    BY <2>1, <2>6 DEF FrameInv, S, rest
  <2>11. len' \in Nat /\ len' = Len(input'[c])
    BY <2>1, <2>4, <2>7, <2>8 DEF BufferLength, FrameInv
  <2>12. trail' \in 0 .. NoDigit
    BY <2>2, FramingAssumption
  <2>13. FrameInv'
    BY <2>2, <2>9, <2>10, <2>11, <2>12 DEF FrameInv
  <2> QED
    BY <2>2, <2>11, <2>13 DEF LenWithinBuffer
<1>5. ASSUME ExtractData PROVE FrameInv' /\ LenWithinBuffer'
  <2> DEFINE c == current
             buf == input[c]
             size == ParsedSize(c, buf)
             used == HeaderSize + size
  <2>1. /\ c \in Conns /\ buf \in Seq(BytesOf(sent[c])) /\ Len(buf) \in Nat /\ size \in Nat
        /\ len \in Nat /\ len >= HeaderSize /\ len <= Len(buf)
    BY <1>5, FrontType DEF ExtractData, LenWithinBuffer, FrameInv
  <2>2. UNCHANGED <<sent, sending, open, cutAt, wire, current, trail>>
    BY <1>5 DEF ExtractData
  <2>3. CASE WholeIn(len - HeaderSize, size)
    <3>1. /\ input' = [input EXCEPT ![c] = SubSeq(buf, used + 1, Len(buf))]
          /\ len' = Remaining(len - HeaderSize, size)
      BY <1>5, <2>3 DEF ExtractData
    <3> HIDE DEF size, buf, c
    <3>2. used \in Nat /\ used <= len /\ len' = len - used
      BY <2>1, <2>3, <3>1 DEF WholeIn, Remaining, HeaderSize
    <3> DEFINE rest == SubSeq(buf, used + 1, Len(buf))
    <3>3. rest \in Seq(BytesOf(sent[c])) /\ Len(rest) = Len(buf) - used
      <4>1. used + 1 \in Nat \ {0} /\ Len(buf) \in 0 .. Len(buf)
        BY <2>1, <3>2
      <4>2. /\ rest \in Seq(BytesOf(sent[c]))
            /\ Len(rest) = IF used + 1 <= Len(buf) THEN Len(buf) - (used + 1) + 1 ELSE 0
        BY <2>1, <4>1, PartType
      <4> QED
        BY <2>1, <3>2, <4>2
    <3> HIDE DEF rest, used
    <3>4. input' = [input EXCEPT ![c] = rest]
      BY <3>1 DEF rest
    <3>5. /\ input' \in [Conns -> Seq(Byte)]
          /\ \A d \in Conns : input'[d] \in Seq(BytesOf(sent[d]))
      BY <2>1, <3>3, <3>4, OneSideType
    <3>6. len' \in Nat /\ len' <= Len(rest)
      BY <2>1, <3>2, <3>3
    <3>7. input'[c] = rest
      BY <2>1, <3>4 DEF FrameInv
    <3>8. FrameInv'
      BY <2>2, <3>5, <3>6 DEF FrameInv
    <3> QED
      BY <2>2, <3>6, <3>7, <3>8 DEF LenWithinBuffer, c
  <2>4. CASE ~ WholeIn(len - HeaderSize, size)
    <3>1. input' = input /\ len' = len - HeaderSize
      BY <1>5, <2>1, <2>4 DEF ExtractData, Undrained, FrameInv
    <3>2. len' \in Nat /\ len' <= Len(buf)
      BY <2>1, <3>1 DEF HeaderSize
    <3>3. FrameInv'
      BY <2>2, <3>1, <3>2 DEF FrameInv
    <3> QED
      BY <2>2, <3>1, <3>2, <3>3 DEF LenWithinBuffer
  <2> QED
    BY <2>3, <2>4
<1>6. ASSUME ExtractDataReturn PROVE FrameInv' /\ LenWithinBuffer'
  BY <1>6 DEF ExtractDataReturn, FrameInv, LenWithinBuffer
<1>7. ASSUME NEW c \in Conns, OnAcceptEof(c) PROVE FrameInv' /\ LenWithinBuffer'
  <2>1. /\ input' = [input EXCEPT ![c] = <<>>] /\ current = NoConn
        /\ UNCHANGED <<sent, sending, open, cutAt, wire, current, len, trail>>
    BY <1>7 DEF OnAcceptEof
  <2>2. /\ input' \in [Conns -> Seq(Byte)]
        /\ \A d \in Conns : input'[d] \in Seq(BytesOf(sent[d]))
    BY <2>1, EmptySeq, OneSideType
  <2>3. FrameInv'
    BY <2>1, <2>2 DEF FrameInv
  <2> QED
    BY <2>1, <2>3 DEF LenWithinBuffer
<1>8. CASE UNCHANGED vars
  BY <1>8 DEF vars, FrameInv, LenWithinBuffer
<1> QED
  BY <1>1, <1>2, <1>3, <1>4, <1>5, <1>6, <1>7, <1>8 DEF Next, ClientNext

LEMMA LenInit == Init => LenWithinBuffer
BY DEF Init, LenWithinBuffer

\* The buffers hold bytes of requests that were sent, and the loop counts on
\* no byte that its buffer does not have.
THEOREM FramingTypes == Spec => []TypeOK
<1> QED
  BY FrameInit, LenInit, FrameStep, FrameType, PTL DEF Spec

THEOREM NoLeftovers == Spec => []LenWithinBuffer
<1> QED
  BY FrameInit, LenInit, FrameStep, PTL DEF Spec

-----------------------------------------------------------------------------
(***************************************************************************)
(* NothingHeldBack, when no digit follows dados.  It says nothing during a *)
(* callback: there, the loop has all of the buffer to go through, or is    *)
(* stuck at a request that is longer than the buffer.  It may then read    *)
(* the same length again, from fewer bytes, and stays stuck.               *)
(***************************************************************************)
Whole(lens, buf) == \E i \in DOMAIN lens : IsPrefix(Header(i) \o Body(i, lens[i]), buf)

FrontSize(lens, buf) ==
    IF SubSeq(buf, 1, HeaderSize) # Header(buf[1][1]) THEN TextValue[buf[1][2]]
    ELSE lens[buf[1][1]]

Stuck(lens, buf) == Len(buf) >= HeaderSize /\ Len(buf) - HeaderSize < FrontSize(lens, buf)

HeldInv ==
    /\ trail = NoDigit
    /\ \A c \in Conns : c # current => ~ Whole(sent[c], input[c])
    /\ current # NoConn => \/ len = Len(input[current])
                           \/ Stuck(sent[current], input[current])

\* A whole request at the front of the buffer is what the loop reads there.
LEMMA WholeAtFront ==
    ASSUME NEW lens \in Seq(Sizes), NEW buf \in Seq(BytesOf(lens)), Whole(lens, buf)
    PROVE  Len(buf) >= HeaderSize /\ ~ Stuck(lens, buf)
<1>1. PICK i \in DOMAIN lens : IsPrefix(Header(i) \o Body(i, lens[i]), buf)
  BY DEF Whole
<1> DEFINE r == Header(i) \o Body(i, lens[i])
           size == lens[i]
<1>2. size \in Nat /\ Len(buf) \in Nat /\ i \in Nat
  <2>1. size \in Sizes /\ i \in 1 .. Len(lens)
    BY LenProperties, ElementOfSeq
  <2>2. Sizes \subseteq Nat
    BY FramingAssumption
  <2>3. size \in Nat
    BY <2>1, <2>2
  <2>4. Len(buf) \in Nat /\ Len(lens) \in Nat
    BY LenProperties
  <2> QED
    BY <2>1, <2>3, <2>4
<1>3. /\ Header(i) \in Seq(BytesOf(lens)) /\ Len(Header(i)) = HeaderSize
      /\ Body(i, size) \in Seq(BytesOf(lens)) /\ Len(Body(i, size)) = size
  BY RequestBytes
<1>4. /\ r \in Seq(BytesOf(lens)) /\ Len(r) = HeaderSize + size
      /\ \A k \in 1 .. HeaderSize + size : k <= HeaderSize => r[k] = Header(i)[k]
  <2>1. /\ r \in Seq(BytesOf(lens)) /\ Len(r) = Len(Header(i)) + Len(Body(i, size))
        /\ \A k \in 1 .. Len(Header(i)) + Len(Body(i, size)) :
              r[k] = IF k <= Len(Header(i)) THEN Header(i)[k]
                     ELSE Body(i, size)[k - Len(Header(i))]
    BY <1>3, ConcatProperties, Zenon
  <2> HIDE DEF r, size
  <2> QED
    BY <1>3, <2>1
<1> HIDE DEF r
<1>5. HeaderSize + size <= Len(buf) /\ SubSeq(r, 1, Len(r)) = SubSeq(buf, 1, Len(r))
  BY <1>1, <1>4 DEF IsPrefix, r
<1>6. \A k \in 1 .. HeaderSize : buf[k] = Header(i)[k]
  <2>1. Len(r) \in 0 .. Len(r) /\ Len(r) \in 0 .. Len(buf) /\ 1 \in Nat \ {0}
    BY <1>2, <1>4, <1>5 DEF HeaderSize
  <2>2. \A k \in 1 .. Len(r) - 1 + 1 : SubSeq(r, 1, Len(r))[k] = r[1 + k - 1]
    BY <1>4, <2>1, PartType
  <2>3. \A k \in 1 .. Len(r) - 1 + 1 : SubSeq(buf, 1, Len(r))[k] = buf[1 + k - 1]
    BY <2>1, PartType
  <2>4. ASSUME NEW k \in 1 .. HeaderSize PROVE buf[k] = Header(i)[k]
    <3>1. k \in 1 .. Len(r) - 1 + 1 /\ 1 + k - 1 = k /\ k \in 1 .. HeaderSize + size
      BY <1>2, <1>4 DEF HeaderSize
    <3>2. SubSeq(r, 1, Len(r))[k] = r[k]
      BY <2>2, <3>1
    <3>3. SubSeq(buf, 1, Len(r))[k] = buf[k]
      BY <2>3, <3>1
    <3> QED
      BY <1>4, <1>5, <3>1, <3>2, <3>3
  <2> QED
    BY <2>4
<1>7. Header(i) = [k \in 1 .. HeaderSize |-> <<i, k>>]
  BY <1>2 DEF Header, Bytes, HeaderSize
<1>8. buf[1] = <<i, 1>>
  BY <1>6, <1>7 DEF HeaderSize
<1>9. SubSeq(buf, 1, HeaderSize) = Header(i)
  <2>1. SubSeq(buf, 1, HeaderSize) = [k \in 1 .. HeaderSize |-> buf[k]]
    BY <1>2, <1>5 DEF HeaderSize
  <2> QED
    BY <1>6, <1>7, <2>1
<1>10. FrontSize(lens, buf) = size
  BY <1>8, <1>9 DEF FrontSize
<1> QED
  BY <1>2, <1>5, <1>10 DEF Stuck, HeaderSize

\* A request that the controller begins changes nothing at the front of the
\* buffer, which has no byte of it.
LEMMA FrontKept ==
    ASSUME NEW lens \in Seq(Sizes), NEW size \in Sizes, NEW buf \in Seq(BytesOf(lens))
    PROVE  /\ Whole(Append(lens, size), buf) => Whole(lens, buf)
           /\ Stuck(lens, buf) => Stuck(Append(lens, size), buf)
<1> DEFINE more == Append(lens, size)
<1>1. /\ more \in Seq(Sizes) /\ \A i \in DOMAIN lens : i \in DOMAIN more /\ more[i] = lens[i]
  OBVIOUS
<1>2. Len(buf) \in Nat /\ (Len(buf) >= 1 => buf[1] \in BytesOf(lens))
  BY LenProperties, ElementOfSeq
<1>3. Len(buf) >= 1 => buf[1][1] \in DOMAIN lens
  BY <1>2 DEF BytesOf
<1>4. Stuck(lens, buf) => Stuck(more, buf)
  BY <1>1, <1>2, <1>3 DEF Stuck, FrontSize, HeaderSize
<1>5. ASSUME Whole(more, buf) PROVE Whole(lens, buf)
  <2>1. PICK i \in DOMAIN more : IsPrefix(Header(i) \o Body(i, more[i]), buf)
    BY <1>5 DEF Whole
  <2>2. /\ Header(i) \in Seq(BytesOf(more)) /\ Len(Header(i)) = HeaderSize
        /\ Body(i, more[i]) \in Seq(BytesOf(more)) /\ Len(Body(i, more[i])) \in Nat
    BY <1>1, RequestBytes, LenProperties
  <2> DEFINE r == Header(i) \o Body(i, more[i])
  <2>3. /\ r \in Seq(BytesOf(more)) /\ Len(r) >= 1 /\ r[1] = Header(i)[1] /\ Len(r) \in Nat
    <3>1. /\ r \in Seq(BytesOf(more)) /\ Len(r) = Len(Header(i)) + Len(Body(i, more[i]))
          /\ \A k \in 1 .. Len(Header(i)) + Len(Body(i, more[i])) :
                r[k] = IF k <= Len(Header(i)) THEN Header(i)[k]
                       ELSE Body(i, more[i])[k - Len(Header(i))]
      BY <2>2, ConcatProperties, Zenon
    <3> HIDE DEF r
    <3>2. Len(r) \in Nat /\ Len(r) >= 1
          /\ 1 \in 1 .. Len(Header(i)) + Len(Body(i, more[i])) /\ 1 <= Len(Header(i))
      BY <2>2, <3>1 DEF HeaderSize
    <3> QED
      BY <3>1, <3>2
  <2>4. Header(i)[1] = <<i, 1>>
    BY DEF Header, Bytes, HeaderSize
  <2> HIDE DEF r
  <2>5. Len(r) <= Len(buf) /\ SubSeq(r, 1, Len(r)) = SubSeq(buf, 1, Len(r))
    BY <2>1 DEF IsPrefix, r
  <2>6. SubSeq(r, 1, Len(r))[1] = r[1] /\ SubSeq(buf, 1, Len(r))[1] = buf[1]
    <3>1. Len(r) \in 0 .. Len(r) /\ Len(r) \in 0 .. Len(buf) /\ 1 \in Nat \ {0}
      BY <1>2, <2>3, <2>5
    <3>2. 1 \in 1 .. Len(r) - 1 + 1 /\ 1 + 1 - 1 = 1
      BY <2>3
    <3>3. SubSeq(r, 1, Len(r))[1] = r[1 + 1 - 1]
      BY <2>3, <3>1, <3>2, PartType
    <3>4. SubSeq(buf, 1, Len(r))[1] = buf[1 + 1 - 1]
      BY <3>1, <3>2, PartType
    <3> QED
      BY <3>2, <3>3, <3>4
  <2>7. buf[1][1] = i /\ Len(buf) >= 1
    BY <1>2, <2>3, <2>4, <2>5, <2>6
  <2>8. i \in DOMAIN lens
    BY <1>3, <2>7
  <2> QED
    BY <1>1, <2>1, <2>8 DEF Whole
<1> QED
  BY <1>4, <1>5

LEMMA HeldInit == Init => HeldInv
<1> SUFFICES ASSUME Init PROVE HeldInv
  OBVIOUS
<1>1. ASSUME NEW c \in Conns PROVE ~ Whole(sent[c], input[c])
  BY DEF Init, Whole
<1> QED
  BY <1>1 DEF Init, HeldInv

LEMMA HeldStep ==
    ASSUME TrailingBytes = {NoDigit}, FrameInv, LenWithinBuffer, HeldInv, [Next]_vars
    PROVE  HeldInv'
<1> USE DEF ctl, cli
<1>1. ASSUME NEW c \in Conns, SendSize(c) PROVE HeldInv'
  <2>1. PICK size \in Sizes : sent' = [sent EXCEPT ![c] = Append(@, size)]
    BY <1>1 DEF SendSize
  <2>2. UNCHANGED <<input, current, len, trail>>
    BY <1>1 DEF SendSize
  <2>3. sent[c] \in Seq(Sizes) /\ input[c] \in Seq(BytesOf(sent[c]))
    BY DEF FrameInv
  <2>4. /\ sent'[c] = Append(sent[c], size)
        /\ \A d \in Conns : d # c => sent'[d] = sent[d]
    BY <2>1 DEF FrameInv
  <2>5. /\ Whole(sent'[c], input[c]) => Whole(sent[c], input[c])
        /\ Stuck(sent[c], input[c]) => Stuck(sent'[c], input[c])
    BY <2>3, <2>4, FrontKept
  <2>6. current \in Conns \cup {NoConn}
    BY DEF FrameInv
  <2> QED
    <3>1. current' # NoConn => \/ len' = Len(input'[current'])
                               \/ Stuck(sent'[current'], input'[current'])
      <4>1. CASE current = NoConn
        BY <2>2, <4>1
      <4>2. CASE current \in Conns
        <5>1. NoConn # current
          BY <4>2, FramingAssumption
        <5>2. Stuck(sent[current], input[current]) => Stuck(sent'[current], input[current])
          BY <2>4, <2>5, <4>2
        <5>3. len = Len(input[current]) \/ Stuck(sent[current], input[current])
          BY <5>1 DEF HeldInv
        <5> QED
          BY <2>2, <5>2, <5>3
      <4> QED
        BY <2>6, <4>1, <4>2
    <3>2. ASSUME NEW d \in Conns, d # current' PROVE ~ Whole(sent'[d], input'[d])
      <4>1. ~ Whole(sent[d], input[d])
        BY <2>2, <3>2 DEF HeldInv
      <4>2. Whole(sent'[d], input[d]) => Whole(sent[d], input[d])
        BY <2>4, <2>5
      <4>3. ~ Whole(sent'[d], input[d])
        BY <4>1, <4>2
      <4> QED
        BY <2>2, <4>3
    <3>3. trail' = NoDigit
      BY <2>2 DEF HeldInv
    <3> QED
      BY <3>1, <3>2, <3>3 DEF HeldInv
<1>2. ASSUME NEW c \in Conns, SendMessage(c) \/ Stop(c) PROVE HeldInv'
  <2>1. UNCHANGED <<sent, input, current, len, trail>>
    BY <1>2 DEF SendMessage, Stop
  <2> QED
    BY <2>1 DEF HeldInv
<1>3. ASSUME NEW c \in Conns, OnRecvValue(c) PROVE HeldInv'
  <2>1. PICK n \in 1 .. Len(wire[c]) :
          /\ input' = [input EXCEPT ![c] = @ \o SubSeq(wire[c], 1, n)]
          /\ len' = BufferLength(input[c], n)
    BY <1>3 DEF OnRecvValue
  <2>2. current = NoConn /\ current' = c /\ trail' = NoDigit /\ sent' = sent
    BY <1>3 DEF OnRecvValue
  <2>3. wire[c] \in Seq(Byte) /\ input[c] \in Seq(Byte)
    BY DEF FrameInv
  <2>4. Len(wire[c]) \in Nat /\ n \in 0 .. Len(wire[c])
    BY <2>3, LenProperties
  <2>5. SubSeq(wire[c], 1, n) \in Seq(Byte) /\ Len(SubSeq(wire[c], 1, n)) = n
    BY <2>3, <2>4, PartType
  <2>6. Len(input[c] \o SubSeq(wire[c], 1, n)) = Len(input[c]) + n
    BY <2>3, <2>5, ConcatProperties
  <2>7. len' = Len(input'[c])
    BY <2>1, <2>6 DEF BufferLength, FrameInv
  <2>8. \A d \in Conns : d # c => input'[d] = input[d] /\ ~ Whole(sent[d], input[d])
    BY <2>1, <2>2, FramingAssumption DEF FrameInv, HeldInv
  <2> QED
    BY <2>2, <2>7, <2>8 DEF HeldInv
<1>4. ASSUME ExtractData PROVE HeldInv'
  <2> DEFINE c == current
             buf == input[c]
             size == ParsedSize(c, buf)
             used == HeaderSize + size
  <2>1. /\ c \in Conns /\ buf \in Seq(BytesOf(sent[c])) /\ Len(buf) \in Nat /\ size \in Nat
        /\ len \in Nat /\ len >= HeaderSize /\ len <= Len(buf)
    BY <1>4, FrontType DEF ExtractData, LenWithinBuffer, FrameInv
  <2>2. UNCHANGED <<sent, current, trail>>
    BY <1>4 DEF ExtractData
  <2>3. size = FrontSize(sent[c], buf)
    BY DEF HeldInv, ParsedSize, FrontSize
  <2>4. len = Len(buf) \/ Stuck(sent[c], buf)
    BY <1>4 DEF ExtractData, HeldInv
  <2>5. CASE WholeIn(len - HeaderSize, size)
    <3>1. /\ input' = [input EXCEPT ![c] = SubSeq(buf, used + 1, Len(buf))]
          /\ len' = Remaining(len - HeaderSize, size)
      BY <1>4, <2>5 DEF ExtractData
    <3>2. input'[c] = SubSeq(buf, used + 1, Len(buf))
          /\ \A d \in Conns : d # c => input'[d] = input[d]
      BY <2>1, <3>1 DEF FrameInv
    <3> HIDE DEF size, buf, c
    <3>3. len = Len(buf) /\ used \in Nat /\ used <= Len(buf) /\ len' = Len(buf) - used
      BY <2>1, <2>3, <2>4, <2>5, <3>1 DEF WholeIn, Remaining, HeaderSize, Stuck
    <3>4. used + 1 \in Nat \ {0} /\ Len(buf) \in 0 .. Len(buf)
      BY <2>1, <3>3
    <3>5. Len(SubSeq(buf, used + 1, Len(buf))) =
             IF used + 1 <= Len(buf) THEN Len(buf) - (used + 1) + 1 ELSE 0
      BY <2>1, <3>4, PartType
    <3> HIDE DEF used
    <3>6. len' = Len(input'[c])
      BY <2>1, <3>2, <3>3, <3>5
    <3> QED
      BY <2>2, <3>2, <3>6 DEF HeldInv, c
  <2>6. CASE ~ WholeIn(len - HeaderSize, size)
    <3>1. input' = input
      BY <1>4, <2>1, <2>6 DEF ExtractData, Undrained, FrameInv
    <3> HIDE DEF size, buf, c
    <3>2. Stuck(sent[c], buf)
      BY <2>1, <2>3, <2>4, <2>6 DEF WholeIn, HeaderSize, Stuck
    <3> QED
      BY <2>2, <3>1, <3>2 DEF HeldInv, c, buf
  <2> QED
    BY <2>5, <2>6
<1>5. ASSUME ExtractDataReturn PROVE HeldInv'
  <2> DEFINE c == current
             buf == input[c]
  <2>1. /\ UNCHANGED <<sent, input, trail>> /\ current' = NoConn
        /\ len < HeaderSize /\ c # NoConn
    BY <1>5 DEF ExtractDataReturn
  <2>2. c \in Conns /\ buf \in Seq(BytesOf(sent[c])) /\ sent[c] \in Seq(Sizes)
    BY <2>1 DEF FrameInv
  <2>3. len = Len(buf) \/ Stuck(sent[c], buf)
    BY <2>1 DEF HeldInv
  <2>4. len \in Nat /\ Len(buf) \in Nat
    BY <2>2, LenProperties DEF FrameInv
  <2> HIDE DEF buf
  <2>5. ~ Whole(sent[c], buf)
    BY <2>1, <2>2, <2>3, <2>4, WholeAtFront DEF HeaderSize
  <2>6. \A d \in Conns : ~ Whole(sent[d], input[d])
    BY <2>5 DEF HeldInv, buf
  <2> QED
    BY <2>1, <2>6 DEF HeldInv
<1>6. ASSUME NEW c \in Conns, OnAcceptEof(c) PROVE HeldInv'
  <2>1. /\ input' = [input EXCEPT ![c] = <<>>] /\ current = NoConn
        /\ UNCHANGED <<sent, current, len, trail>>
    BY <1>6 DEF OnAcceptEof
  <2>2. sent[c] \in Seq(Sizes)
    BY DEF FrameInv
  <2>3. ASSUME NEW buf \in Seq(BytesOf(sent[c])), Len(buf) = 0
        PROVE  ~ Whole(sent[c], buf)
    <3>1. SUFFICES ASSUME Whole(sent[c], buf) PROVE FALSE
      OBVIOUS
    <3>2. Len(buf) >= HeaderSize
      BY <2>2, <3>1, WholeAtFront
    <3> QED
      BY <2>3, <3>2 DEF HeaderSize
  <2>4. ~ Whole(sent[c], <<>>)
    <3>1. <<>> \in Seq(BytesOf(sent[c])) /\ Len(<<>>) = 0
      BY EmptySeq
    <3> QED
      BY <2>3, <3>1, Zenon
  <2>5. \A d \in Conns : ~ Whole(sent[d], input'[d])
    BY <2>1, <2>4, FramingAssumption DEF HeldInv, FrameInv
  <2> QED
    BY <2>1, <2>5 DEF HeldInv
<1>7. CASE UNCHANGED vars
  BY <1>7 DEF vars, HeldInv
<1> QED
  BY <1>1, <1>2, <1>3, <1>4, <1>5, <1>6, <1>7 DEF Next, ClientNext

\* Between two callbacks no connection has a complete request at the front of
\* its buffer, however the stream is cut and whatever a short write cut off, as
\* long as the byte after dados is no digit: FramingTrailingDigit shows why.
THEOREM HeldBackOnlyByADigit ==
    ASSUME TrailingBytes = {NoDigit}
    PROVE  Spec => []NothingHeldBack
<1>1. HeldInv => NothingHeldBack
  BY FramingAssumption DEF HeldInv, NothingHeldBack, Whole
<1>2. Init => FrameInv /\ LenWithinBuffer /\ HeldInv
  BY FrameInit, LenInit, HeldInit
<1>3. FrameInv /\ LenWithinBuffer /\ HeldInv /\ [Next]_vars
         => (FrameInv /\ LenWithinBuffer /\ HeldInv)'
  BY FrameStep, HeldStep
<1> QED
  BY <1>1, <1>2, <1>3, PTL DEF Spec

-----------------------------------------------------------------------------
(***************************************************************************)
(* Where requests begin and end in the stream of a connection: Ends(lens)  *)
(* is the function that RecursiveEnds describes, with the number of bytes  *)
(* of the first k requests at k.                                           *)
(***************************************************************************)
RecursiveEnds(lens, f) ==
    /\ f \in [0 .. Len(lens) -> Nat]
    /\ f[0] = 0
    /\ \A k \in 1 .. Len(lens) : f[k] = f[k - 1] + HeaderSize + lens[k]

Ends(lens) == CHOOSE f : RecursiveEnds(lens, f)

\* Every request has bytes.
LEMMA SizesPositive ==
    ASSUME NEW lens \in Seq(Sizes)
    PROVE  /\ Len(lens) \in Nat /\ DOMAIN lens = 1 .. Len(lens)
           /\ \A i \in 1 .. Len(lens) : lens[i] \in Sizes /\ lens[i] \in Nat \ {0}
<1>1. Len(lens) \in Nat /\ DOMAIN lens = 1 .. Len(lens)
  BY LenProperties
<1>2. \A i \in 1 .. Len(lens) : lens[i] \in Sizes
  BY ElementOfSeq
<1> QED
  BY <1>1, <1>2, FramingAssumption

\* There is a function that says where the requests end,
LEMMA EndsExist ==
    ASSUME NEW lens \in Seq(Sizes)
    PROVE  RecursiveEnds(lens, Ends(lens))
<1> DEFINE n == Len(lens)
           IsEnds(f, m) == /\ f \in [0 .. m -> Nat] /\ f[0] = 0
                           /\ \A k \in 1 .. m : f[k] = f[k - 1] + HeaderSize + lens[k]
           S == { m \in 0 .. n : \E f : IsEnds(f, m) }
<1>1. n \in Nat /\ \A i \in 1 .. n : lens[i] \in Nat
  BY SizesPositive
<1> HIDE DEF n
<1>2. 0 \in S
  <2> DEFINE f == [k \in 0 .. 0 |-> 0]
  <2>1. IsEnds(f, 0)
    <3>1. \A k \in 1 .. 0 : FALSE
      OBVIOUS
    <3> QED
      BY <3>1
  <2> HIDE DEF f, IsEnds
  <2> QED
    BY <1>1, <2>1
<1>3. ASSUME NEW m \in 0 .. n - 1, m \in S PROVE m + 1 \in S
  <2>1. PICK f : IsEnds(f, m)
    BY <1>3
  <2> DEFINE g == [k \in 0 .. m + 1 |-> IF k = m + 1 THEN f[m] + HeaderSize + lens[k] ELSE f[k]]
  <2>2. m \in Nat /\ m + 1 \in 1 .. n
    BY <1>1
  <2>3. f[m] + HeaderSize + lens[m + 1] \in Nat
    BY <1>1, <2>1, <2>2 DEF HeaderSize
  <2>4. g \in [0 .. m + 1 -> Nat]
    BY <2>1, <2>2, <2>3
  <2>5. \A k \in 0 .. m : g[k] = f[k]
    BY <2>2
  <2>6. ASSUME NEW k \in 1 .. m + 1 PROVE g[k] = g[k - 1] + HeaderSize + lens[k]
    <3>1. CASE k = m + 1
      <4>1. k - 1 \in 0 .. m /\ k - 1 = m
        BY <2>2, <3>1
      <4>2. g[k - 1] = f[m]
        BY <2>5, <4>1
      <4> QED
        BY <3>1, <4>2
    <3>2. CASE k # m + 1
      <4>1. k \in 1 .. m /\ k \in 0 .. m /\ k - 1 \in 0 .. m
        BY <2>2, <3>2
      <4>2. g[k] = f[k] /\ g[k - 1] = f[k - 1]
        BY <2>5, <4>1
      <4> HIDE DEF g
      <4> QED
        BY <2>1, <4>1, <4>2
    <3> QED
      BY <3>1, <3>2
  <2>7. g[0] = 0
    BY <2>1, <2>2, <2>5
  <2> HIDE DEF g
  <2>8. IsEnds(g, m + 1)
    BY <2>4, <2>6, <2>7
  <2> HIDE DEF IsEnds
  <2> QED
    BY <1>1, <2>2, <2>8
<1>4. n \in S
  <2> HIDE DEF S
  <2>1. 0 .. n \subseteq S
    BY <1>1, <1>2, <1>3, SetInduction
  <2> QED
    BY <1>1, <2>1
<1>5. \E f : RecursiveEnds(lens, f)
  BY <1>4 DEF RecursiveEnds, n
<1> QED
  BY <1>5 DEF Ends

\* which grows with every request,
LEMMA EndsSteps ==
    ASSUME NEW lens \in Seq(Sizes)
    PROVE  /\ \A k \in 0 .. Len(lens) : Ends(lens)[k] \in Nat
           /\ Ends(lens)[0] = 0
           /\ \A k \in 1 .. Len(lens) : Ends(lens)[k] = Ends(lens)[k - 1] + HeaderSize + lens[k]
BY EndsExist DEF RecursiveEnds

\* A request ends after those before it.
LEMMA EndsGrow ==
    ASSUME NEW lens \in Seq(Sizes), NEW i \in 0 .. Len(lens), NEW j \in 0 .. Len(lens), i <= j
    PROVE  Ends(lens)[i] <= Ends(lens)[j]
<1> DEFINE f == Ends(lens)
           n == Len(lens) - i
           S == { m \in 0 .. n : f[i] <= f[i + m] }
<1>1. Len(lens) \in Nat /\ \A k \in 1 .. Len(lens) : lens[k] \in Nat
  BY SizesPositive
<1>2. /\ \A k \in 0 .. Len(lens) : f[k] \in Nat
      /\ \A k \in 1 .. Len(lens) : f[k] = f[k - 1] + HeaderSize + lens[k]
  BY EndsSteps
<1>3. n \in Nat /\ i \in Nat /\ j - i \in 0 .. n /\ i + (j - i) = j
  BY <1>1
<1> HIDE DEF f
<1>4. 0 \in S
  BY <1>1, <1>2, <1>3
<1>5. ASSUME NEW m \in 0 .. n - 1, m \in S PROVE m + 1 \in S
  <2>1. i + (m + 1) \in 1 .. Len(lens) /\ (i + (m + 1)) - 1 = i + m /\ i + m \in 0 .. Len(lens)
        /\ m + 1 \in 0 .. n
    BY <1>1, <1>3
  <2>2. f[i + (m + 1)] = f[i + m] + HeaderSize + lens[i + (m + 1)]
    BY <1>2, <2>1
  <2>3. f[i] <= f[i + m] /\ f[i] \in Nat /\ f[i + m] \in Nat /\ lens[i + (m + 1)] \in Nat
    BY <1>1, <1>2, <1>5, <2>1
  <2>4. f[i] <= f[i + (m + 1)]
    BY <2>2, <2>3 DEF HeaderSize
  <2> QED
    BY <2>1, <2>4
<1>6. 0 .. n \subseteq S
  <2> HIDE DEF S, n
  <2> QED
    BY <1>3, <1>4, <1>5, SetInduction
<1>7. f[i] <= f[i + (j - i)]
  BY <1>3, <1>6
<1> QED
  BY <1>3, <1>7 DEF f

\* A request more leaves the ends of the others where they are.
LEMMA EndsKept ==
    ASSUME NEW lens \in Seq(Sizes), NEW size \in Sizes
    PROVE  \A k \in 0 .. Len(lens) : Ends(Append(lens, size))[k] = Ends(lens)[k]
<1> DEFINE more == Append(lens, size)
           n == Len(lens)
           S == { k \in 0 .. n : Ends(more)[k] = Ends(lens)[k] }
<1>1. /\ more \in Seq(Sizes) /\ Len(more) = n + 1 /\ n \in Nat
      /\ \A k \in 1 .. n : more[k] = lens[k]
  BY LenProperties
<1> HIDE DEF more, n
<1>2. /\ Ends(more)[0] = 0
      /\ \A k \in 1 .. n + 1 : Ends(more)[k] = Ends(more)[k - 1] + HeaderSize + more[k]
  BY <1>1, EndsSteps
<1>3. /\ Ends(lens)[0] = 0
      /\ \A k \in 1 .. n : Ends(lens)[k] = Ends(lens)[k - 1] + HeaderSize + lens[k]
  BY EndsSteps DEF n
<1>4. ASSUME NEW k \in 0 .. n - 1, k \in S PROVE k + 1 \in S
  <2>1. k + 1 \in 1 .. n /\ k + 1 \in 1 .. n + 1 /\ (k + 1) - 1 = k /\ k + 1 \in 0 .. n
    BY <1>1
  <2>2. Ends(more)[k] = Ends(lens)[k] /\ more[k + 1] = lens[k + 1]
    BY <1>1, <1>4, <2>1
  <2>3. Ends(more)[k + 1] = Ends(lens)[k + 1]
    BY <1>2, <1>3, <2>1, <2>2
  <2> QED
    BY <2>1, <2>3
<1>5. 0 \in S
  BY <1>1, <1>2, <1>3
<1>6. 0 .. n \subseteq S
  <2> HIDE DEF S
  <2> QED
    BY <1>1, <1>4, <1>5, SetInduction
<1> QED
  BY <1>6 DEF more, n

\* The place of a byte in the stream, which no other byte has.
Place(lens, b) == Ends(lens)[b[1] - 1] + b[2]

\* so that a byte has its place in its own request,
LEMMA PlaceOfByte ==
    ASSUME NEW lens \in Seq(Sizes), NEW b \in BytesOf(lens)
    PROVE  /\ b[1] \in 1 .. Len(lens) /\ b[2] \in Nat /\ b[2] >= 1
           /\ b = <<b[1], b[2]>> /\ b[2] <= HeaderSize + lens[b[1]]
           /\ Ends(lens)[b[1] - 1] \in Nat /\ Ends(lens)[b[1]] \in Nat
           /\ Ends(lens)[b[1] - 1] < Place(lens, b)
           /\ Place(lens, b) <= Ends(lens)[b[1]]
<1>1. Len(lens) \in Nat /\ DOMAIN lens = 1 .. Len(lens) /\ \A i \in 1 .. Len(lens) : lens[i] \in Nat
  BY SizesPositive
<1>2. b[1] \in 1 .. Len(lens) /\ b[2] \in 1 .. HeaderSize + lens[b[1]] /\ b = <<b[1], b[2]>>
  BY <1>1 DEF BytesOf, Byte
<1>3. b[1] - 1 \in 0 .. Len(lens) /\ b[1] \in 0 .. Len(lens)
  BY <1>1, <1>2
<1>4. /\ Ends(lens)[b[1] - 1] \in Nat /\ Ends(lens)[b[1]] \in Nat
      /\ Ends(lens)[b[1]] = Ends(lens)[b[1] - 1] + HeaderSize + lens[b[1]]
  BY <1>2, <1>3, EndsSteps
<1>5. b[2] \in Nat /\ b[2] >= 1 /\ b[2] <= HeaderSize + lens[b[1]] /\ lens[b[1]] \in Nat
  BY <1>1, <1>2 DEF HeaderSize
<1> QED
  BY <1>2, <1>4, <1>5 DEF Place, HeaderSize

\* and no two bytes have the same.
LEMMA OnePlace ==
    ASSUME NEW lens \in Seq(Sizes), NEW b \in BytesOf(lens), NEW i \in 1 .. Len(lens),
           NEW k \in 1 .. HeaderSize + lens[i], Place(lens, b) = Ends(lens)[i - 1] + k
    PROVE  b = <<i, k>>
<1> DEFINE f == Ends(lens)
           j == b[1]
<1>1. Len(lens) \in Nat /\ lens[i] \in Nat
  BY SizesPositive
<1>2. /\ j \in 1 .. Len(lens) /\ b[2] \in Nat /\ b = <<j, b[2]>>
      /\ f[j - 1] < Place(lens, b) /\ Place(lens, b) <= f[j]
      /\ f[j - 1] \in Nat /\ f[j] \in Nat
  BY PlaceOfByte
<1>3. /\ f[i - 1] \in Nat /\ f[i] \in Nat /\ f[i] = f[i - 1] + HeaderSize + lens[i]
  <2>1. i - 1 \in 0 .. Len(lens) /\ i \in 0 .. Len(lens)
    BY <1>1
  <2> QED
    BY <2>1, EndsSteps
<1>4. i < j => f[i] <= f[j - 1]
  <2>1. i < j => i \in 0 .. Len(lens) /\ j - 1 \in 0 .. Len(lens) /\ i <= j - 1
    BY <1>1, <1>2
  <2> HIDE DEF j
  <2> QED
    BY <2>1, EndsGrow
<1>5. j < i => f[j] <= f[i - 1]
  <2>1. j < i => j \in 0 .. Len(lens) /\ i - 1 \in 0 .. Len(lens) /\ j <= i - 1
    BY <1>1, <1>2
  <2> HIDE DEF j
  <2> QED
    BY <2>1, EndsGrow
<1>6. Place(lens, b) = f[j - 1] + b[2] /\ Place(lens, b) = f[i - 1] + k
  BY DEF Place
<1> HIDE DEF f, j
<1>7. k \in Nat /\ k >= 1 /\ k <= HeaderSize + lens[i]
  BY <1>1 DEF HeaderSize
<1>8. ~ (i < j)
  <2> SUFFICES ASSUME f[i] <= f[j - 1] PROVE FALSE
    BY <1>4
  <2>1. Place(lens, b) <= f[i]
    BY <1>1, <1>3, <1>6, <1>7 DEF HeaderSize
  <2>2. Place(lens, b) \in Nat
    BY <1>3, <1>6, <1>7
  <2> QED
    BY <1>2, <1>3, <2>1, <2>2
<1>9. ~ (j < i)
  <2> SUFFICES ASSUME f[j] <= f[i - 1] PROVE FALSE
    BY <1>5
  <2>1. f[i - 1] < Place(lens, b) /\ Place(lens, b) \in Nat
    BY <1>3, <1>6, <1>7
  <2> QED
    BY <1>2, <1>3, <2>1
<1>10. i = j
  BY <1>1, <1>2, <1>8, <1>9
<1>11. b[2] = k
  BY <1>2, <1>3, <1>6, <1>7, <1>10
<1> QED
  BY <1>2, <1>10, <1>11

-----------------------------------------------------------------------------
(***************************************************************************)
(* ElementsAt: the function it is defined by, and what it does with one    *)
(* element more.                                                           *)
(***************************************************************************)
AtUpTo(s, positions) ==
    CHOOSE f : f = [n \in 0 .. Len(s) |->
                      IF n = 0 THEN <<>>
                      ELSE IF n \in positions THEN Append(f[n - 1], s[n]) ELSE f[n - 1]]

LEMMA AtUpToExists ==
    ASSUME NEW s, NEW positions, Len(s) \in Nat
    PROVE  LET f == AtUpTo(s, positions)
           IN  /\ f[0] = <<>>
               /\ \A n \in 1 .. Len(s) :
                     f[n] = IF n \in positions THEN Append(f[n - 1], s[n]) ELSE f[n - 1]
<1> DEFINE Step(f, n) == IF n = 0 THEN <<>>
                         ELSE IF n \in positions THEN Append(f[n - 1], s[n]) ELSE f[n - 1]
           IsAt(f, k) == f = [n \in 0 .. k |-> Step(f, n)]
           S == { k \in 0 .. Len(s) : \E f : IsAt(f, k) }
<1>1. 0 \in S
  <2> DEFINE f == [n \in 0 .. 0 |-> <<>>]
  <2>1. IsAt(f, 0)
    OBVIOUS
  <2> HIDE DEF f, IsAt
  <2> QED
    BY <2>1
<1>2. ASSUME NEW k \in 0 .. Len(s) - 1, k \in S PROVE k + 1 \in S
  <2>1. PICK f : IsAt(f, k)
    BY <1>2
  <2> DEFINE g == [n \in 0 .. k + 1 |-> IF n = k + 1 THEN Step(f, n) ELSE f[n]]
  <2>2. \A n \in 0 .. k : f[n] = Step(f, n)
    BY <2>1
  <2>3. \A n \in 0 .. k : g[n] = f[n]
    OBVIOUS
  <2>4. ASSUME NEW n \in 0 .. k + 1 PROVE g[n] = Step(g, n)
    <3>1. n = 0 \/ (n - 1 \in 0 .. k /\ n - 1 \in 0 .. k + 1)
      OBVIOUS
    <3>2. n # 0 => g[n - 1] = f[n - 1]
      BY <2>3, <3>1
    <3>3. Step(g, n) = Step(f, n)
      <4> HIDE DEF g
      <4> QED
        BY <3>2
    <3>4. CASE n = k + 1
      <4>1. g[n] = Step(f, n)
        BY <3>4
      <4> QED
        BY <3>3, <4>1
    <3>5. CASE n # k + 1
      <4>1. n \in 0 .. k
        BY <3>5
      <4> HIDE DEF g, Step
      <4> QED
        BY <2>2, <2>3, <3>3, <4>1
    <3> QED
      BY <3>4, <3>5
  <2>5. g = [n \in 0 .. k + 1 |-> g[n]]
    OBVIOUS
  <2> HIDE DEF g, Step
  <2>6. IsAt(g, k + 1)
    BY <2>4, <2>5
  <2> HIDE DEF IsAt
  <2>7. k + 1 \in 0 .. Len(s)
    OBVIOUS
  <2> QED
    BY <2>6, <2>7
<1>3. Len(s) \in S
  <2> HIDE DEF S
  <2>1. 0 .. Len(s) \subseteq S
    BY <1>1, <1>2, SetInduction
  <2> QED
    BY <2>1
<1>4. \E f : f = [n \in 0 .. Len(s) |-> Step(f, n)]
  BY <1>3
<1> DEFINE h == AtUpTo(s, positions)
<1>5. h = [n \in 0 .. Len(s) |-> Step(h, n)]
  BY <1>4 DEF AtUpTo
<1> HIDE DEF h
<1>6. h[0] = <<>>
  BY <1>5
<1>7. \A n \in 1 .. Len(s) :
         h[n] = IF n \in positions THEN Append(h[n - 1], s[n]) ELSE h[n - 1]
  <2> TAKE n \in 1 .. Len(s)
  <2>1. n \in 0 .. Len(s) /\ n # 0
    OBVIOUS
  <2> QED
    BY <1>5, <2>1
<1> QED
  BY <1>6, <1>7 DEF h

LEMMA ElementsAtIsAt ==
    ASSUME NEW s, NEW positions
    PROVE  ElementsAt(s, positions) = AtUpTo(s, positions)[Len(s)]
BY DEF ElementsAt, AtUpTo

LEMMA ElementsAtType ==
    ASSUME NEW S, NEW s \in Seq(S), NEW positions
    PROVE  ElementsAt(s, positions) \in Seq(S)
<1> DEFINE f == AtUpTo(s, positions)
           T == { n \in 0 .. Len(s) : f[n] \in Seq(S) }
<1>1. Len(s) \in Nat /\ \A n \in 1 .. Len(s) : s[n] \in S
  BY LenProperties, ElementOfSeq
<1>2. /\ f[0] = <<>>
      /\ \A n \in 1 .. Len(s) :
            f[n] = IF n \in positions THEN Append(f[n - 1], s[n]) ELSE f[n - 1]
  BY <1>1, AtUpToExists
<1> HIDE DEF f
<1>3. 0 \in T
  <2>1. <<>> \in Seq(S) /\ 0 \in 0 .. Len(s)
    BY <1>1
  <2> QED
    BY <1>2, <2>1
<1>4. ASSUME NEW n \in 0 .. Len(s) - 1, n \in T PROVE n + 1 \in T
  <2>1. n + 1 \in 1 .. Len(s) /\ n + 1 \in 0 .. Len(s) /\ (n + 1) - 1 = n
    BY <1>1
  <2>2. f[n] \in Seq(S) /\ s[n + 1] \in S
    BY <1>1, <1>4, <2>1
  <2>3. f[n + 1] = IF n + 1 \in positions THEN Append(f[n], s[n + 1]) ELSE f[n]
    BY <1>2, <2>1
  <2>4. f[n + 1] \in Seq(S)
    BY <2>2, <2>3
  <2> QED
    BY <2>1, <2>4
<1>5. Len(s) \in T
  <2> HIDE DEF T
  <2>1. 0 .. Len(s) \subseteq T
    BY <1>1, <1>3, <1>4, SetInduction
  <2> QED
    BY <1>1, <2>1
<1> QED
  BY <1>5, ElementsAtIsAt DEF f

LEMMA OneElementMore ==
    ASSUME NEW S, NEW s \in Seq(S), NEW e \in S, NEW positions, positions \subseteq 1 .. Len(s)
    PROVE  /\ ElementsAt(Append(s, e), positions) = ElementsAt(s, positions)
           /\ ElementsAt(Append(s, e), positions \cup {Len(s) + 1}) =
                 Append(ElementsAt(s, positions), e)
<1> DEFINE more == Append(s, e)
           n == Len(s)
<1>1. /\ n \in Nat /\ Len(more) = n + 1 /\ more[n + 1] = e
      /\ \A k \in 1 .. n : more[k] = s[k]
  BY LenProperties
<1> HIDE DEF more, n
<1>2. ASSUME NEW P, P \cap (1 .. n) = positions
      PROVE  AtUpTo(more, P)[n] = AtUpTo(s, positions)[n]
  <2> DEFINE f == AtUpTo(s, positions)
             g == AtUpTo(more, P)
             T == { k \in 0 .. n : g[k] = f[k] }
  <2>1. /\ f[0] = <<>>
        /\ \A k \in 1 .. n : f[k] = IF k \in positions THEN Append(f[k - 1], s[k]) ELSE f[k - 1]
    BY <1>1, AtUpToExists DEF n
  <2>2. /\ g[0] = <<>>
        /\ \A k \in 1 .. n + 1 : g[k] = IF k \in P THEN Append(g[k - 1], more[k]) ELSE g[k - 1]
    <3>1. Len(more) \in Nat
      BY <1>1
    <3> QED
      BY <1>1, <3>1, AtUpToExists
  <2> HIDE DEF f, g
  <2>3. 0 \in T
    BY <1>1, <2>1, <2>2
  <2>4. ASSUME NEW k \in 0 .. n - 1, k \in T PROVE k + 1 \in T
    <3>1. k + 1 \in 1 .. n /\ k + 1 \in 1 .. n + 1 /\ k + 1 \in 0 .. n /\ (k + 1) - 1 = k
      BY <1>1
    <3>2. k + 1 \in P <=> k + 1 \in positions
      BY <1>2, <3>1
    <3>3. more[k + 1] = s[k + 1] /\ g[k] = f[k]
      BY <1>1, <2>4, <3>1
    <3>4. g[k + 1] = f[k + 1]
      BY <2>1, <2>2, <3>1, <3>2, <3>3
    <3> QED
      BY <3>1, <3>4
  <2>5. n \in T
    <3> HIDE DEF T
    <3>1. 0 .. n \subseteq T
      BY <1>1, <2>3, <2>4, SetInduction
    <3> QED
      BY <1>1, <3>1
  <2> QED
    BY <2>5 DEF f, g
<1>3. ASSUME NEW P
      PROVE  AtUpTo(more, P)[n + 1] =
                IF n + 1 \in P THEN Append(AtUpTo(more, P)[n], e) ELSE AtUpTo(more, P)[n]
  <2>1. Len(more) \in Nat /\ n + 1 \in 1 .. Len(more) /\ (n + 1) - 1 = n
    BY <1>1
  <2> DEFINE g == AtUpTo(more, P)
  <2>2. \A k \in 1 .. Len(more) : g[k] = IF k \in P THEN Append(g[k - 1], more[k]) ELSE g[k - 1]
    BY <2>1, AtUpToExists
  <2> HIDE DEF g
  <2>3. g[n + 1] = IF n + 1 \in P THEN Append(g[n], e) ELSE g[n]
    BY <1>1, <2>1, <2>2
  <2> QED
    BY <2>3 DEF g
<1>4. positions \cap (1 .. n) = positions /\ n + 1 \notin positions
  <2>1. positions \subseteq 1 .. n
    BY DEF n
  <2>2. n + 1 \notin 1 .. n
    BY <1>1
  <2> QED
    BY <2>1, <2>2
<1>5. (positions \cup {n + 1}) \cap (1 .. n) = positions
  <2>1. n + 1 \notin 1 .. n
    BY <1>1
  <2> QED
    BY <1>4, <2>1
<1>6. ElementsAt(more, positions) = ElementsAt(s, positions)
  BY <1>1, <1>2, <1>3, <1>4, ElementsAtIsAt DEF n
<1>7. ElementsAt(more, positions \cup {n + 1}) = Append(ElementsAt(s, positions), e)
  BY <1>1, <1>2, <1>3, <1>5, ElementsAtIsAt DEF n
<1> QED
  BY <1>6, <1>7 DEF more, n

-----------------------------------------------------------------------------
(***************************************************************************)
(* The stream of a connection, from the byte that the client takes next to *)
(* the last one written.  With base the end of the last request taken, the *)
(* k-th byte has place base + k, as long as that is before the request     *)
(* that was cut; from there on there are only bytes of that request and of *)
(* later ones.                                                             *)
(***************************************************************************)
InPlace(lens, cut, base, s) ==
    \A k \in 1 .. Len(s) :
        IF cut = 0 \/ base + k <= Ends(lens)[cut - 1]
        THEN Place(lens, s[k]) = base + k
        ELSE s[k][1] >= cut

\* f, of request i and from its byte m + 1 on, is written after s.
WrittenAt(lens, more, s, i, m, f, cut, new, base) ==
    /\ lens \in Seq(Sizes) /\ more \in Seq(Sizes) /\ Len(lens) <= Len(more)
    /\ \A k \in 0 .. Len(lens) : Ends(more)[k] = Ends(lens)[k]
    /\ s \in Seq(BytesOf(lens)) /\ i \in 1 .. Len(more) /\ m \in Nat
    /\ f \in Seq(Byte) /\ \A k \in 1 .. Len(f) : f[k] = <<i, m + k>>
    /\ cut \in 0 .. Len(lens) /\ new \in {cut, i} /\ (cut # 0 => new = cut /\ cut <= i)
    /\ base \in Nat /\ InPlace(lens, cut, base, s)
    /\ cut = 0 => base + Len(s) = Ends(more)[i - 1] + m
    /\ cut # 0 => base + Len(s) >= Ends(lens)[cut - 1]

\* What is written, whole or not, comes in its place.
LEMMA WriteInPlace ==
    ASSUME NEW lens, NEW more, NEW s, NEW i, NEW m, NEW f, NEW cut, NEW new, NEW base,
           WrittenAt(lens, more, s, i, m, f, cut, new, base)
    PROVE  InPlace(more, new, base, s \o f)
<1> SUFFICES
      ASSUME lens \in Seq(Sizes), more \in Seq(Sizes), Len(lens) <= Len(more),
             \A k \in 0 .. Len(lens) : Ends(more)[k] = Ends(lens)[k],
             s \in Seq(BytesOf(lens)), i \in 1 .. Len(more), m \in Nat,
             f \in Seq(Byte), \A k \in 1 .. Len(f) : f[k] = <<i, m + k>>,
             cut \in 0 .. Len(lens), new \in {cut, i}, cut # 0 => new = cut /\ cut <= i,
             base \in Nat, InPlace(lens, cut, base, s),
             cut = 0 => base + Len(s) = Ends(more)[i - 1] + m,
             cut # 0 => base + Len(s) >= Ends(lens)[cut - 1]
      PROVE  InPlace(more, new, base, s \o f)
  BY DEF WrittenAt
<1> DEFINE t == s \o f
           e == Ends(more)[i - 1]
<1>1. /\ Len(s) \in Nat /\ Len(f) \in Nat /\ Len(lens) \in Nat /\ Len(more) \in Nat
      /\ i \in Nat /\ cut \in Nat /\ e \in Nat
  <2>1. /\ Len(s) \in Nat /\ Len(f) \in Nat /\ Len(lens) \in Nat /\ Len(more) \in Nat
        /\ i - 1 \in 0 .. Len(more)
    BY LenProperties
  <2>2. e \in Nat
    BY <2>1, EndsSteps
  <2> QED
    BY <2>1, <2>2
<1>2. /\ Len(t) = Len(s) + Len(f)
      /\ \A k \in 1 .. Len(s) + Len(f) : t[k] = IF k <= Len(s) THEN s[k] ELSE f[k - Len(s)]
  <2>1. s \in Seq(BytesOf(lens) \cup Byte) /\ f \in Seq(BytesOf(lens) \cup Byte)
    BY SeqMonotonic
  <2> QED
    BY <2>1, ConcatProperties
<1> HIDE DEF t, e
<1>3. ASSUME NEW k \in 1 .. Len(s)
      PROVE  IF new = 0 \/ base + k <= Ends(more)[new - 1]
             THEN Place(more, s[k]) = base + k ELSE s[k][1] >= new
  <2> DEFINE b == s[k]
             p == Place(lens, b)
  <2>1. b \in BytesOf(lens)
    BY ElementOfSeq
  <2>2. /\ b[1] \in 1 .. Len(lens) /\ p <= Ends(lens)[b[1]] /\ Ends(lens)[b[1]] \in Nat
        /\ p = Ends(lens)[b[1] - 1] + b[2]
    BY <2>1, PlaceOfByte DEF Place
  <2> HIDE DEF b
  <2>3. b[1] - 1 \in 0 .. Len(lens) /\ b[1] \in 0 .. Len(lens)
    <3>1. Len(lens) \in Nat /\ b[1] \in Nat /\ 1 <= b[1] /\ b[1] <= Len(lens)
      BY <1>1, <2>2
    <3> QED
      BY <3>1
  <2>4. Place(more, b) = p
    BY <2>2, <2>3 DEF Place
  <2>5. IF cut = 0 \/ base + k <= Ends(lens)[cut - 1] THEN p = base + k ELSE b[1] >= cut
    BY DEF InPlace, b
  <2> HIDE DEF p
  <2>6. CASE cut # 0
    <3>1. cut - 1 \in 0 .. Len(lens) /\ new = cut
      BY <1>1, <2>6
    <3>2. Ends(more)[new - 1] = Ends(lens)[cut - 1]
      BY <3>1
    <3> QED
      BY <2>4, <2>5, <2>6, <3>1, <3>2 DEF b
  <2>7. CASE cut = 0 /\ new = 0
    BY <2>4, <2>5, <2>7 DEF b
  <2>8. CASE cut = 0 /\ new # 0
    <3>1. new = i /\ p = base + k
      BY <2>5, <2>8
    <3>2. b[1] < i => p <= e
      <4>1. b[1] < i => /\ b[1] \in 0 .. Len(more) /\ i - 1 \in 0 .. Len(more) /\ b[1] <= i - 1
        BY <1>1, <2>2
      <4>2. b[1] < i => Ends(more)[b[1]] <= e
        BY <4>1, EndsGrow DEF e
      <4>3. b[1] < i => Ends(lens)[b[1]] <= e
        BY <2>3, <4>2
      <4>4. p \in Nat
        BY <1>1, <3>1
      <4> QED
        BY <1>1, <2>2, <4>3, <4>4
    <3>3. b[1] \in Nat
      BY <2>2
    <3> QED
      BY <1>1, <2>4, <3>1, <3>2, <3>3 DEF b, e
  <2> QED
    BY <2>6, <2>7, <2>8
<1>4. ASSUME NEW l \in 1 .. Len(f)
      PROVE  IF new = 0 \/ base + (Len(s) + l) <= Ends(more)[new - 1]
             THEN Place(more, f[l]) = base + (Len(s) + l) ELSE f[l][1] >= new
  <2>1. f[l] = <<i, m + l>> /\ Place(more, f[l]) = e + (m + l)
    BY DEF Place, e
  <2>2. CASE cut # 0
    <3>1. new = cut /\ cut - 1 \in 0 .. Len(lens) /\ cut <= i
      BY <1>1, <2>2
    <3>2. Ends(more)[new - 1] = Ends(lens)[cut - 1] /\ Ends(lens)[cut - 1] \in Nat
      BY <3>1, EndsSteps
    <3>3. ~ (base + (Len(s) + l) <= Ends(more)[new - 1])
      BY <1>1, <2>2, <3>2
    <3> QED
      BY <2>1, <2>2, <3>1, <3>3
  <2>3. CASE cut = 0
    <3>1. base + Len(s) = e + m
      BY <2>3 DEF e
    <3>2. base + (Len(s) + l) = e + (m + l) /\ ~ (base + (Len(s) + l) <= e)
      <4>1. \A a, b, c, d \in Nat : \A x \in Nat \ {0} :
               a + b = c + d => a + (b + x) = c + (d + x) /\ ~ (a + (b + x) <= c)
        OBVIOUS
      <4>2. l \in Nat \ {0}
        BY <1>1
      <4> QED
        BY <1>1, <3>1, <4>1, <4>2
    <3>3. new = 0 \/ new = i
      BY <2>3
    <3> QED
      BY <1>1, <2>1, <3>2, <3>3 DEF e
  <2> QED
    BY <2>2, <2>3
<1>5. ASSUME NEW k \in 1 .. Len(t)
      PROVE  IF new = 0 \/ base + k <= Ends(more)[new - 1]
             THEN Place(more, t[k]) = base + k ELSE t[k][1] >= new
  <2>1. CASE k <= Len(s)
    <3>1. k \in 1 .. Len(s) /\ t[k] = s[k]
      BY <1>1, <1>2, <2>1
    <3> QED
      BY <1>3, <3>1
  <2>2. CASE ~ (k <= Len(s))
    <3>1. PICK l \in 1 .. Len(f) : k = Len(s) + l
      <4>1. k - Len(s) \in 1 .. Len(f) /\ k = Len(s) + (k - Len(s))
        BY <1>1, <1>2, <2>2
      <4> QED
        BY <4>1
    <3>2. t[k] = f[l]
      <4>1. k \in 1 .. Len(s) + Len(f) /\ k - Len(s) = l
        BY <1>1, <1>2, <3>1
      <4> QED
        BY <1>2, <2>2, <4>1
    <3> QED
      BY <1>4, <3>1, <3>2
  <2> QED
    BY <2>1, <2>2
<1> QED
  BY <1>5 DEF InPlace, t

\* The stream may be cut short at its end.
LEMMA ShorterInPlace ==
    ASSUME NEW lens, NEW cut, NEW base, NEW s, NEW t, Len(s) \in Nat, Len(t) \in Nat,
           InPlace(lens, cut, base, s), Len(t) <= Len(s), \A k \in 1 .. Len(t) : t[k] = s[k]
    PROVE  InPlace(lens, cut, base, t)
<1>1. \A k \in 1 .. Len(t) : k \in 1 .. Len(s)
  OBVIOUS
<1> QED
  BY <1>1 DEF InPlace

\* What is left when a request is taken from its front, or when any number
\* of bytes is, all of them from the cut on.
LEMMA RestInPlace ==
    ASSUME NEW lens \in Seq(Sizes), NEW cut \in 0 .. Len(lens), NEW base \in Nat, NEW next \in Nat,
           NEW s \in Seq(Byte), NEW t \in Seq(Byte), NEW used \in Nat,
           Len(s) = used + Len(t), \A k \in 1 .. Len(t) : t[k] = s[used + k],
           InPlace(lens, cut, base, s),
           next = base + used \/ (cut # 0 /\ base >= Ends(lens)[cut - 1] /\ next = base)
    PROVE  InPlace(lens, cut, next, t)
<1>1. Len(s) \in Nat /\ Len(t) \in Nat /\ Len(lens) \in Nat
  BY LenProperties
<1>2. ASSUME NEW k \in 1 .. Len(t)
      PROVE  IF cut = 0 \/ next + k <= Ends(lens)[cut - 1]
             THEN Place(lens, t[k]) = next + k ELSE t[k][1] >= cut
  <2>1. used + k \in 1 .. Len(s) /\ t[k] = s[used + k]
    BY <1>1
  <2>2. IF cut = 0 \/ base + (used + k) <= Ends(lens)[cut - 1]
        THEN Place(lens, t[k]) = base + (used + k) ELSE t[k][1] >= cut
    BY <2>1 DEF InPlace
  <2>3. CASE next = base + used
    <3>1. next + k = base + (used + k)
      BY <2>3
    <3> QED
      BY <2>2, <3>1
  <2>4. CASE cut # 0 /\ base >= Ends(lens)[cut - 1] /\ next = base
    <3>1. cut - 1 \in 0 .. Len(lens)
      BY <1>1, <2>4
    <3>2. Ends(lens)[cut - 1] \in Nat
      BY <3>1, EndsSteps
    <3>3. ~ (base + (used + k) <= Ends(lens)[cut - 1]) /\ ~ (next + k <= Ends(lens)[cut - 1])
      BY <2>4, <3>2
    <3> QED
      BY <2>2, <2>4, <3>3
  <2> QED
    BY <2>3, <2>4
<1> QED
  BY <1>2 DEF InPlace

\* What is at the front: the next request, or what follows a cut.
LEMMA FrontInPlace ==
    ASSUME NEW lens \in Seq(Sizes), NEW cut \in 0 .. Len(lens), NEW n \in 0 .. Len(lens),
           NEW s \in Seq(BytesOf(lens)), Len(s) >= 1, InPlace(lens, cut, Ends(lens)[n], s),
           cut # 0 => n < cut
    PROVE  \/ /\ n + 1 \in 1 .. Len(lens) /\ (cut # 0 => n + 1 < cut)
              /\ Ends(lens)[n + 1] = Ends(lens)[n] + HeaderSize + lens[n + 1]
              /\ \A k \in 1 .. Len(s) : k <= HeaderSize + lens[n + 1] => s[k] = <<n + 1, k>>
           \/ /\ cut # 0 /\ Ends(lens)[n] >= Ends(lens)[cut - 1]
              /\ \A k \in 1 .. Len(s) : s[k][1] >= cut
<1> DEFINE base == Ends(lens)[n]
<1>1. /\ Len(s) \in Nat /\ Len(lens) \in Nat /\ base \in Nat
      /\ \A i \in 1 .. Len(lens) : lens[i] \in Nat
  BY LenProperties, SizesPositive, EndsSteps
<1>2. \A k \in 1 .. Len(s) : s[k] \in BytesOf(lens)
  BY ElementOfSeq
<1>3. CASE cut # 0 /\ n + 1 = cut
  <2>1. n = cut - 1
    BY <1>3
  <2>2. ASSUME NEW k \in 1 .. Len(s) PROVE s[k][1] >= cut
    <3>1. ~ (base + k <= Ends(lens)[cut - 1])
      BY <1>1, <2>1
    <3> HIDE DEF base
    <3> QED
      BY <1>3, <3>1 DEF InPlace, base
  <2>3. Ends(lens)[n] >= Ends(lens)[cut - 1]
    BY <1>1, <2>1
  <2> QED
    BY <1>3, <2>2, <2>3
<1>4. CASE cut = 0 \/ n + 1 < cut
  <2>1. n + 1 \in 1 .. Len(lens)
    <3>1. CASE cut # 0
      BY <1>1, <1>4, <3>1
    <3>2. CASE cut = 0
      <4>1. 1 \in 1 .. Len(s) /\ s[1] \in BytesOf(lens)
        BY <1>1, <1>2
      <4>2. Place(lens, s[1]) = base + 1
        BY <3>2, <4>1 DEF InPlace
      <4>3. s[1][1] \in 1 .. Len(lens) /\ Place(lens, s[1]) <= Ends(lens)[s[1][1]]
            /\ Ends(lens)[s[1][1]] \in Nat
        BY <4>1, PlaceOfByte
      <4>4. n # Len(lens)
        <5> SUFFICES ASSUME n = Len(lens) PROVE FALSE
          OBVIOUS
        <5>1. s[1][1] \in 0 .. Len(lens) /\ s[1][1] <= n
          BY <1>1, <4>3
        <5>2. Ends(lens)[s[1][1]] <= base
          BY <5>1, EndsGrow
        <5> HIDE DEF base
        <5> QED
          BY <1>1, <4>2, <4>3, <5>2
      <4> QED
        BY <1>1, <4>4
    <3> QED
      BY <3>1, <3>2
  <2>2. Ends(lens)[n + 1] = base + HeaderSize + lens[n + 1]
    <3>1. (n + 1) - 1 = n
      BY <1>1
    <3> QED
      BY <2>1, <3>1, EndsSteps
  <2>3. lens[n + 1] \in Nat
    BY <1>1, <2>1
  <2>4. cut # 0 => Ends(lens)[n + 1] <= Ends(lens)[cut - 1] /\ Ends(lens)[cut - 1] \in Nat
    <3>1. cut # 0 => cut - 1 \in 0 .. Len(lens) /\ n + 1 \in 0 .. Len(lens) /\ n + 1 <= cut - 1
      BY <1>1, <1>4, <2>1
    <3> QED
      BY <3>1, EndsGrow, EndsSteps
  <2>5. ASSUME NEW k \in 1 .. Len(s), k <= HeaderSize + lens[n + 1] PROVE s[k] = <<n + 1, k>>
    <3>1. cut = 0 \/ base + k <= Ends(lens)[cut - 1]
      <4> HIDE DEF base
      <4> QED
        BY <1>1, <2>2, <2>3, <2>4, <2>5 DEF HeaderSize
    <3>2. Place(lens, s[k]) = base + k
      <4> HIDE DEF base
      <4> QED
        BY <3>1 DEF InPlace, base
    <3>3. k \in 1 .. HeaderSize + lens[n + 1] /\ (n + 1) - 1 = n
      BY <1>1, <2>3, <2>5 DEF HeaderSize
    <3> QED
      BY <1>2, <2>1, <3>2, <3>3, OnePlace
  <2> QED
    BY <1>4, <2>1, <2>2, <2>5
<1>5. cut = 0 \/ n + 1 < cut \/ n + 1 = cut
  BY <1>1
<1> QED
  BY <1>3, <1>4, <1>5

-----------------------------------------------------------------------------
(***************************************************************************)
(* The invariant of the refinement.  The stream of a connection begins     *)
(* where the requests received end, or is after the cut, and while the     *)
(* controller is there and nothing is cut it ends where the controller     *)
(* goes on.  Of a connection, what was submitted is of a request received  *)
(* or of what follows the cut.                                             *)
(***************************************************************************)
NumRead(c)  == Stream!NumReceived(c)
StreamOf(c) == input[c] \o wire[c]
Base(c)     == Ends(sent[c])[NumRead(c)]

\* Where the controller goes on, its last request being sent or not.
Written(lens, unfinished) ==
    Ends(lens)[Len(lens)] - (IF unfinished THEN lens[Len(lens)] ELSE 0)

ConnInv(c) ==
    /\ NumRead(c) \in 0 .. Len(sent[c])
    /\ cutAt[c] # 0 => NumRead(c) < cutAt[c]
    /\ InPlace(sent[c], cutAt[c], Base(c), StreamOf(c))
    /\ open[c] => IF cutAt[c] = 0
                  THEN Base(c) + Len(StreamOf(c)) = Written(sent[c], sending[c])
                  ELSE Base(c) + Len(StreamOf(c)) >= Ends(sent[c])[cutAt[c] - 1]

Submission == [conn : Conns, value : Seq(Byte)]

SubmittedInv ==
    /\ submitted \in Seq(Submission)
    /\ \A j \in DOMAIN submitted :
          LET s == submitted[j]
          IN  s.value # <<>> =>
                 \/ s.value[1][1] <= NumRead(s.conn)
                 \/ cutAt[s.conn] # 0 /\ s.value[1][1] >= cutAt[s.conn]

StreamInv == SubmittedInv /\ \A c \in Conns : ConnInv(c)

\* Cardinality, as the instance of RequestStream has it.
LEMMA SameCardinality == \A S : Stream!Cardinality(S) = Cardinality(S)
BY DEF Stream!Cardinality, Cardinality

LEMMA ReceivedKept ==
    ASSUME submitted' = submitted,
           \A j \in DOMAIN submitted : BeforeACut(submitted[j])' <=> BeforeACut(submitted[j])
    PROVE  Received' = Received /\ \A c : NumRead(c)' = NumRead(c)
<1>1. Received' = Received
  BY DEF Received
<1> QED
  BY <1>1 DEF NumRead, Stream!NumReceived

LEMMA StreamType ==
    ASSUME FrameInv, NEW c \in Conns
    PROVE  /\ sent[c] \in Seq(Sizes) /\ cutAt[c] \in 0 .. Len(sent[c]) /\ Len(sent[c]) \in Nat
           /\ BytesOf(sent[c]) \subseteq Byte
           /\ input[c] \in Seq(BytesOf(sent[c])) /\ wire[c] \in Seq(BytesOf(sent[c]))
           /\ StreamOf(c) \in Seq(BytesOf(sent[c])) /\ StreamOf(c) \in Seq(Byte)
           /\ Len(input[c]) \in Nat /\ Len(wire[c]) \in Nat
           /\ Len(StreamOf(c)) = Len(input[c]) + Len(wire[c])
           /\ \A k \in 1 .. Len(input[c]) + Len(wire[c]) :
                 StreamOf(c)[k] = IF k <= Len(input[c]) THEN input[c][k]
                                  ELSE wire[c][k - Len(input[c])]
<1>1. /\ sent[c] \in Seq(Sizes) /\ cutAt[c] \in 0 .. Len(sent[c])
      /\ input[c] \in Seq(BytesOf(sent[c])) /\ wire[c] \in Seq(BytesOf(sent[c]))
  BY DEF FrameInv
<1>2. Len(input[c]) \in Nat /\ Len(wire[c]) \in Nat /\ Len(sent[c]) \in Nat
  BY <1>1, LenProperties
<1>3. BytesOf(sent[c]) \subseteq Byte
  BY DEF BytesOf
<1>4. /\ StreamOf(c) \in Seq(BytesOf(sent[c]))
      /\ Len(StreamOf(c)) = Len(input[c]) + Len(wire[c])
      /\ \A k \in 1 .. Len(input[c]) + Len(wire[c]) :
            StreamOf(c)[k] = IF k <= Len(input[c]) THEN input[c][k]
                             ELSE wire[c][k - Len(input[c])]
  BY <1>1, ConcatProperties DEF StreamOf
<1>5. StreamOf(c) \in Seq(Byte)
  BY <1>3, <1>4, SeqMonotonic
<1> QED
  BY <1>1, <1>2, <1>3, <1>4, <1>5

LEMMA ConnKept ==
    ASSUME NEW c \in Conns, ConnInv(c), sent'[c] = sent[c], sending'[c] = sending[c],
           open'[c] = open[c], cutAt'[c] = cutAt[c], input'[c] = input[c], wire'[c] = wire[c],
           NumRead(c)' = NumRead(c)
    PROVE  ConnInv(c)'
BY DEF ConnInv, Base, StreamOf

LEMMA NothingYet == Init => Received = <<>>
<1> SUFFICES ASSUME Init PROVE Received = <<>>
  OBVIOUS
<1>1. submitted = <<>> /\ Len(<<>>) = 0 /\ Len(submitted) \in Nat
  BY DEF Init
<1> DEFINE T == { j \in DOMAIN submitted : BeforeACut(submitted[j]) }
<1>2. AtUpTo(submitted, T)[0] = <<>>
  <2> HIDE DEF T
  <2> QED
    BY <1>1, AtUpToExists
<1>3. Received = AtUpTo(submitted, T)[0]
  BY <1>1, ElementsAtIsAt DEF Received
<1> QED
  BY <1>2, <1>3

\* At first nothing is sent and nothing received.
LEMMA StreamInit == Init => StreamInv
<1> SUFFICES ASSUME Init PROVE StreamInv
  OBVIOUS
<1>1. Received = <<>>
  BY NothingYet
<1>2. ASSUME NEW c \in Conns PROVE NumRead(c) = 0
  <2>1. DOMAIN Received = {}
    BY <1>1
  <2>2. { j \in DOMAIN Received : Received[j].conn = c } = {}
    BY <2>1
  <2> QED
    BY <2>2, SameCardinality, FS_EmptySet DEF NumRead, Stream!NumReceived
<1>3. ASSUME NEW c \in Conns PROVE ConnInv(c)
  <2>1. /\ sent[c] = <<>> /\ input[c] = <<>> /\ wire[c] = <<>> /\ cutAt[c] = 0
        /\ sending[c] = FALSE
    BY DEF Init
  <2>2. Len(sent[c]) = 0 /\ sent[c] \in Seq(Sizes)
    BY <2>1
  <2>3. StreamOf(c) = <<>> /\ Len(StreamOf(c)) = 0
    BY <2>1 DEF StreamOf
  <2>4. Ends(sent[c])[0] = 0
    BY <2>2, EndsSteps
  <2>5. InPlace(sent[c], cutAt[c], Base(c), StreamOf(c))
    <3>1. \A k \in 1 .. Len(StreamOf(c)) : FALSE
      BY <2>3
    <3> QED
      BY <3>1 DEF InPlace
  <2>6. Base(c) + Len(StreamOf(c)) = Written(sent[c], sending[c])
    BY <1>2, <2>1, <2>2, <2>3, <2>4 DEF Base, Written
  <2> QED
    BY <1>2, <2>1, <2>2, <2>5, <2>6 DEF ConnInv
<1>4. SubmittedInv
  <2>1. submitted = <<>>
    BY DEF Init
  <2> QED
    BY <2>1 DEF SubmittedInv
<1> QED
  BY <1>3, <1>4 DEF StreamInv

-----------------------------------------------------------------------------
(* What controllers write. *)

\* What was received stays so when a request that was not is cut.
LEMMA CutLater ==
    ASSUME FrameInv, SubmittedInv, NEW c \in Conns, NEW new \in Nat, NumRead(c) \in Nat,
           cutAt' = [cutAt EXCEPT ![c] = new], submitted' = submitted,
           cutAt[c] # 0 => new = cutAt[c], new # 0 => NumRead(c) < new
    PROVE  Received' = Received /\ (\A d : NumRead(d)' = NumRead(d)) /\ SubmittedInv'
<1>1. submitted \in Seq(Submission) /\ cutAt \in [Conns -> Nat]
  BY DEF SubmittedInv, FrameInv
<1>2. \A d \in Conns : d # c => cutAt'[d] = cutAt[d]
  BY <1>1
<1>3. cutAt'[c] = new
  BY <1>1
<1>4. ASSUME NEW j \in DOMAIN submitted
      PROVE  /\ BeforeACut(submitted[j])' <=> BeforeACut(submitted[j])
             /\ submitted[j].value # <<>> =>
                   \/ submitted[j].value[1][1] <= NumRead(submitted[j].conn)
                   \/ /\ cutAt'[submitted[j].conn] # 0
                      /\ submitted[j].value[1][1] >= cutAt'[submitted[j].conn]
  <2>1. submitted[j] \in Submission
    BY <1>1, ElementOfSeq, LenProperties
  <2>2. PICK v \in Submission : v = submitted[j]
    BY <2>1
  <2>3. v.conn \in Conns /\ v.value \in Seq(Byte)
    BY DEF Submission
  <2>4. v.value # <<>> => \/ v.value[1][1] <= NumRead(v.conn)
                          \/ cutAt[v.conn] # 0 /\ v.value[1][1] >= cutAt[v.conn]
    BY <2>2 DEF SubmittedInv
  <2>5. v.value # <<>> => v.value[1][1] \in Nat
    <3> SUFFICES ASSUME v.value # <<>> PROVE v.value[1][1] \in Nat
      OBVIOUS
    <3>1. 1 \in 1 .. Len(v.value)
      BY <2>3, LenProperties, EmptySeq
    <3>2. v.value[1] \in Byte
      BY <2>3, <3>1, ElementOfSeq
    <3> QED
      BY <3>2 DEF Byte
  <2>6. v.value # <<>> => ((cutAt'[v.conn] = 0 \/ v.value[1][1] < cutAt'[v.conn])
                            <=> (cutAt[v.conn] = 0 \/ v.value[1][1] < cutAt[v.conn]))
    <3>1. CASE v.conn # c
      BY <1>2, <2>3, <3>1
    <3>2. CASE v.conn = c /\ cutAt[c] # 0
      BY <1>3, <3>2
    <3>3. CASE v.conn = c /\ cutAt[c] = 0
      <4>1. v.value # <<>> => v.value[1][1] <= NumRead(c)
        BY <2>4, <3>3
      <4>2. v.value # <<>> /\ new # 0 => v.value[1][1] < new
        BY <2>5, <4>1
      <4> QED
        BY <1>3, <3>3, <4>2
    <3> QED
      BY <3>1, <3>2, <3>3
  <2>7. BeforeACut(v)' <=> BeforeACut(v)
    BY <2>6 DEF BeforeACut, WholeUpTo
  <2>8. submitted'[j] = v
    BY <2>2
  <2>9. BeforeACut(submitted[j])' <=> BeforeACut(v)'
    BY <2>8 DEF BeforeACut, WholeUpTo
  <2>10. v.value # <<>> => \/ v.value[1][1] <= NumRead(v.conn)
                           \/ cutAt'[v.conn] # 0 /\ v.value[1][1] >= cutAt'[v.conn]
    BY <1>2, <1>3, <2>3, <2>4
  <2> QED
    BY <2>2, <2>7, <2>9, <2>10
<1>5. Received' = Received /\ \A d : NumRead(d)' = NumRead(d)
  BY <1>4, ReceivedKept
<1>6. \A j \in DOMAIN submitted : NumRead(submitted[j].conn)' = NumRead(submitted[j].conn)
  <2> SUFFICES ASSUME NEW j \in DOMAIN submitted
               PROVE  NumRead(submitted[j].conn)' = NumRead(submitted[j].conn)
    OBVIOUS
  <2>1. PICK d : d = submitted[j].conn
    OBVIOUS
  <2>2. NumRead(d)' = NumRead(d)
    BY <1>5
  <2> QED
    BY <2>1, <2>2 DEF NumRead, Stream!NumReceived
<1>7. SubmittedInv'
  BY <1>1, <1>4, <1>6 DEF SubmittedInv
<1> QED
  BY <1>5, <1>7

LEMMA ConcatBytes ==
    ASSUME NEW p \in Seq(Byte), NEW q \in Seq(Byte), NEW r \in Seq(Byte)
    PROVE  p \o (q \o r) = (p \o q) \o r
BY ConcatAssociative

\* bytes, of request i and from its byte m + 1 on, are written to c.
Writes(c, more, i, m, bytes, b) ==
    /\ more \in Seq(Sizes) /\ sent' = [sent EXCEPT ![c] = more] /\ Len(sent[c]) <= Len(more)
    /\ \A k \in 0 .. Len(sent[c]) : Ends(more)[k] = Ends(sent[c])[k]
    /\ i \in 1 .. Len(more) /\ i = Len(more) /\ m \in Nat
    /\ bytes \in Seq(Byte) /\ \A k \in 1 .. Len(bytes) : bytes[k] = <<i, m + k>>
    /\ Write(c, i, bytes) /\ UNCHANGED <<open, input, submitted>>
    /\ b \in BOOLEAN /\ sending' = [sending EXCEPT ![c] = b]
    /\ Written(sent[c], sending[c]) = Ends(more)[i - 1] + m
    /\ Written(more, b) = Ends(more)[i - 1] + m + Len(bytes)
    /\ cutAt[c] = 0 => NumRead(c) < i

\* What is written, or as much as fits, continues the stream.
LEMMA WriteStream ==
    ASSUME FrameInv, StreamInv, NEW c \in Conns, NEW more, NEW i, NEW m, NEW bytes, NEW b,
           Writes(c, more, i, m, bytes, b)
    PROVE  StreamInv' /\ Received' = Received
<1> DEFINE to == Len(bytes)
<1>0. to \in Nat
  BY LenProperties DEF Writes
<1> HIDE DEF to
<1> SUFFICES
      ASSUME more \in Seq(Sizes), sent' = [sent EXCEPT ![c] = more], Len(sent[c]) <= Len(more),
             \A k \in 0 .. Len(sent[c]) : Ends(more)[k] = Ends(sent[c])[k],
             i \in 1 .. Len(more), i = Len(more), m \in Nat, to \in Nat,
             bytes \in Seq(Byte), Len(bytes) = to, \A k \in 1 .. to : bytes[k] = <<i, m + k>>,
             Write(c, i, bytes), UNCHANGED <<open, input, submitted>>,
             b \in BOOLEAN, sending' = [sending EXCEPT ![c] = b],
             Written(sent[c], sending[c]) = Ends(more)[i - 1] + m,
             Written(more, b) = Ends(more)[i - 1] + m + to,
             cutAt[c] = 0 => NumRead(c) < i
      PROVE  StreamInv' /\ Received' = Received
  BY <1>0 DEF Writes, to
<1> DEFINE lens == sent[c]
           s == StreamOf(c)
           f == Fits(c, bytes)
           cut == cutAt[c]
           new == IF cut = 0 /\ f # bytes THEN i ELSE cut
<1>1. /\ lens \in Seq(Sizes) /\ cut \in 0 .. Len(lens) /\ Len(lens) \in Nat
      /\ s \in Seq(BytesOf(lens)) /\ s \in Seq(Byte) /\ Len(s) \in Nat
      /\ input[c] \in Seq(Byte) /\ wire[c] \in Seq(Byte) /\ i \in Nat
  BY StreamType, LenProperties, SeqMonotonic
<1>2. /\ open[c] /\ open' = open /\ input' = input
      /\ wire' = [wire EXCEPT ![c] = @ \o f] /\ cutAt' = [cutAt EXCEPT ![c] = new]
  BY DEF Write
<1>3. f \in Seq(Byte) /\ Len(f) \in 0 .. to /\ \A k \in 1 .. Len(f) : f[k] = <<i, m + k>>
  <2> DEFINE room == SendBuffer[c] - Len(wire[c])
             r == IF room < Len(bytes) THEN room ELSE Len(bytes)
  <2>1. room \in Nat
    <3>1. SendBuffer[c] \in Nat /\ Len(wire[c]) \in Nat
      BY FramingAssumption, StreamType
    <3> QED
      BY <3>1 DEF Write
  <2>2. r \in 0 .. Len(bytes) /\ r \in 0 .. to
    BY <2>1
  <2>3. f = SubSeq(bytes, 1, r)
    BY DEF Fits
  <2> HIDE DEF r, f
  <2>4. /\ f \in Seq(Byte) /\ Len(f) = IF 1 <= r THEN r - 1 + 1 ELSE 0
        /\ \A k \in 1 .. r - 1 + 1 : f[k] = bytes[1 + k - 1]
    BY <2>2, <2>3, PartType
  <2>5. Len(f) = r
    BY <2>2, <2>4
  <2>6. \A k \in 1 .. Len(f) : k \in 1 .. r - 1 + 1 /\ 1 + k - 1 = k /\ k \in 1 .. to
    BY <2>2, <2>5
  <2> QED
    BY <2>2, <2>4, <2>5, <2>6
<1>4. /\ NumRead(c) \in 0 .. Len(lens) /\ (cut # 0 => NumRead(c) < cut)
      /\ InPlace(lens, cut, Base(c), s)
      /\ IF cut = 0 THEN Base(c) + Len(s) = Written(lens, sending[c])
         ELSE Base(c) + Len(s) >= Ends(lens)[cut - 1]
  BY <1>2 DEF StreamInv, ConnInv
<1>5. Base(c) \in Nat /\ Ends(more)[i - 1] \in Nat
  <2>1. i - 1 \in 0 .. Len(more)
    BY <1>1
  <2> QED
    BY <1>1, <1>4, <2>1, EndsSteps DEF Base
<1> HIDE DEF f, s, lens, cut
<1>6. new \in {cut, i} /\ (cut # 0 => new = cut /\ cut <= i) /\ new \in Nat
      /\ (new = 0 => cut = 0 /\ f = bytes) /\ (new # 0 => NumRead(c) < new)
  BY <1>1, <1>4 DEF cut, lens
<1> HIDE DEF new
<1>7. InPlace(more, new, Base(c), s \o f)
  <2>1. /\ Len(lens) <= Len(more) /\ \A k \in 0 .. Len(lens) : Ends(more)[k] = Ends(lens)[k]
        /\ Written(lens, sending[c]) = Ends(more)[i - 1] + m
    BY DEF lens
  <2>2. /\ cut = 0 => Base(c) + Len(s) = Ends(more)[i - 1] + m
        /\ cut # 0 => Base(c) + Len(s) >= Ends(lens)[cut - 1]
    BY <1>4, <2>1
  <2>3. f \in Seq(Byte) /\ \A k \in 1 .. Len(f) : f[k] = <<i, m + k>>
    BY <1>3
  <2>4. InPlace(lens, cut, Base(c), s) /\ Base(c) \in Nat
    BY <1>4, <1>5
  <2>5. lens \in Seq(Sizes) /\ cut \in 0 .. Len(lens) /\ s \in Seq(BytesOf(lens))
    BY <1>1
  <2>6. new \in {cut, i} /\ (cut # 0 => new = cut /\ cut <= i)
    BY <1>6
  <2>7. WrittenAt(lens, more, s, i, m, f, cut, new, Base(c))
    BY <2>1, <2>2, <2>3, <2>4, <2>5, <2>6 DEF WrittenAt
  <2> QED
    BY <2>7, WriteInPlace
<1>8. sent'[c] = more /\ sending'[c] = b /\ cutAt'[c] = new /\ open'[c]
  BY <1>2 DEF FrameInv
<1>9. StreamOf(c)' = s \o f /\ Len(s \o f) = Len(s) + Len(f)
  <2>1. wire'[c] = wire[c] \o f /\ input'[c] = input[c]
    BY <1>2 DEF FrameInv
  <2>2. input[c] \o (wire[c] \o f) = (input[c] \o wire[c]) \o f
    <3>1. input[c] \in Seq(Byte) /\ wire[c] \in Seq(Byte) /\ f \in Seq(Byte)
      BY <1>1, <1>3
    <3> QED
      BY ONLY <3>1, ConcatBytes
  <2>3. Len(s \o f) = Len(s) + Len(f)
    BY <1>1, <1>3, ConcatProperties
  <2> QED
    BY <2>1, <2>2, <2>3 DEF StreamOf, s
<1>10. Received' = Received /\ (\A d : NumRead(d)' = NumRead(d)) /\ SubmittedInv'
  <2>1. NumRead(c) \in Nat
    BY <1>1, <1>4
  <2>2. /\ cutAt' = [cutAt EXCEPT ![c] = new] /\ submitted' = submitted
        /\ cutAt[c] # 0 => new = cutAt[c]
    BY <1>2, <1>6 DEF cut
  <2> QED
    BY <1>6, <2>1, <2>2, CutLater DEF StreamInv
<1>11. ConnInv(c)'
  <2>1. Base(c)' = Base(c)
    BY <1>4, <1>8, <1>10 DEF Base, lens
  <2>2. NumRead(c) \in 0 .. Len(more)
    BY <1>1, <1>4 DEF lens
  <2>3. new = 0 => Base(c) + Len(s \o f) = Written(more, b)
    <3>1. new = 0 => /\ Base(c) + Len(s) = Ends(more)[i - 1] + m
                     /\ Len(s \o f) = Len(s) + to
      BY <1>4, <1>6, <1>9 DEF lens
    <3> QED
      BY <1>1, <1>5, <3>1
  <2>4. new # 0 => Base(c) + Len(s \o f) >= Ends(more)[new - 1]
    <3>1. CASE cut # 0
      <4>1. cut - 1 \in 0 .. Len(lens) /\ new = cut
        BY <1>1, <1>6, <3>1
      <4>2. Ends(more)[new - 1] = Ends(lens)[cut - 1] /\ Ends(lens)[cut - 1] \in Nat
        BY <1>1, <4>1, EndsSteps DEF lens
      <4> QED
        BY <1>1, <1>3, <1>4, <1>5, <1>9, <3>1, <4>2
    <3>2. CASE cut = 0
      <4>1. new # 0 => new = i
        BY <1>6, <3>2
      <4>2. Base(c) + Len(s) = Ends(more)[i - 1] + m
        BY <1>4, <3>2 DEF lens
      <4> QED
        <5>1. Len(s \o f) = Len(s) + Len(f) /\ Len(s) \in Nat /\ Len(f) \in Nat
          BY <1>1, <1>3, <1>9
        <5>2. Base(c) + Len(s \o f) >= Ends(more)[i - 1]
          BY <1>5, <4>2, <5>1
        <5> QED
          BY <4>1, <5>2
    <3> QED
      BY <3>1, <3>2
  <2> QED
    BY <1>6, <1>7, <1>8, <1>9, <1>10, <2>1, <2>2, <2>3, <2>4 DEF ConnInv
<1>12. ASSUME NEW d \in Conns, d # c PROVE ConnInv(d)'
  <2>1. /\ sent'[d] = sent[d] /\ sending'[d] = sending[d] /\ cutAt'[d] = cutAt[d]
        /\ open'[d] = open[d] /\ input'[d] = input[d] /\ wire'[d] = wire[d]
    BY <1>2, <1>12 DEF FrameInv
  <2> QED
    BY <1>10, <2>1, ConnKept DEF StreamInv
<1> QED
  BY <1>10, <1>11, <1>12 DEF StreamInv

LEMMA RequestParts ==
    ASSUME NEW lens \in Seq(Sizes), NEW i \in 1 .. Len(lens)
    PROVE  /\ Header(i) \in Seq(Byte) /\ Len(Header(i)) = HeaderSize
           /\ \A k \in 1 .. HeaderSize : Header(i)[k] = <<i, 0 + k>>
           /\ Body(i, lens[i]) \in Seq(Byte) /\ Len(Body(i, lens[i])) = lens[i]
           /\ \A k \in 1 .. lens[i] : Body(i, lens[i])[k] = <<i, HeaderSize + k>>
<1>1. i \in Nat /\ lens[i] \in Nat /\ i \in DOMAIN lens
  BY SizesPositive
<1>2. BytesOf(lens) \subseteq Byte
  BY DEF BytesOf
<1>3. /\ Header(i) \in Seq(BytesOf(lens)) /\ Len(Header(i)) = HeaderSize
      /\ Body(i, lens[i]) \in Seq(BytesOf(lens)) /\ Len(Body(i, lens[i])) = lens[i]
  BY <1>1, RequestBytes
<1>4. Header(i) \in Seq(Byte) /\ Body(i, lens[i]) \in Seq(Byte)
  BY <1>2, <1>3, SeqMonotonic
<1>5. Header(i) = [k \in 1 .. HeaderSize |-> <<i, 0 + k>>]
  BY <1>1 DEF Header, Bytes, HeaderSize
<1>6. Body(i, lens[i]) = [k \in 1 .. lens[i] |-> <<i, HeaderSize + k>>]
  BY <1>1 DEF Body, Bytes, HeaderSize
<1> QED
  BY <1>3, <1>4, <1>5, <1>6

\* send() of the length.
LEMMA SizeSent ==
    ASSUME FrameInv, StreamInv, NEW c \in Conns, SendSize(c)
    PROVE  StreamInv' /\ Received' = Received
<1>1. PICK size \in Sizes : sent' = [sent EXCEPT ![c] = Append(@, size)]
  BY DEF SendSize
<1> DEFINE lens == sent[c]
           more == Append(lens, size)
           i == Len(lens) + 1
<1>2. lens \in Seq(Sizes) /\ Len(lens) \in Nat
  BY StreamType
<1>3. more \in Seq(Sizes) /\ Len(more) = i /\ i \in 1 .. Len(more) /\ i \in Nat /\ i - 1 = Len(lens)
  BY <1>2
<1>4. \A k \in 0 .. Len(lens) : Ends(more)[k] = Ends(lens)[k]
  BY <1>2, EndsKept
<1>5. ~ sending[c] /\ open[c] /\ sent' = [sent EXCEPT ![c] = more] /\ Write(c, i, Header(i))
      /\ UNCHANGED <<open, input, submitted>> /\ sending' = [sending EXCEPT ![c] = TRUE]
  BY <1>1 DEF SendSize, Write, cli
<1> HIDE DEF more, i
<1>6. /\ Header(i) \in Seq(Byte) /\ Len(Header(i)) = HeaderSize
      /\ \A k \in 1 .. HeaderSize : Header(i)[k] = <<i, 0 + k>>
  BY <1>3, RequestParts
<1>7. Written(lens, sending[c]) = Ends(more)[i - 1] + 0
  <2>1. Len(lens) \in 0 .. Len(lens)
    BY <1>2
  <2>2. Ends(more)[i - 1] = Ends(lens)[Len(lens)] /\ Ends(lens)[Len(lens)] \in Nat
    BY <1>2, <1>3, <1>4, <2>1, EndsSteps
  <2> QED
    BY <1>5, <2>2 DEF Written
<1>8. Written(more, TRUE) = Ends(more)[i - 1] + 0 + Len(Header(i))
  <2>1. /\ Ends(more)[i] = Ends(more)[i - 1] + HeaderSize + more[i]
        /\ Ends(more)[i - 1] \in Nat /\ more[i] \in Nat
    <3>1. i - 1 \in 0 .. Len(more)
      BY <1>3
    <3> QED
      BY <1>3, <3>1, EndsSteps, SizesPositive
  <2> QED
    BY <1>3, <1>6, <2>1 DEF Written, HeaderSize
<1>9. NumRead(c) < i
  BY <1>2 DEF i, StreamInv, ConnInv
<1>10. Writes(c, more, i, 0, Header(i), TRUE)
  <2>1. Len(lens) <= Len(more)
    BY <1>2, <1>3
  <2> QED
    BY <1>3, <1>4, <1>5, <1>6, <1>7, <1>8, <1>9, <2>1 DEF Writes
<1> QED
  BY <1>10, WriteStream

\* send() of the message.
LEMMA MessageSent ==
    ASSUME FrameInv, StreamInv, NEW c \in Conns, SendMessage(c)
    PROVE  StreamInv' /\ Received' = Received
<1> DEFINE lens == sent[c]
           i == Len(lens)
           size == lens[i]
<1>1. lens \in Seq(Sizes) /\ i \in Nat /\ lens # <<>>
  BY StreamType DEF SendMessage, FrameInv
<1>2. i \in 1 .. i /\ Last(lens) = size
  BY <1>1 DEF Last
<1>3. size \in Nat \ {0}
  BY <1>1, <1>2, SizesPositive
<1>4. sending[c] /\ open[c] /\ Write(c, i, Body(i, size)) /\ UNCHANGED <<open, input, submitted>>
      /\ sending' = [sending EXCEPT ![c] = FALSE] /\ sent' = [sent EXCEPT ![c] = lens]
  BY <1>2 DEF SendMessage, Write, cli, FrameInv
<1>5. /\ Body(i, size) \in Seq(Byte) /\ Len(Body(i, size)) = size
      /\ \A k \in 1 .. size : Body(i, size)[k] = <<i, HeaderSize + k>>
  BY <1>1, <1>2, RequestParts
<1>6. /\ Ends(lens)[i] = Ends(lens)[i - 1] + HeaderSize + size
      /\ Ends(lens)[i - 1] \in Nat /\ Ends(lens)[i] \in Nat
  <2>1. i - 1 \in 0 .. i /\ i \in 0 .. i
    BY <1>2
  <2> QED
    BY <1>1, <1>2, <2>1, EndsSteps
<1>7. Written(lens, sending[c]) = Ends(lens)[i - 1] + HeaderSize
  BY <1>3, <1>4, <1>6 DEF Written, HeaderSize
<1>8. Written(lens, FALSE) = Ends(lens)[i - 1] + HeaderSize + Len(Body(i, size))
  BY <1>3, <1>5, <1>6 DEF Written, HeaderSize
<1>9. cutAt[c] = 0 => NumRead(c) < i
  <2> SUFFICES ASSUME cutAt[c] = 0, NumRead(c) >= i PROVE FALSE
    <3>1. NumRead(c) \in 0 .. i
      BY DEF StreamInv, ConnInv
    <3> QED
      BY <1>1, <3>1
  <2>1. NumRead(c) = i
    <3>1. NumRead(c) \in 0 .. i
      BY DEF StreamInv, ConnInv
    <3> QED
      BY <1>1, <3>1
  <2>2. Base(c) + Len(StreamOf(c)) = Written(lens, sending[c])
    BY <1>4 DEF StreamInv, ConnInv
  <2>3. Base(c) = Ends(lens)[i] /\ Len(StreamOf(c)) \in Nat
    BY <2>1, StreamType, LenProperties DEF Base
  <2> QED
    BY <1>3, <1>6, <1>7, <2>2, <2>3 DEF HeaderSize
<1>10. Writes(c, lens, i, HeaderSize, Body(i, size), FALSE)
  <2>1. HeaderSize \in Nat /\ Len(lens) <= Len(lens)
    BY <1>1 DEF HeaderSize
  <2> HIDE DEF size
  <2> QED
    BY <1>1, <1>2, <1>4, <1>5, <1>7, <1>8, <1>9, <2>1 DEF Writes
<1> QED
  BY <1>10, WriteStream

-----------------------------------------------------------------------------
(* The other steps that submit nothing. *)

LEMMA NothingSubmitted ==
    ASSUME SubmittedInv, submitted' = submitted, cutAt' = cutAt
    PROVE  Received' = Received /\ (\A d : NumRead(d)' = NumRead(d)) /\ SubmittedInv'
<1>1. \A j \in DOMAIN submitted : BeforeACut(submitted[j])' <=> BeforeACut(submitted[j])
  BY DEF BeforeACut, WholeUpTo
<1>2. Received' = Received /\ \A d : NumRead(d)' = NumRead(d)
  BY <1>1, ReceivedKept
<1>3. \A j \in DOMAIN submitted : NumRead(submitted[j].conn)' = NumRead(submitted[j].conn)
  BY <1>2 DEF NumRead, Stream!NumReceived
<1>4. SubmittedInv'
  BY <1>3 DEF SubmittedInv
<1> QED
  BY <1>2, <1>4

LEMMA SameStream ==
    ASSUME NEW c \in Conns, ConnInv(c), sent'[c] = sent[c], sending'[c] = sending[c],
           open'[c] = open[c], cutAt'[c] = cutAt[c], StreamOf(c)' = StreamOf(c),
           NumRead(c)' = NumRead(c)
    PROVE  ConnInv(c)'
BY DEF ConnInv, Base

\* What is left of a stream of which the first bytes are taken.
LEMMA TakenFromFront ==
    ASSUME NEW buf \in Seq(Byte), NEW w \in Seq(Byte), NEW used \in 0 .. Len(buf)
    PROVE  LET t == SubSeq(buf, used + 1, Len(buf)) \o w
           IN  /\ t \in Seq(Byte) /\ buf \o w \in Seq(Byte)
               /\ Len(buf \o w) = used + Len(t)
               /\ \A k \in 1 .. Len(t) : t[k] = (buf \o w)[used + k]
<1> DEFINE r == SubSeq(buf, used + 1, Len(buf))
           t == r \o w
<1>1. Len(buf) \in Nat /\ Len(w) \in Nat /\ used \in Nat /\ used <= Len(buf)
  BY LenProperties
<1>2. used + 1 \in Nat \ {0} /\ Len(buf) \in 0 .. Len(buf)
  BY <1>1
<1>3. /\ r \in Seq(Byte) /\ Len(r) = Len(buf) - used
      /\ \A k \in 1 .. Len(buf) - used : r[k] = buf[used + k]
  <2>1. /\ r \in Seq(Byte)
        /\ Len(r) = IF used + 1 <= Len(buf) THEN Len(buf) - (used + 1) + 1 ELSE 0
        /\ \A k \in 1 .. Len(buf) - (used + 1) + 1 : r[k] = buf[used + 1 + k - 1]
    BY <1>2, PartType
  <2>2. Len(r) = Len(buf) - used
    BY <1>1, <2>1
  <2>3. Len(buf) - (used + 1) + 1 = Len(buf) - used
    BY <1>1
  <2>4. \A k \in 1 .. Len(buf) - used : used + 1 + k - 1 = used + k
    BY <1>1
  <2> QED
    BY <2>1, <2>2, <2>3, <2>4
<1> HIDE DEF r
<1>4. /\ t \in Seq(Byte) /\ Len(t) = Len(r) + Len(w)
      /\ \A k \in 1 .. Len(r) + Len(w) : t[k] = IF k <= Len(r) THEN r[k] ELSE w[k - Len(r)]
  BY <1>3, ConcatProperties
<1>5. /\ buf \o w \in Seq(Byte) /\ Len(buf \o w) = Len(buf) + Len(w)
      /\ \A k \in 1 .. Len(buf) + Len(w) :
            (buf \o w)[k] = IF k <= Len(buf) THEN buf[k] ELSE w[k - Len(buf)]
  BY ConcatProperties
<1> HIDE DEF t
<1>6. Len(buf \o w) = used + Len(t)
  BY <1>1, <1>3, <1>4, <1>5
<1>7. ASSUME NEW k \in 1 .. Len(t) PROVE t[k] = (buf \o w)[used + k]
  <2>1. k \in Nat /\ used + k \in 1 .. Len(buf) + Len(w) /\ k \in 1 .. Len(r) + Len(w)
    BY <1>1, <1>3, <1>4
  <2>2. CASE k <= Len(r)
    <3>1. k \in 1 .. Len(buf) - used /\ used + k <= Len(buf)
      BY <1>1, <1>3, <2>1, <2>2
    <3> QED
      BY <1>3, <1>4, <1>5, <2>1, <2>2, <3>1
  <2>3. CASE ~ (k <= Len(r))
    <3>1. ~ (used + k <= Len(buf)) /\ used + k - Len(buf) = k - Len(r)
      BY <1>1, <1>3, <2>1, <2>3
    <3> QED
      BY <1>4, <1>5, <2>1, <2>3, <3>1
  <2> QED
    BY <2>2, <2>3
<1> QED
  BY <1>4, <1>5, <1>6, <1>7 DEF t, r

\* A sequence is its first bytes and the others.
LEMMA TwoParts ==
    ASSUME NEW w \in Seq(Byte), NEW n \in 0 .. Len(w)
    PROVE  SubSeq(w, 1, n) \o SubSeq(w, n + 1, Len(w)) = w
<1> DEFINE p == SubSeq(w, 1, n)
           r == SubSeq(w, n + 1, Len(w))
<1>1. Len(w) \in Nat /\ n \in Nat /\ n <= Len(w) /\ n + 1 \in Nat \ {0} /\ Len(w) \in 0 .. Len(w)
  BY LenProperties
<1>2. /\ p \in Seq(Byte) /\ Len(p) = IF 1 <= n THEN n - 1 + 1 ELSE 0
      /\ \A k \in 1 .. n - 1 + 1 : p[k] = w[1 + k - 1]
  BY <1>1, PartType
<1>3. /\ r \in Seq(Byte) /\ Len(r) = IF n + 1 <= Len(w) THEN Len(w) - (n + 1) + 1 ELSE 0
      /\ \A k \in 1 .. Len(w) - (n + 1) + 1 : r[k] = w[n + 1 + k - 1]
  BY <1>1, PartType
<1> HIDE DEF p, r
<1>4. Len(p) = n /\ Len(r) = Len(w) - n
  BY <1>1, <1>2, <1>3
<1>5. /\ p \o r \in Seq(Byte) /\ Len(p \o r) = Len(p) + Len(r)
      /\ \A k \in 1 .. Len(p) + Len(r) : (p \o r)[k] = IF k <= Len(p) THEN p[k] ELSE r[k - Len(p)]
  BY <1>2, <1>3, ConcatProperties
<1>6. Len(p \o r) = Len(w)
  BY <1>1, <1>4, <1>5
<1>7. ASSUME NEW k \in 1 .. Len(w) PROVE (p \o r)[k] = w[k]
  <2>1. k \in Nat /\ k \in 1 .. Len(p) + Len(r) /\ 1 + k - 1 = k
    BY <1>1, <1>4
  <2>2. CASE k <= n
    <3>1. k \in 1 .. n - 1 + 1
      BY <1>1, <2>1, <2>2
    <3> QED
      BY <1>2, <1>4, <1>5, <2>1, <2>2, <3>1
  <2>3. CASE ~ (k <= n)
    <3>1. k - n \in 1 .. Len(w) - (n + 1) + 1 /\ n + 1 + (k - n) - 1 = k
      BY <1>1, <2>1, <2>3
    <3> QED
      BY <1>3, <1>4, <1>5, <2>1, <2>3, <3>1
  <2> QED
    BY <2>2, <2>3
<1> QED
  BY <1>5, <1>6, <1>7, SeqEqual DEF p, r

\* A stream that lost its last bytes.
LEMMA LastLost ==
    ASSUME NEW buf \in Seq(Byte), NEW w \in Seq(Byte), NEW n \in 0 .. Len(w)
    PROVE  LET t == buf \o SubSeq(w, 1, n)
           IN  /\ Len(t) \in Nat /\ Len(buf \o w) \in Nat /\ Len(t) <= Len(buf \o w)
               /\ \A k \in 1 .. Len(t) : t[k] = (buf \o w)[k]
<1> DEFINE p == SubSeq(w, 1, n)
           t == buf \o p
<1>1. Len(buf) \in Nat /\ Len(w) \in Nat /\ n \in Nat /\ n <= Len(w)
  BY LenProperties
<1>2. p \in Seq(Byte) /\ Len(p) = n /\ \A k \in 1 .. n : p[k] = w[k]
  <2>1. /\ p \in Seq(Byte) /\ Len(p) = IF 1 <= n THEN n - 1 + 1 ELSE 0
        /\ \A k \in 1 .. n - 1 + 1 : p[k] = w[1 + k - 1]
    BY PartType
  <2>2. n - 1 + 1 = n /\ \A k \in 1 .. n : 1 + k - 1 = k
    BY <1>1
  <2> QED
    BY <1>1, <2>1, <2>2
<1> HIDE DEF p
<1>3. /\ Len(t) = Len(buf) + n
      /\ \A k \in 1 .. Len(buf) + n : t[k] = IF k <= Len(buf) THEN buf[k] ELSE p[k - Len(buf)]
  BY <1>2, ConcatProperties
<1>4. /\ Len(buf \o w) = Len(buf) + Len(w)
      /\ \A k \in 1 .. Len(buf) + Len(w) :
            (buf \o w)[k] = IF k <= Len(buf) THEN buf[k] ELSE w[k - Len(buf)]
  BY ConcatProperties
<1> HIDE DEF t
<1>5. ASSUME NEW k \in 1 .. Len(t) PROVE t[k] = (buf \o w)[k]
  <2>1. /\ k \in Nat /\ k \in 1 .. Len(buf) + Len(w) /\ k \in 1 .. Len(buf) + n
        /\ ~ (k <= Len(buf)) => k - Len(buf) \in 1 .. n
    BY <1>1, <1>3
  <2> QED
    BY <1>2, <1>3, <1>4, <2>1
<1> QED
  BY <1>1, <1>3, <1>4, <1>5 DEF t, p

\* A controller stops: the end of its stream may be lost.
LEMMA Stopped ==
    ASSUME FrameInv, StreamInv, NEW c \in Conns, Stop(c)
    PROVE  StreamInv' /\ Received' = Received
<1>1. Received' = Received /\ (\A d : NumRead(d)' = NumRead(d)) /\ SubmittedInv'
  BY NothingSubmitted DEF StreamInv, Stop, cli
<1>2. PICK n \in 0 .. Len(wire[c]) : wire' = [wire EXCEPT ![c] = SubSeq(@, 1, n)]
  BY DEF Stop
<1>3. ASSUME NEW d \in Conns PROVE ConnInv(d)'
  <2>1. CASE d # c
    <3>1. /\ sent'[d] = sent[d] /\ sending'[d] = sending[d] /\ cutAt'[d] = cutAt[d]
          /\ open'[d] = open[d] /\ input'[d] = input[d] /\ wire'[d] = wire[d]
      BY <1>2, <2>1 DEF Stop, cli, FrameInv
    <3> QED
      BY <1>1, <3>1, ConnKept DEF StreamInv
  <2>2. CASE d = c
    <3> DEFINE t == input[c] \o SubSeq(wire[c], 1, n)
    <3>1. input[c] \in Seq(Byte) /\ wire[c] \in Seq(Byte)
      BY DEF FrameInv
    <3>2. /\ Len(t) \in Nat /\ Len(StreamOf(c)) \in Nat /\ Len(t) <= Len(StreamOf(c))
          /\ \A k \in 1 .. Len(t) : t[k] = StreamOf(c)[k]
      BY <3>1, LastLost DEF StreamOf
    <3> HIDE DEF t
    <3>3. InPlace(sent[c], cutAt[c], Base(c), StreamOf(c))
      BY DEF StreamInv, ConnInv
    <3>4. InPlace(sent[c], cutAt[c], Base(c), t)
      BY <3>2, <3>3, ShorterInPlace
    <3>5. /\ sent'[c] = sent[c] /\ cutAt'[c] = cutAt[c] /\ ~ open'[c]
           /\ wire'[c] = SubSeq(wire[c], 1, n) /\ input'[c] = input[c]
      BY <1>2 DEF Stop, cli, FrameInv
    <3>6. StreamOf(c)' = t /\ Base(c)' = Base(c)
      BY <1>1, <3>5 DEF StreamOf, Base, t
    <3>7. NumRead(c) \in 0 .. Len(sent[c]) /\ (cutAt[c] # 0 => NumRead(c) < cutAt[c])
      BY DEF StreamInv, ConnInv
    <3> QED
      BY <1>1, <2>2, <3>4, <3>5, <3>6, <3>7 DEF ConnInv
  <2> QED
    BY <2>1, <2>2
<1> QED
  BY <1>1, <1>3 DEF StreamInv

\* Reading moves bytes from the socket to the buffer.
LEMMA ReadFromSocket ==
    ASSUME FrameInv, StreamInv, NEW c \in Conns, OnRecvValue(c)
    PROVE  StreamInv' /\ Received' = Received
<1>1. Received' = Received /\ (\A d : NumRead(d)' = NumRead(d)) /\ SubmittedInv'
  BY NothingSubmitted DEF StreamInv, OnRecvValue, ctl
<1>2. PICK n \in 1 .. Len(wire[c]) :
            /\ input' = [input EXCEPT ![c] = @ \o SubSeq(wire[c], 1, n)]
            /\ wire' = [wire EXCEPT ![c] = SubSeq(@, n + 1, Len(@))]
  BY DEF OnRecvValue
<1>3. ASSUME NEW d \in Conns PROVE ConnInv(d)'
  <2>1. CASE d # c
    <3>1. /\ sent'[d] = sent[d] /\ sending'[d] = sending[d] /\ cutAt'[d] = cutAt[d]
          /\ open'[d] = open[d] /\ input'[d] = input[d] /\ wire'[d] = wire[d]
      BY <1>2, <2>1 DEF OnRecvValue, ctl, FrameInv
    <3> QED
      BY <1>1, <3>1, ConnKept DEF StreamInv
  <2>2. CASE d = c
    <3> DEFINE p == SubSeq(wire[c], 1, n)
               r == SubSeq(wire[c], n + 1, Len(wire[c]))
    <3>1. input[c] \in Seq(Byte) /\ wire[c] \in Seq(Byte)
      BY DEF FrameInv
    <3>2. n \in 0 .. Len(wire[c]) /\ n \in Nat /\ n + 1 \in Nat \ {0}
          /\ Len(wire[c]) \in 0 .. Len(wire[c])
      BY <3>1, LenProperties
    <3>3. p \in Seq(Byte) /\ r \in Seq(Byte) /\ p \o r = wire[c]
      BY <3>1, <3>2, PartType, TwoParts
    <3>4. input'[c] = input[c] \o p /\ wire'[c] = r
      BY <1>2 DEF FrameInv
    <3> HIDE DEF p, r
    <3>5. input[c] \o (p \o r) = (input[c] \o p) \o r
      BY <3>1, <3>3, ConcatBytes
    <3>6. StreamOf(c)' = StreamOf(c)
      BY <3>3, <3>4, <3>5 DEF StreamOf
    <3>7. /\ sent'[c] = sent[c] /\ sending'[c] = sending[c] /\ cutAt'[c] = cutAt[c]
          /\ open'[c] = open[c]
      BY DEF OnRecvValue, ctl
    <3> QED
      BY <1>1, <2>2, <3>6, <3>7, SameStream DEF StreamInv
  <2> QED
    BY <2>1, <2>2
<1> QED
  BY <1>1, <1>3 DEF StreamInv

LEMMA Freed ==
    ASSUME FrameInv, StreamInv, NEW c \in Conns, OnAcceptEof(c)
    PROVE  StreamInv' /\ Received' = Received
<1>1. Received' = Received /\ (\A d : NumRead(d)' = NumRead(d)) /\ SubmittedInv'
  BY NothingSubmitted DEF StreamInv, OnAcceptEof, ctl
<1>2. ASSUME NEW d \in Conns PROVE ConnInv(d)'
  <2>1. CASE d # c
    <3>1. /\ sent'[d] = sent[d] /\ sending'[d] = sending[d] /\ cutAt'[d] = cutAt[d]
          /\ open'[d] = open[d] /\ input'[d] = input[d] /\ wire'[d] = wire[d]
      BY <2>1 DEF OnAcceptEof, ctl, FrameInv
    <3> QED
      BY <1>1, <3>1, ConnKept DEF StreamInv
  <2>2. CASE d = c
    <3>1. /\ sent'[c] = sent[c] /\ cutAt'[c] = cutAt[c] /\ ~ open'[c]
          /\ wire'[c] = <<>> /\ input'[c] = <<>>
      BY DEF OnAcceptEof, ctl, FrameInv
    <3>2. Len(StreamOf(c)') = 0
      BY <3>1 DEF StreamOf
    <3>3. \A k \in 1 .. Len(StreamOf(c)') : FALSE
      BY <3>2
    <3>4. InPlace(sent[c], cutAt[c], Base(c)', StreamOf(c)')
      BY <3>3 DEF InPlace
    <3>5. NumRead(c) \in 0 .. Len(sent[c]) /\ (cutAt[c] # 0 => NumRead(c) < cutAt[c])
      BY DEF StreamInv, ConnInv
    <3> QED
      BY <1>1, <2>2, <3>1, <3>4, <3>5 DEF ConnInv
  <2> QED
    BY <2>1, <2>2
<1> QED
  BY <1>1, <1>2 DEF StreamInv

\* Neither the stream nor what was submitted changes.
LEMMA NothingMoved ==
    ASSUME FrameInv, StreamInv, UNCHANGED <<ctl, wire, input, submitted>>
    PROVE  StreamInv' /\ Received' = Received
<1>1. Received' = Received /\ (\A d : NumRead(d)' = NumRead(d)) /\ SubmittedInv'
  BY NothingSubmitted DEF StreamInv, ctl
<1>2. ASSUME NEW d \in Conns PROVE ConnInv(d)'
  <2>1. /\ sent'[d] = sent[d] /\ sending'[d] = sending[d] /\ cutAt'[d] = cutAt[d]
        /\ open'[d] = open[d] /\ input'[d] = input[d] /\ wire'[d] = wire[d]
    BY DEF ctl
  <2> QED
    BY <1>1, <2>1, ConnKept DEF StreamInv
<1> QED
  BY <1>1, <1>2 DEF StreamInv

-----------------------------------------------------------------------------
(* A value is submitted. *)

Of(R, d) == { j \in DOMAIN R : R[j].conn = d }

LEMMA CountOneMore ==
    ASSUME NEW R \in Seq(Submission), NEW e \in Submission, NEW d
    PROVE  Cardinality(Of(Append(R, e), d))
              = Cardinality(Of(R, d)) + (IF e.conn = d THEN 1 ELSE 0)
<1> DEFINE m == Len(R)
           more == Append(R, e)
           A == Of(R, d)
           B == Of(more, d)
<1>1. /\ m \in Nat /\ DOMAIN R = 1 .. m /\ DOMAIN more = 1 .. m + 1
      /\ more[m + 1] = e /\ \A j \in 1 .. m : more[j] = R[j]
  BY LenProperties
<1> HIDE DEF more, m
<1>2. A \subseteq 1 .. m /\ m + 1 \notin A
  BY <1>1 DEF Of
<1>3. IsFiniteSet(A)
  <2>1. IsFiniteSet(1 .. m)
    BY <1>1, FS_Interval
  <2> QED
    BY <1>2, <2>1, FS_Subset
<1>4. \A j : j \in 1 .. m + 1 <=> j \in 1 .. m \/ j = m + 1
  BY <1>1
<1>5. B = IF e.conn = d THEN A \cup {m + 1} ELSE A
  BY <1>1, <1>2, <1>4 DEF Of
<1>6. Cardinality(A) \in Nat
  BY <1>3, FS_CardinalityType
<1> HIDE DEF A, B
<1>7. Cardinality(B) = Cardinality(A) + (IF e.conn = d THEN 1 ELSE 0)
  <2>1. Cardinality(A \cup {m + 1}) = Cardinality(A) + 1
    BY <1>2, <1>3, FS_AddElement
  <2> QED
    BY <1>5, <1>6, <2>1
<1> QED
  BY <1>7 DEF A, B, more

LEMMA ReceivedType == SubmittedInv => Received \in Seq(Submission)
BY ElementsAtType DEF SubmittedInv, Received

LEMMA OneMoreSubmitted ==
    ASSUME SubmittedInv, NEW e \in Submission, submitted' = Append(submitted, e), cutAt' = cutAt
    PROVE  /\ BeforeACut(e) => /\ Received' = Append(Received, e)
                               /\ \A d : NumRead(d)' = NumRead(d) + (IF e.conn = d THEN 1 ELSE 0)
           /\ ~ BeforeACut(e) => Received' = Received /\ \A d : NumRead(d)' = NumRead(d)
<1> DEFINE n == Len(submitted)
           T == { j \in DOMAIN submitted : BeforeACut(submitted[j]) }
           U == { j \in DOMAIN submitted' : BeforeACut(submitted[j])' }
<1>1. /\ submitted \in Seq(Submission) /\ n \in Nat /\ DOMAIN submitted = 1 .. n
      /\ DOMAIN submitted' = 1 .. n + 1 /\ submitted'[n + 1] = e
      /\ \A j \in 1 .. n : submitted'[j] = submitted[j]
  BY LenProperties DEF SubmittedInv
<1>2. T \subseteq 1 .. n
  BY <1>1
<1>3. \A j \in 1 .. n : BeforeACut(submitted[j])' <=> BeforeACut(submitted[j])
  BY <1>1 DEF BeforeACut, WholeUpTo
<1>4. \A j : j \in 1 .. n + 1 <=> j \in 1 .. n \/ j = n + 1
  BY <1>1
<1>5. ASSUME NEW j PROVE j \in U <=> j \in T \/ (j = n + 1 /\ BeforeACut(e))
  <2>1. CASE j \in 1 .. n
    BY <1>1, <1>3, <1>4, <2>1
  <2>2. CASE j = n + 1
    <3>1. j \in DOMAIN submitted' /\ j \notin T
      BY <1>1, <2>2
    <3>2. BeforeACut(submitted[j])' <=> BeforeACut(e)
      BY <1>1, <2>2 DEF BeforeACut, WholeUpTo
    <3> QED
      BY <2>2, <3>1, <3>2
  <2>3. CASE j \notin 1 .. n /\ j # n + 1
    BY <1>1, <1>4, <2>3
  <2> QED
    BY <2>1, <2>2, <2>3
<1>6. Received = ElementsAt(submitted, T) /\ Received' = ElementsAt(Append(submitted, e), U)
  BY DEF Received
<1> HIDE DEF T, U
<1>7. /\ ElementsAt(Append(submitted, e), T) = Received
      /\ ElementsAt(Append(submitted, e), T \cup {n + 1}) = Append(Received, e)
  <2>1. submitted \in Seq(Submission) /\ T \subseteq 1 .. Len(submitted)
    BY <1>1, <1>2
  <2>2. /\ ElementsAt(Append(submitted, e), T) = ElementsAt(submitted, T)
        /\ ElementsAt(Append(submitted, e), T \cup {Len(submitted) + 1})
              = Append(ElementsAt(submitted, T), e)
    BY ONLY <2>1, e \in Submission, OneElementMore
  <2> QED
    BY <1>6, <2>2
<1>8. CASE BeforeACut(e)
  <2>1. U = T \cup {n + 1}
    BY <1>5, <1>8
  <2>2. Received' = Append(Received, e)
    BY <1>6, <1>7, <2>1
  <2>3. ASSUME NEW d PROVE NumRead(d)' = NumRead(d) + (IF e.conn = d THEN 1 ELSE 0)
    <3>1. Received \in Seq(Submission)
      BY ReceivedType
    <3>2. /\ NumRead(d) = Cardinality(Of(Received, d))
          /\ NumRead(d)' = Cardinality(Of(Received', d))
      BY SameCardinality DEF NumRead, Stream!NumReceived, Of
    <3> QED
      BY <2>2, <3>1, <3>2, CountOneMore
  <2> QED
    BY <1>8, <2>2, <2>3
<1>9. CASE ~ BeforeACut(e)
  <2>1. U = T
    BY <1>5, <1>9
  <2>2. Received' = Received
    BY <1>6, <1>7, <2>1
  <2>3. \A d : NumRead(d)' = NumRead(d)
    BY <2>2 DEF NumRead, Stream!NumReceived
  <2> QED
    BY <1>9, <2>2, <2>3
<1> QED
  BY <1>8, <1>9

\* The request at the front of the stream is the next one, or comes after a cut.
NextInFront(c, i, buf) ==
    /\ i \in 1 .. Len(sent[c]) /\ (cutAt[c] # 0 => i < cutAt[c])
    /\ \A k \in 1 .. Len(buf) : k <= HeaderSize + sent[c][i] => buf[k] = <<i, k>>

AfterACut(c, buf) == cutAt[c] # 0 /\ \A k \in 1 .. Len(buf) : buf[k][1] >= cutAt[c]

LEMMA FrontBytes ==
    ASSUME NEW buf \in Seq(Byte), NEW w \in Seq(Byte)
    PROVE  LET s == buf \o w
           IN  /\ \A k \in 1 .. Len(buf) : k \in 1 .. Len(s) /\ s[k] = buf[k]
               /\ Len(s) >= Len(buf) /\ Len(s) \in Nat /\ Len(buf) \in Nat
<1> DEFINE s == buf \o w
<1>1. Len(buf) \in Nat /\ Len(w) \in Nat
  BY LenProperties
<1>2. /\ Len(s) = Len(buf) + Len(w)
      /\ \A k \in 1 .. Len(buf) + Len(w) : s[k] = IF k <= Len(buf) THEN buf[k] ELSE w[k - Len(buf)]
  BY ConcatProperties
<1> HIDE DEF s
<1>3. \A k \in 1 .. Len(buf) : k \in 1 .. Len(buf) + Len(w) /\ k <= Len(buf)
  BY <1>1
<1> QED
  BY <1>1, <1>2, <1>3 DEF s

\* The buffer begins with the next request, or after a cut.
LEMMA FrontOfBuffer ==
    ASSUME FrameInv, StreamInv, NEW c \in Conns, Len(input[c]) >= 1
    PROVE  \/ /\ NextInFront(c, NumRead(c) + 1, input[c])
              /\ Ends(sent[c])[NumRead(c) + 1]
                    = Base(c) + HeaderSize + sent[c][NumRead(c) + 1]
           \/ AfterACut(c, input[c]) /\ Base(c) >= Ends(sent[c])[cutAt[c] - 1]
<1> DEFINE lens == sent[c]
           n == NumRead(c)
           s == StreamOf(c)
           cut == cutAt[c]
<1>1. /\ lens \in Seq(Sizes) /\ cut \in 0 .. Len(lens) /\ s \in Seq(BytesOf(lens))
      /\ input[c] \in Seq(Byte) /\ wire[c] \in Seq(Byte)
  BY StreamType DEF FrameInv
<1>2. /\ \A k \in 1 .. Len(input[c]) : k \in 1 .. Len(s) /\ s[k] = input[c][k]
      /\ Len(s) >= 1
  <2>1. /\ \A k \in 1 .. Len(input[c]) : k \in 1 .. Len(s) /\ s[k] = input[c][k]
        /\ Len(s) >= Len(input[c]) /\ Len(s) \in Nat /\ Len(input[c]) \in Nat
    BY <1>1, FrontBytes DEF StreamOf
  <2> QED
    BY <2>1
<1> HIDE DEF s
<1>3. n \in 0 .. Len(lens) /\ (cut # 0 => n < cut) /\ InPlace(lens, cut, Ends(lens)[n], s)
  <2>1. ConnInv(c)
    BY DEF StreamInv
  <2> QED
    BY <2>1 DEF ConnInv, Base, s
<1> HIDE DEF lens, n, cut
<1>4. \/ /\ n + 1 \in 1 .. Len(lens) /\ (cut # 0 => n + 1 < cut)
         /\ Ends(lens)[n + 1] = Ends(lens)[n] + HeaderSize + lens[n + 1]
         /\ \A k \in 1 .. Len(s) : k <= HeaderSize + lens[n + 1] => s[k] = <<n + 1, k>>
      \/ /\ cut # 0 /\ Ends(lens)[n] >= Ends(lens)[cut - 1]
         /\ \A k \in 1 .. Len(s) : s[k][1] >= cut
  <2>1. /\ lens \in Seq(Sizes) /\ cut \in 0 .. Len(lens) /\ n \in 0 .. Len(lens)
        /\ s \in Seq(BytesOf(lens))
    BY <1>1, <1>3
  <2>2. Len(s) >= 1 /\ InPlace(lens, cut, Ends(lens)[n], s) /\ (cut # 0 => n < cut)
    BY <1>2, <1>3
  <2> QED
    BY ONLY <2>1, <2>2, FrontInPlace
<1>5. CASE /\ n + 1 \in 1 .. Len(lens) /\ (cut # 0 => n + 1 < cut)
           /\ Ends(lens)[n + 1] = Ends(lens)[n] + HeaderSize + lens[n + 1]
           /\ \A k \in 1 .. Len(s) : k <= HeaderSize + lens[n + 1] => s[k] = <<n + 1, k>>
  <2>1. \A k \in 1 .. Len(input[c]) :
            k <= HeaderSize + lens[n + 1] => input[c][k] = <<n + 1, k>>
    BY <1>2, <1>5
  <2> QED
    BY <1>5, <2>1 DEF NextInFront, Base, lens, n, cut
<1>6. CASE /\ cut # 0 /\ Ends(lens)[n] >= Ends(lens)[cut - 1]
           /\ \A k \in 1 .. Len(s) : s[k][1] >= cut
  <2>1. \A k \in 1 .. Len(input[c]) : input[c][k][1] >= cut
    BY <1>2, <1>6
  <2> QED
    BY <1>6, <2>1 DEF AfterACut, Base, lens, n, cut
<1> QED
  BY <1>4, <1>5, <1>6

\* What the loop makes of the next request.
LEMMA NextParsed ==
    ASSUME FrameInv, trail = NoDigit, NEW c \in Conns, NEW i \in Nat, NEW buf \in Seq(Byte),
           NextInFront(c, i, buf), Len(buf) >= HeaderSize
    PROVE  /\ ParsedSize(c, buf) = sent[c][i] /\ sent[c][i] \in Nat \ {0}
           /\ Len(buf) >= HeaderSize + sent[c][i] =>
                 SubSeq(buf, HeaderSize + 1, HeaderSize + sent[c][i]) = Body(i, sent[c][i])
<1> DEFINE size == sent[c][i]
<1>1. /\ sent[c] \in Seq(Sizes) /\ i \in 1 .. Len(sent[c]) /\ size \in Nat \ {0}
      /\ Len(buf) \in Nat
  <2>1. sent[c] \in Seq(Sizes) /\ i \in 1 .. Len(sent[c])
    BY StreamType DEF NextInFront
  <2> QED
    BY <2>1, SizesPositive, LenProperties
<1>2. \A k \in 1 .. HeaderSize : buf[k] = <<i, k>>
  <2>1. \A k \in 1 .. HeaderSize : k \in 1 .. Len(buf) /\ k <= HeaderSize + size
    BY <1>1 DEF HeaderSize
  <2> QED
    BY <2>1 DEF NextInFront
<1>3. buf[1] = <<i, 1>> /\ buf[1][1] = i
  BY <1>2 DEF HeaderSize
<1>4. SubSeq(buf, 1, HeaderSize) = Header(i)
  <2>1. /\ Header(i) \in Seq(Byte) /\ Len(Header(i)) = HeaderSize
        /\ \A k \in 1 .. HeaderSize : Header(i)[k] = <<i, 0 + k>>
    BY <1>1, RequestParts
  <2>2. HeaderSize \in 0 .. Len(buf) /\ 1 \in Nat \ {0}
    BY <1>1 DEF HeaderSize
  <2>3. /\ SubSeq(buf, 1, HeaderSize) \in Seq(Byte)
        /\ Len(SubSeq(buf, 1, HeaderSize)) = IF 1 <= HeaderSize THEN HeaderSize - 1 + 1 ELSE 0
        /\ \A k \in 1 .. HeaderSize - 1 + 1 : SubSeq(buf, 1, HeaderSize)[k] = buf[1 + k - 1]
    BY <2>2, PartType
  <2>4. Len(SubSeq(buf, 1, HeaderSize)) = HeaderSize
    BY <2>3 DEF HeaderSize
  <2>5. ASSUME NEW k \in 1 .. HeaderSize PROVE SubSeq(buf, 1, HeaderSize)[k] = Header(i)[k]
    <3>1. k \in 1 .. HeaderSize - 1 + 1 /\ 1 + k - 1 = k /\ 0 + k = k
      BY DEF HeaderSize
    <3> QED
      BY <1>2, <2>1, <2>3, <3>1
  <2> QED
    BY <2>1, <2>3, <2>4, <2>5, SeqEqual
<1>5. ParsedSize(c, buf) = size
  BY <1>3, <1>4 DEF ParsedSize
<1>6. ASSUME Len(buf) >= HeaderSize + size
      PROVE  SubSeq(buf, HeaderSize + 1, HeaderSize + size) = Body(i, size)
  <2> DEFINE v == SubSeq(buf, HeaderSize + 1, HeaderSize + size)
             used == HeaderSize + size
  <2>1. /\ Body(i, size) \in Seq(Byte) /\ Len(Body(i, size)) = size
        /\ \A k \in 1 .. size : Body(i, size)[k] = <<i, HeaderSize + k>>
    BY <1>1, RequestParts
  <2>2. used \in 0 .. Len(buf) /\ HeaderSize + 1 \in Nat \ {0}
    BY <1>1, <1>6 DEF HeaderSize
  <2>3. /\ v \in Seq(Byte)
        /\ Len(v) = IF HeaderSize + 1 <= used THEN used - (HeaderSize + 1) + 1 ELSE 0
        /\ \A k \in 1 .. used - (HeaderSize + 1) + 1 : v[k] = buf[HeaderSize + 1 + k - 1]
    BY <2>2, PartType
  <2> HIDE DEF v
  <2>4. used - (HeaderSize + 1) + 1 = size /\ Len(v) = size
    BY <1>1, <2>3 DEF HeaderSize
  <2>5. ASSUME NEW k \in 1 .. size PROVE v[k] = Body(i, size)[k]
    <3>1. /\ k \in Nat /\ HeaderSize + 1 + k - 1 = HeaderSize + k
          /\ HeaderSize + k \in 1 .. Len(buf) /\ HeaderSize + k <= HeaderSize + size
      BY <1>1, <1>6 DEF HeaderSize
    <3>2. buf[HeaderSize + k] = <<i, HeaderSize + k>>
      BY <3>1 DEF NextInFront
    <3> QED
      BY <2>1, <2>3, <2>4, <3>1, <3>2
  <2>6. v = Body(i, size)
    BY <2>1, <2>3, <2>4, <2>5, SeqEqual
  <2> QED
    BY <2>6 DEF v
<1> QED
  BY <1>1, <1>5, <1>6

\* A value was submitted, the next request or one that comes after a cut.
LEMMA TakenInPlace ==
    ASSUME FrameInv, NEW c \in Conns, ConnInv(c), NEW used \in 0 .. Len(input[c]), NEW n,
           UNCHANGED ctl, wire' = wire, input'[c] = SubSeq(input[c], used + 1, Len(input[c])),
           NumRead(c)' = n,
           \/ /\ n = NumRead(c) + 1 /\ n \in 1 .. Len(sent[c]) /\ (cutAt[c] # 0 => n < cutAt[c])
              /\ Ends(sent[c])[n] = Base(c) + used
           \/ n = NumRead(c) /\ cutAt[c] # 0 /\ Base(c) >= Ends(sent[c])[cutAt[c] - 1]
    PROVE  ConnInv(c)'
<1> DEFINE lens == sent[c]
           cut == cutAt[c]
           s == StreamOf(c)
           t == SubSeq(input[c], used + 1, Len(input[c])) \o wire[c]
           base == Base(c)
           next == Ends(lens)[n]
<1>1. /\ input[c] \in Seq(Byte) /\ wire[c] \in Seq(Byte) /\ lens \in Seq(Sizes)
      /\ cut \in 0 .. Len(lens) /\ Len(lens) \in Nat
  BY StreamType DEF FrameInv
<1>2. /\ t \in Seq(Byte) /\ s \in Seq(Byte) /\ Len(s) = used + Len(t)
      /\ \A k \in 1 .. Len(t) : t[k] = s[used + k]
  BY <1>1, TakenFromFront DEF StreamOf
<1>3. /\ sent'[c] = lens /\ sending'[c] = sending[c] /\ open'[c] = open[c] /\ cutAt'[c] = cut
      /\ StreamOf(c)' = t /\ Base(c)' = next
  BY DEF ctl, StreamOf, Base
<1> HIDE DEF t, s
<1>4. /\ NumRead(c) \in 0 .. Len(lens) /\ (cut # 0 => NumRead(c) < cut)
      /\ InPlace(lens, cut, base, s)
      /\ open[c] => IF cut = 0 THEN base + Len(s) = Written(lens, sending[c])
                    ELSE base + Len(s) >= Ends(lens)[cut - 1]
  BY DEF ConnInv, s
<1>5. n \in 0 .. Len(lens) /\ (cut # 0 => n < cut)
  BY <1>1, <1>4
<1>6. base \in Nat /\ next \in Nat /\ used \in Nat /\ Len(s) \in Nat /\ Len(t) \in Nat
      /\ (cut # 0 => Ends(lens)[cut - 1] \in Nat)
  <2>1. base = Ends(lens)[NumRead(c)]
    BY DEF Base
  <2>2. cut # 0 => cut - 1 \in 0 .. Len(lens)
    BY <1>1
  <2>3. used \in Nat /\ Len(s) \in Nat /\ Len(t) \in Nat
    BY <1>1, <1>2, LenProperties
  <2> QED
    BY <1>1, <1>4, <1>5, <2>1, <2>2, <2>3, EndsSteps
<1>7. next = base + used \/ (cut # 0 /\ base >= Ends(lens)[cut - 1] /\ next = base)
  BY DEF Base
<1> HIDE DEF lens, cut, base, next
<1>8. InPlace(lens, cut, next, t)
  <2>1. /\ lens \in Seq(Sizes) /\ cut \in 0 .. Len(lens) /\ base \in Nat /\ next \in Nat
        /\ s \in Seq(Byte) /\ t \in Seq(Byte) /\ used \in Nat
    BY <1>1, <1>2, <1>6
  <2>2. /\ Len(s) = used + Len(t) /\ \A k \in 1 .. Len(t) : t[k] = s[used + k]
        /\ InPlace(lens, cut, base, s)
    BY <1>2, <1>4
  <2> QED
    BY ONLY <1>7, <2>1, <2>2, RestInPlace
<1>9. open[c] => IF cut = 0 THEN next + Len(t) = Written(lens, sending[c])
                 ELSE next + Len(t) >= Ends(lens)[cut - 1]
  <2>1. Len(s) = used + Len(t)
    BY <1>2
  <2>2. CASE next = base + used
    <3>1. next + Len(t) = base + Len(s)
      BY ONLY <1>6, <2>1, <2>2
    <3> QED
      BY <1>4, <3>1
  <2>3. CASE cut # 0 /\ base >= Ends(lens)[cut - 1] /\ next = base
    <3>1. next + Len(t) >= Ends(lens)[cut - 1]
      BY ONLY <1>6, <2>3
    <3> QED
      BY <2>3, <3>1
  <2> QED
    BY <1>7, <2>2, <2>3
<1> QED
  BY <1>3, <1>5, <1>8, <1>9 DEF ConnInv, lens, cut

Request(c, i) == [conn |-> c, value |-> Body(i, sent[c][i])]

OneReceived ==
    \E c \in Conns : /\ NumRead(c) < Len(sent[c])
                     /\ Received' = Append(Received, Request(c, NumRead(c) + 1))

LEMMA FirstOfSeq ==
    ASSUME NEW S, NEW q \in Seq(S), q # <<>>
    PROVE  1 \in 1 .. Len(q) /\ q[1] \in S
<1>1. Len(q) \in Nat \ {0}
  BY EmptySeq
<1>2. 1 \in 1 .. Len(q)
  BY <1>1
<1> QED
  BY <1>2, ElementOfSeq

\* The values submitted are as they were, but for the last one.
LEMMA SubmittedLonger ==
    ASSUME SubmittedInv, NEW e \in Submission, submitted' = Append(submitted, e), cutAt' = cutAt,
           \A d \in Conns : NumRead(d) \in Nat /\ NumRead(d)' \in Nat /\ NumRead(d) <= NumRead(d)',
           NEW c \in Conns, e.conn = c,
           e.value # <<>> =>
              \/ e.value[1][1] <= NumRead(c)'
              \/ cutAt[c] # 0 /\ e.value[1][1] >= cutAt[c]
    PROVE  SubmittedInv'
<1> DEFINE n == Len(submitted)
<1>1. /\ submitted \in Seq(Submission) /\ n \in Nat /\ DOMAIN submitted = 1 .. n
      /\ DOMAIN submitted' = 1 .. n + 1 /\ submitted'[n + 1] = e
      /\ \A j \in 1 .. n : submitted'[j] = submitted[j]
      /\ submitted' \in Seq(Submission)
  BY LenProperties DEF SubmittedInv
<1>2. ASSUME NEW j \in 1 .. n + 1
      PROVE  submitted'[j].value # <<>> =>
                \/ submitted'[j].value[1][1] <= NumRead(submitted[j].conn)'
                \/ /\ cutAt'[submitted'[j].conn] # 0
                   /\ submitted'[j].value[1][1] >= cutAt'[submitted'[j].conn]
  <2>1. PICK v, d : v = submitted'[j] /\ d = v.conn
    OBVIOUS
  <2>2. v \in Submission /\ d \in Conns /\ v.value \in Seq(Byte)
    <3>1. v \in Submission
      BY <1>1, <2>1, ElementOfSeq, LenProperties
    <3> QED
      BY <2>1, <3>1 DEF Submission
  <2>3. v.value # <<>> =>
           \/ v.value[1][1] <= NumRead(d)'
           \/ cutAt[d] # 0 /\ v.value[1][1] >= cutAt[d]
    <3>1. CASE j \in 1 .. n
      <4> SUFFICES ASSUME v.value # <<>>
                   PROVE  \/ v.value[1][1] <= NumRead(d)'
                          \/ cutAt[d] # 0 /\ v.value[1][1] >= cutAt[d]
        OBVIOUS
      <4>1. v = submitted[j]
        BY <1>1, <2>1, <3>1
      <4>2. \/ v.value[1][1] <= NumRead(d)
            \/ cutAt[d] # 0 /\ v.value[1][1] >= cutAt[d]
        BY <1>1, <2>1, <3>1, <4>1 DEF SubmittedInv
      <4>3. v.value[1][1] \in Nat
        <5>1. v.value[1] \in Byte
          BY <2>2, FirstOfSeq
        <5> QED
          BY <5>1 DEF Byte
      <4>4. NumRead(d) \in Nat /\ NumRead(d)' \in Nat /\ NumRead(d) <= NumRead(d)'
        BY <2>2
      <4> QED
        BY <4>2, <4>3, <4>4
    <3>2. CASE j = n + 1
      BY <1>1, <2>1, <3>2
    <3> QED
      BY <1>1, <3>1, <3>2
  <2>4. submitted'[j].conn = d /\ submitted'[j].value = v.value
    BY <2>1
  <2>5. NumRead(submitted[j].conn)' = NumRead(d)'
    BY <2>4 DEF NumRead, Stream!NumReceived
  <2> QED
    BY <2>3, <2>4, <2>5
<1> HIDE DEF n
<1>3. \A j \in DOMAIN submitted' :
         submitted'[j].value # <<>> =>
            \/ submitted'[j].value[1][1] <= NumRead(submitted[j].conn)'
            \/ /\ cutAt'[submitted'[j].conn] # 0
               /\ submitted'[j].value[1][1] >= cutAt'[submitted'[j].conn]
  BY <1>1, <1>2
<1> QED
  BY <1>1, <1>3 DEF SubmittedInv

\* The loop submits the next request, or something behind a cut.
LEMMA ValueSubmitted ==
    ASSUME FrameInv, StreamInv, trail = NoDigit, NEW c \in Conns, UNCHANGED <<ctl, wire>>,
           NEW buf, buf = input[c], NEW size \in Nat, size = ParsedSize(c, buf),
           NEW used \in 0 .. Len(buf), used = HeaderSize + size,
           NEW v, v = SubSeq(buf, HeaderSize + 1, used), NEW e, e = [conn |-> c, value |-> v],
           input' = [input EXCEPT ![c] = SubSeq(buf, used + 1, Len(buf))],
           submitted' = Append(submitted, e)
    PROVE  StreamInv' /\ (Received' = Received \/ OneReceived)
<1>0. PICK n, cut : n = NumRead(c) /\ cut = cutAt[c]
  OBVIOUS
<1>1. /\ buf \in Seq(Byte) /\ Len(buf) \in Nat /\ used \in Nat
      /\ Len(buf) >= used /\ Len(buf) >= HeaderSize /\ Len(buf) >= 1
  <2>1. buf \in Seq(Byte)
    BY DEF FrameInv
  <2>2. Len(buf) \in Nat
    BY <2>1, LenProperties
  <2> QED
    BY <2>1, <2>2 DEF HeaderSize
<1>2. /\ v \in Seq(Byte) /\ Len(v) = size
      /\ \A k \in 1 .. size : v[k] = buf[HeaderSize + k]
  <2>1. HeaderSize + 1 \in Nat \ {0}
    BY DEF HeaderSize
  <2>2. /\ v \in Seq(Byte)
        /\ Len(v) = IF HeaderSize + 1 <= used THEN used - (HeaderSize + 1) + 1 ELSE 0
        /\ \A k \in 1 .. used - (HeaderSize + 1) + 1 : v[k] = buf[HeaderSize + 1 + k - 1]
    BY ONLY v = SubSeq(buf, HeaderSize + 1, used), used \in 0 .. Len(buf), <1>1, <2>1, PartType
  <2>3. used - (HeaderSize + 1) + 1 = size /\ Len(v) = size
    BY <2>2 DEF HeaderSize
  <2>4. \A k \in 1 .. size : HeaderSize + 1 + k - 1 = HeaderSize + k
    BY DEF HeaderSize
  <2> QED
    BY <2>2, <2>3, <2>4
<1>3. e.conn = c /\ e.value = v /\ e \in Submission
  BY <1>2 DEF Submission
<1>4. /\ ConnInv(c) /\ SubmittedInv /\ cutAt' = cutAt /\ wire' = wire /\ sent' = sent
      /\ sent[c] \in Seq(Sizes) /\ cut \in Nat
      /\ input'[c] = SubSeq(buf, used + 1, Len(buf))
      /\ \A d \in Conns : d # c => input'[d] = input[d]
  BY <1>0 DEF StreamInv, ctl, FrameInv
<1>5. /\ BeforeACut(e) => /\ Received' = Append(Received, e)
                          /\ \A d : NumRead(d)' = NumRead(d) + (IF e.conn = d THEN 1 ELSE 0)
      /\ ~ BeforeACut(e) => Received' = Received /\ \A d : NumRead(d)' = NumRead(d)
  BY <1>3, <1>4, OneMoreSubmitted
<1>6. n \in Nat /\ \A d \in Conns : NumRead(d) \in Nat
  <2>1. ASSUME NEW d \in Conns PROVE NumRead(d) \in Nat
    <3>1. NumRead(d) \in 0 .. Len(sent[d])
      BY DEF StreamInv, ConnInv
    <3> QED
      BY <3>1
  <2> QED
    BY <1>0, <2>1
<1>7. ASSUME NEW d \in Conns, d # c, NumRead(d)' = NumRead(d) PROVE ConnInv(d)'
  <2>1. /\ sent'[d] = sent[d] /\ sending'[d] = sending[d] /\ cutAt'[d] = cutAt[d]
        /\ open'[d] = open[d] /\ input'[d] = input[d] /\ wire'[d] = wire[d]
    BY <1>4, <1>7 DEF ctl
  <2> QED
    BY <1>7, <2>1, ConnKept DEF StreamInv
<1>8. Base(c) \in Nat /\ Base(c) = Ends(sent[c])[n]
  <2>1. n \in 0 .. Len(sent[c])
    BY <1>0, <1>4 DEF ConnInv
  <2> QED
    BY <1>0, <1>4, <2>1, EndsSteps DEF Base
<1>9. CASE /\ NextInFront(c, n + 1, buf)
           /\ Ends(sent[c])[n + 1] = Base(c) + HeaderSize + sent[c][n + 1]
  <2>1. size = sent[c][n + 1] /\ size \in Nat \ {0} /\ v = Body(n + 1, size)
    <3>1. n + 1 \in Nat
      BY <1>6
    <3>2. /\ ParsedSize(c, buf) = sent[c][n + 1] /\ sent[c][n + 1] \in Nat \ {0}
          /\ Len(buf) >= HeaderSize + sent[c][n + 1] =>
                SubSeq(buf, HeaderSize + 1, HeaderSize + sent[c][n + 1]) = Body(n + 1, sent[c][n + 1])
      BY <1>1, <1>9, <3>1, NextParsed
    <3> QED
      BY <1>1, <3>2
  <2>2. n + 1 \in 1 .. Len(sent[c]) /\ (cut # 0 => n + 1 < cut)
    BY <1>0, <1>9 DEF NextInFront
  <2>3. v # <<>> /\ v[1][1] = n + 1
    <3>1. \A k \in 1 .. sent[c][n + 1] : Body(n + 1, sent[c][n + 1])[k] = <<n + 1, HeaderSize + k>>
      BY <1>4, <2>2, RequestParts
    <3>2. 1 \in 1 .. size
      BY <2>1
    <3>3. v[1] = <<n + 1, HeaderSize + 1>>
      BY <2>1, <3>1, <3>2
    <3>4. v[1][1] = n + 1
      BY ONLY <3>3
    <3>5. v # <<>>
      <4>1. Len(<<>>) = 0 /\ Len(v) = size /\ size # 0
        BY <1>2, <2>1
      <4> QED
        BY ONLY <4>1
    <3> QED
      BY <3>4, <3>5
  <2>4. BeforeACut(e)
    BY <1>0, <1>3, <2>2, <2>3 DEF BeforeACut, WholeUpTo
  <2>5. /\ Received' = Append(Received, e) /\ NumRead(c)' = n + 1
        /\ \A d \in Conns : d # c => NumRead(d)' = NumRead(d)
    <3>1. \A d \in Conns : d # c => NumRead(d)' = NumRead(d) + 0
      BY <1>3, <1>5, <2>4
    <3> QED
      BY <1>0, <1>3, <1>5, <1>6, <2>4, <3>1
  <2>6. ConnInv(c)'
    <3>1. Ends(sent[c])[n + 1] = Base(c) + used
      BY ONLY <1>8, <1>9, <2>1, size \in Nat, used = HeaderSize + size DEF HeaderSize
    <3> DEFINE m == n + 1
    <3>2. m = NumRead(c) + 1 /\ NumRead(c)' = m
      BY <1>0, <2>5
    <3> HIDE DEF m
    <3> QED
      BY <1>0, <1>4, <2>2, <3>1, <3>2, TakenInPlace DEF m
  <2>7. SubmittedInv'
    <3>1. \A d \in Conns : NumRead(d) \in Nat /\ NumRead(d)' \in Nat /\ NumRead(d) <= NumRead(d)'
      <4>1. ASSUME NEW d \in Conns PROVE NumRead(d)' \in Nat /\ NumRead(d) <= NumRead(d)'
        <5>1. NumRead(d)' = NumRead(d) \/ NumRead(d)' = NumRead(d) + 1
          BY <1>0, <2>5
        <5>2. NumRead(d) \in Nat
          BY <1>6
        <5> QED
          BY <5>1, <5>2
      <4> QED
        BY <1>6, <4>1
    <3>2. e.value[1][1] <= NumRead(c)'
      <4>1. e.value[1][1] = n + 1 /\ NumRead(c)' = n + 1
        BY <1>3, <2>3, <2>5
      <4> QED
        BY ONLY <1>6, <4>1
    <3> QED
      BY <1>3, <1>4, <3>1, <3>2, SubmittedLonger
  <2>8. \A d \in Conns : ConnInv(d)'
    BY <1>7, <2>5, <2>6
  <2>9. OneReceived
    <3>1. n < Len(sent[c])
      BY <1>4, <1>6, <2>2, LenProperties
    <3>2. e = Request(c, n + 1)
      BY <2>1 DEF Request
    <3> QED
      BY <1>0, <2>5, <3>1, <3>2 DEF OneReceived
  <2> QED
    BY <2>7, <2>8, <2>9 DEF StreamInv
<1>10. CASE AfterACut(c, buf) /\ Base(c) >= Ends(sent[c])[cut - 1]
  <2>1. v # <<>> => v[1][1] \in Nat /\ v[1][1] >= cut
    <3> SUFFICES ASSUME v # <<>> PROVE v[1][1] \in Nat /\ v[1][1] >= cut
      OBVIOUS
    <3>1. 1 \in 1 .. Len(v) /\ v[1] \in Byte
      BY <1>2, FirstOfSeq
    <3>2. 1 \in 1 .. size
      BY <1>2, <3>1
    <3>3. v[1] = buf[HeaderSize + 1] /\ HeaderSize + 1 <= used
      BY <1>2, <3>2 DEF HeaderSize
    <3>4. HeaderSize + 1 \in 1 .. Len(buf)
      BY <1>1, <3>3 DEF HeaderSize
    <3>5. v[1][1] >= cut
      BY <1>0, <1>10, <3>3, <3>4 DEF AfterACut
    <3> QED
      BY <3>1, <3>5 DEF Byte
  <2>2. cut # 0
    BY <1>0, <1>10 DEF AfterACut
  <2>3. ~ BeforeACut(e)
    <3>1. \A x, y \in Nat : x >= y => ~ (x < y)
      OBVIOUS
    <3>2. v # <<>> => ~ (v[1][1] < cut)
      BY <1>4, <2>1, <3>1
    <3> QED
      BY <1>0, <1>3, <2>2, <3>2 DEF BeforeACut, WholeUpTo
  <2>4. Received' = Received /\ \A d : NumRead(d)' = NumRead(d)
    BY <1>5, <2>3
  <2>5. ConnInv(c)'
    <3>1. n = NumRead(c) /\ NumRead(c)' = n /\ cutAt[c] # 0
          /\ Base(c) >= Ends(sent[c])[cutAt[c] - 1]
      BY <1>0, <1>10, <2>2, <2>4
    <3> QED
      BY <1>4, <3>1, TakenInPlace
  <2>6. SubmittedInv'
    <3>1. \A d \in Conns : NumRead(d) \in Nat /\ NumRead(d)' \in Nat /\ NumRead(d) <= NumRead(d)'
      BY <1>6, <2>4
    <3>2. e.value # <<>> => cutAt[c] # 0 /\ e.value[1][1] >= cutAt[c]
      BY <1>0, <1>3, <2>1, <2>2
    <3> QED
      BY <1>3, <1>4, <3>1, <3>2, SubmittedLonger
  <2>7. \A d \in Conns : ConnInv(d)'
    BY <1>7, <2>4, <2>5
  <2> QED
    BY <2>4, <2>6, <2>7 DEF StreamInv
<1> QED
  BY <1>0, <1>1, <1>9, <1>10, FrontOfBuffer

\* One turn of the loop of extract_data().
LEMMA Extracted ==
    ASSUME FrameInv, LenWithinBuffer, HeldInv, StreamInv, ExtractData
    PROVE  StreamInv' /\ (Received' = Received \/ OneReceived)
<1>1. current # NoConn /\ len >= HeaderSize /\ len <= Len(input[current]) /\ trail = NoDigit
  BY DEF ExtractData, LenWithinBuffer, HeldInv
<1>2. PICK c \in Conns : c = current
  BY <1>1 DEF FrameInv
<1> DEFINE buf == input[c]
           size == ParsedSize(c, buf)
           used == HeaderSize + size
           v == SubSeq(buf, HeaderSize + 1, used)
           e == [conn |-> c, value |-> v]
<1>3. Len(buf) \in Nat /\ size \in Nat /\ len \in Nat /\ len <= Len(buf)
  BY <1>1, <1>2, FrontType DEF FrameInv
<1>4. CASE ~ WholeIn(len - HeaderSize, size)
  <2>1. UNCHANGED <<ctl, wire, submitted>> /\ input' = [input EXCEPT ![c] = input[c]]
    BY <1>2, <1>4 DEF ExtractData, Undrained
  <2>2. input' = input
    BY <2>1 DEF FrameInv
  <2> QED
    BY <2>1, <2>2, NothingMoved
<1>5. CASE WholeIn(len - HeaderSize, size)
  <2>1. /\ UNCHANGED <<ctl, wire>> /\ submitted' = Append(submitted, e)
        /\ input' = [input EXCEPT ![c] = SubSeq(buf, used + 1, Len(buf))]
    BY <1>2, <1>5 DEF ExtractData
  <2> HIDE DEF buf
  <2>2. used \in 0 .. Len(buf)
    BY <1>1, <1>3, <1>5 DEF WholeIn, HeaderSize
  <2>3. buf = input[c] /\ size = ParsedSize(c, buf) /\ used = HeaderSize + size
        /\ v = SubSeq(buf, HeaderSize + 1, used) /\ e = [conn |-> c, value |-> v]
    BY DEF buf
  <2> HIDE DEF size, used, v, e
  <2> QED
    BY <1>1, <1>3, <2>1, <2>2, <2>3, ValueSubmitted
<1> QED
  BY <1>4, <1>5

-----------------------------------------------------------------------------
(***************************************************************************)
(* The refinement.                                                         *)
(***************************************************************************)
LEMMA StreamStep ==
    ASSUME FrameInv, LenWithinBuffer, HeldInv, StreamInv, [Next]_vars
    PROVE  StreamInv'
<1>1. CASE \E c \in Conns : SendSize(c)
  BY <1>1, SizeSent
<1>2. CASE \E c \in Conns : SendMessage(c)
  BY <1>2, MessageSent
<1>3. CASE \E c \in Conns : Stop(c)
  BY <1>3, Stopped
<1>4. CASE \E c \in Conns : OnRecvValue(c)
  BY <1>4, ReadFromSocket
<1>5. CASE \E c \in Conns : OnAcceptEof(c)
  BY <1>5, Freed
<1>6. CASE ExtractData
  BY <1>6, Extracted
<1>7. CASE ExtractDataReturn \/ UNCHANGED vars
  <2>1. UNCHANGED <<ctl, wire, input, submitted>>
    BY <1>7 DEF ExtractDataReturn, vars, ctl
  <2> QED
    BY <2>1, NothingMoved
<1> QED
  BY <1>1, <1>2, <1>3, <1>4, <1>5, <1>6, <1>7 DEF Next, ClientNext

MessagesOf(lens) == [i \in DOMAIN lens |-> Body(i, lens[i])]

LEMMA MessagesOfType ==
    ASSUME NEW lens \in Seq(Sizes)
    PROVE  /\ MessagesOf(lens) \in Seq(Seq(Byte)) /\ Len(MessagesOf(lens)) = Len(lens)
           /\ \A i \in 1 .. Len(lens) : MessagesOf(lens)[i] = Body(i, lens[i])
<1>1. Len(lens) \in Nat /\ DOMAIN lens = 1 .. Len(lens)
  BY LenProperties
<1>2. \A i \in 1 .. Len(lens) : Body(i, lens[i]) \in Seq(Byte)
  BY RequestParts
<1> QED
  BY <1>1, <1>2 DEF MessagesOf

LEMMA MessageAppended ==
    ASSUME NEW lens \in Seq(Sizes), NEW size \in Sizes
    PROVE  MessagesOf(Append(lens, size)) = Append(MessagesOf(lens), Body(Len(lens) + 1, size))
<1> DEFINE more == Append(lens, size)
           n == Len(lens)
           m == MessagesOf(lens)
           p == Body(n + 1, size)
<1>1. /\ more \in Seq(Sizes) /\ Len(more) = n + 1 /\ n \in Nat /\ more[n + 1] = size
      /\ \A i \in 1 .. n : more[i] = lens[i]
  BY LenProperties
<1> HIDE DEF more
<1>2. /\ MessagesOf(more) \in Seq(Seq(Byte)) /\ Len(MessagesOf(more)) = n + 1
      /\ \A i \in 1 .. n + 1 : MessagesOf(more)[i] = Body(i, more[i])
  BY <1>1, MessagesOfType
<1>3. m \in Seq(Seq(Byte)) /\ Len(m) = n /\ \A i \in 1 .. n : m[i] = Body(i, lens[i])
  BY MessagesOfType
<1>4. p \in Seq(Byte)
  <2>1. n + 1 \in 1 .. Len(more) /\ more[n + 1] = size
    BY <1>1
  <2> QED
    BY <1>1, <2>1, RequestParts
<1> HIDE DEF n, m, p
<1>5. /\ Append(m, p) \in Seq(Seq(Byte)) /\ Len(Append(m, p)) = n + 1
      /\ Append(m, p)[n + 1] = p /\ \A i \in 1 .. n : Append(m, p)[i] = m[i]
  BY <1>3, <1>4, AppendProperties
<1>6. ASSUME NEW i \in 1 .. n + 1 PROVE MessagesOf(more)[i] = Append(m, p)[i]
  <2>1. i \in 1 .. n \/ i = n + 1
    BY <1>1
  <2>2. CASE i \in 1 .. n
    BY <1>1, <1>2, <1>3, <1>5, <2>2
  <2>3. CASE i = n + 1
    BY <1>1, <1>2, <1>5, <2>3 DEF p
  <2> QED
    BY <2>1, <2>2, <2>3
<1>7. MessagesOf(more) = Append(m, p)
  BY <1>2, <1>5, <1>6, SeqEqual
<1> QED
  BY <1>7 DEF more, m, p, n

LEMMA MessagesAre == Messages = [c \in Conns |-> MessagesOf(sent[c])]
BY DEF Messages, MessagesOf

\* Initial states are initial states of RequestStream,
LEMMA RefinesInit == Init => Stream!Init
<1> SUFFICES ASSUME Init PROVE Stream!Init
  OBVIOUS
<1>1. Messages = [c \in Conns |-> <<>>]
  <2>1. ASSUME NEW c \in Conns PROVE MessagesOf(sent[c]) = <<>>
    BY DEF Init, MessagesOf
  <2> QED
    BY <2>1, MessagesAre
<1> QED
  BY <1>1, NothingYet DEF Stream!Init

\* and every step is one of its steps or a stutter.
LEMMA RefinesStep ==
    ASSUME FrameInv, LenWithinBuffer, HeldInv, StreamInv, [Next]_vars
    PROVE  [Stream!Next]_Stream!vars
<1>1. ASSUME sent' = sent PROVE Messages' = Messages
  BY <1>1 DEF Messages
<1>2. ASSUME Received' = Received, sent' = sent PROVE UNCHANGED Stream!vars
  BY <1>1, <1>2 DEF Stream!vars
<1>3. ASSUME NEW c \in Conns, SendSize(c) PROVE Stream!Write(c)
  <2>1. PICK size \in Sizes : sent' = [sent EXCEPT ![c] = Append(@, size)]
    BY <1>3 DEF SendSize
  <2> DEFINE p == Body(Len(sent[c]) + 1, size)
  <2>2. sent[c] \in Seq(Sizes) /\ Len(sent[c]) \in Nat /\ sent \in [Conns -> Seq(Sizes)]
    BY StreamType DEF FrameInv
  <2>3. p \in AllBodies
    <3>1. Len(sent[c]) + 1 \in 1 .. MaxRequests
      BY <1>3, <2>2, FramingAssumption DEF SendSize
    <3> QED
      BY <3>1 DEF AllBodies
  <2> HIDE DEF p
  <2>4. ASSUME NEW d \in Conns
        PROVE  MessagesOf(sent'[d]) = IF d = c THEN Append(MessagesOf(sent[c]), p)
                                      ELSE MessagesOf(sent[d])
    <3>1. CASE d = c
      <4>1. sent'[c] = Append(sent[c], size)
        BY <2>1, <2>2
      <4> QED
        BY <2>2, <3>1, <4>1, MessageAppended DEF p
    <3>2. CASE d # c
      BY <2>1, <2>2, <3>2
    <3> QED
      BY <3>1, <3>2
  <2>5. Messages' = [d \in Conns |-> MessagesOf(sent'[d])]
    BY DEF Messages, MessagesOf
  <2>6. Messages' = [Messages EXCEPT ![c] = Append(@, p)]
    BY <2>4, <2>5, MessagesAre
  <2>7. Received' = Received
    BY <1>3, SizeSent
  <2> QED
    BY <2>3, <2>6, <2>7 DEF Stream!Write
<1>4. ASSUME sent' = sent, OneReceived PROVE \E c \in Conns : Stream!Receive(c)
  <2>1. PICK c \in Conns : /\ NumRead(c) < Len(sent[c])
                           /\ Received' = Append(Received, Request(c, NumRead(c) + 1))
    BY <1>4 DEF OneReceived
  <2>2. sent[c] \in Seq(Sizes) /\ Len(sent[c]) \in Nat
    BY StreamType
  <2>3. NumRead(c) + 1 \in 1 .. Len(sent[c])
    <3>1. NumRead(c) \in 0 .. Len(sent[c])
      BY DEF StreamInv, ConnInv
    <3> QED
      BY <2>1, <2>2, <3>1
  <2>4. Messages[c] = MessagesOf(sent[c])
    BY MessagesAre
  <2>5. Len(Messages[c]) = Len(sent[c])
        /\ Messages[c][NumRead(c) + 1] = Body(NumRead(c) + 1, sent[c][NumRead(c) + 1])
    BY <2>2, <2>3, <2>4, MessagesOfType
  <2>6. Received' = Append(Received, [conn |-> c, value |-> Messages[c][NumRead(c) + 1]])
    BY <2>1, <2>5 DEF Request
  <2>7. Stream!Receive(c)
    BY <1>1, <1>4, <2>1, <2>5, <2>6 DEF Stream!Receive, NumRead
  <2> QED
    BY <2>7
<1>5. CASE \E c \in Conns : SendSize(c)
  BY <1>3, <1>5 DEF Stream!Next
<1>6. CASE \E c \in Conns : SendMessage(c)
  <2>1. Received' = Received /\ sent' = sent
    BY <1>6, MessageSent DEF SendMessage
  <2> QED
    BY <1>2, <2>1
<1>7. CASE \E c \in Conns : Stop(c)
  <2>1. Received' = Received /\ sent' = sent
    BY <1>7, Stopped DEF Stop
  <2> QED
    BY <1>2, <2>1
<1>8. CASE \E c \in Conns : OnRecvValue(c)
  <2>1. Received' = Received /\ sent' = sent
    BY <1>8, ReadFromSocket DEF OnRecvValue, ctl
  <2> QED
    BY <1>2, <2>1
<1>9. CASE \E c \in Conns : OnAcceptEof(c)
  <2>1. Received' = Received /\ sent' = sent
    BY <1>9, Freed DEF OnAcceptEof, ctl
  <2> QED
    BY <1>2, <2>1
<1>10. CASE ExtractData
  <2>1. sent' = sent /\ (Received' = Received \/ OneReceived)
    BY <1>10, Extracted DEF ExtractData, ctl
  <2> QED
    BY <1>2, <1>4, <2>1 DEF Stream!Next
<1>11. CASE ExtractDataReturn \/ UNCHANGED vars
  <2>1. UNCHANGED <<ctl, wire, input, submitted>> /\ sent' = sent
    BY <1>11 DEF ExtractDataReturn, vars, ctl
  <2>2. Received' = Received
    BY <2>1, NothingMoved
  <2> QED
    BY <1>2, <2>1, <2>2
<1> QED
  BY <1>5, <1>6, <1>7, <1>8, <1>9, <1>10, <1>11 DEF Next, ClientNext

\* The client implements RequestStream as long as the byte after dados is no
\* digit: for any number of connections, any sizes of requests, and send
\* buffers of any size, however the stream is cut.
THEOREM RequestsWholeOnceInOrder ==
    ASSUME TrailingBytes = {NoDigit}
    PROVE  Spec => StreamSpec
<1>1. Init => Stream!Init /\ FrameInv /\ LenWithinBuffer /\ HeldInv /\ StreamInv
  BY RefinesInit, FrameInit, LenInit, HeldInit, StreamInit
<1>2. FrameInv /\ LenWithinBuffer /\ HeldInv /\ StreamInv /\ [Next]_vars
         => (FrameInv /\ LenWithinBuffer /\ HeldInv /\ StreamInv)'
  BY FrameStep, HeldStep, StreamStep
<1>3. FrameInv /\ LenWithinBuffer /\ HeldInv /\ StreamInv /\ [Next]_vars
         => [Stream!Next]_Stream!vars
  BY RefinesStep
<1> QED
  BY <1>1, <1>2, <1>3, PTL DEF Spec, StreamSpec, Stream!Spec

=============================================================================
