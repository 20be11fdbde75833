---------------------------- MODULE ClientFraming ----------------------------
(***************************************************************************)
(* The byte stream from the controllers to the libpaxos client of a VNF.   *)
(*                                                                         *)
(* A controller writes a request with two calls of send(): the length in   *)
(* decimal (three digits: Rules bounds it), then the message.  The client, *)
(* a single-threaded libevent loop, keeps one input buffer a connection,   *)
(* appends to it whatever the socket has, and calls on_recv_value(), whose *)
(* loop in extract_data() takes the complete requests from its front.      *)
(*                                                                         *)
(* A byte is <<i, k>>, byte k of the i-th request of its connection, the   *)
(* length being bytes 1 .. HeaderSize.  Two places where the code leaves   *)
(* an outcome open are parameters:                                         *)
(*  - atoi() reads the char dados[3] that nothing terminates, so the byte  *)
(*    that follows it in the frame counts when it is a digit;              *)
(*  - send() of a green socket may write less than it is given when the    *)
(*    socket buffer is full, and the controller ignores what it returns.   *)
(***************************************************************************)
EXTENDS Naturals, Sequences, SequencesExt

CONSTANTS
    Conns,          \* connections accepted by the client
    Sizes,          \* lengths of messages that occur
    TrailingBytes,  \* what may follow dados: a digit, or NoDigit
    TextValue,      \* TextValue[k]: atoi() of bytes, from byte k, that are no header
    SendBuffer,     \* SendBuffer[c]: bytes c holds between send() and read()
    MaxRequests     \* bound: requests of one connection

NoConn     == "none"
NoDigit    == 10
HeaderSize == 3

\* Positions of bytes in a request.
Positions == UNION { 1 .. HeaderSize + size : size \in Sizes }

ASSUME FramingAssumption ==
    /\ NoConn \notin Conns
    /\ Sizes \subseteq Nat \ {0}
    /\ TextValue \in [Positions -> Nat]
    /\ TrailingBytes \subseteq 0 .. NoDigit
    /\ TrailingBytes # {}
    /\ SendBuffer \in [Conns -> Nat \ {0}]
    /\ MaxRequests \in Nat

VARIABLES
    sent,       \* sent[c]: lengths of the requests the controller has written
    sending,    \* sending[c]: the length was sent, the message is not
    open,       \* open[c]: the controller has not stopped
    cutAt,      \* cutAt[c]: the first request that was not written whole, or 0
    wire,       \* wire[c]: bytes in the sockets
    input,      \* input[c]: the evbuffer of the bufferevent
    current,    \* the connection whose callback runs, or NoConn
    len,        \* the variable len of extract_data
    trail,      \* the byte after dados, in this call of extract_data
    submitted   \* the values handed to paxos_submit, with their connections

vars == <<sent, sending, open, cutAt, wire, input, current, len, trail, submitted>>
ctl  == <<sent, sending, open, cutAt>>
cli  == <<input, current, len, trail, submitted>>

Bytes(i, from, to) == [k \in 1 .. to - from + 1 |-> <<i, from + k - 1>>]
Header(i)     == Bytes(i, 1, HeaderSize)
Body(i, size) == Bytes(i, HeaderSize + 1, HeaderSize + size)

Init ==
    /\ sent = [c \in Conns |-> <<>>]
    /\ sending = [c \in Conns |-> FALSE]
    /\ open = [c \in Conns |-> TRUE]
    /\ cutAt = [c \in Conns |-> 0]
    /\ wire = [c \in Conns |-> <<>>]
    /\ input = [c \in Conns |-> <<>>]
    /\ current = NoConn
    /\ len = 0
    /\ trail = NoDigit
    /\ submitted = <<>>

-----------------------------------------------------------------------------
(* The controller. *)

\* A send() that finds room writes what fits and returns.
Fits(c, bytes) ==
    LET room == SendBuffer[c] - Len(wire[c])
    IN  SubSeq(bytes, 1, IF room < Len(bytes) THEN room ELSE Len(bytes))

\* Part of the i-th request is written.
Write(c, i, bytes) ==
    /\ open[c]
    /\ Len(wire[c]) < SendBuffer[c]
    /\ wire' = [wire EXCEPT ![c] = @ \o Fits(c, bytes)]
    /\ cutAt' = [cutAt EXCEPT ![c] = IF @ = 0 /\ Fits(c, bytes) # bytes THEN i ELSE @]

\* self.conn.send(size)
SendSize(c) ==
    /\ ~sending[c]
    /\ Len(sent[c]) < MaxRequests
    /\ Write(c, Len(sent[c]) + 1, Header(Len(sent[c]) + 1))
    /\ \E size \in Sizes : sent' = [sent EXCEPT ![c] = Append(@, size)]
    /\ sending' = [sending EXCEPT ![c] = TRUE]
    /\ UNCHANGED <<open, cli>>

\* self.conn.send(message)
SendMessage(c) ==
    /\ sending[c]
    /\ Write(c, Len(sent[c]), Body(Len(sent[c]), Last(sent[c])))
    /\ sending' = [sending EXCEPT ![c] = FALSE]
    /\ UNCHANGED <<sent, open, cli>>

\* The controller stops; any part of what it wrote last may be lost.
Stop(c) ==
    /\ open[c]
    /\ open' = [open EXCEPT ![c] = FALSE]
    /\ \E n \in 0 .. Len(wire[c]) :
          wire' = [wire EXCEPT ![c] = SubSeq(@, 1, n)]
    /\ UNCHANGED <<sent, sending, cutAt, cli>>

-----------------------------------------------------------------------------
(* The client. *)

\* evbuffer_get_length() once n more bytes are in the buffer.
LastReadLength(buf, n) == n
BufferLength(buf, n)   == Len(buf) + n

\* The socket is readable: some of its bytes move to the buffer, and
\* on_recv_value() calls extract_data() with the length of the buffer.
OnRecvValue(c) ==
    /\ current = NoConn
    /\ \E n \in 1 .. Len(wire[c]) :
          /\ input' = [input EXCEPT ![c] = @ \o SubSeq(wire[c], 1, n)]
          /\ wire' = [wire EXCEPT ![c] = SubSeq(@, n + 1, Len(@))]
          /\ len' = BufferLength(input[c], n)
    /\ current' = c
    /\ trail' \in TrailingBytes
    /\ UNCHANGED <<ctl, submitted>>

\* atoi(dados) for the three bytes at the front of buf.
ParsedSize(c, buf) ==
    LET i == buf[1][1]
    IN  IF SubSeq(buf, 1, HeaderSize) # Header(i) THEN TextValue[buf[1][2]]
        ELSE IF trail = NoDigit THEN sent[c][i]
        ELSE 10 * sent[c][i] + trail

\* if (len >= dados_size), once the length has been subtracted from len.
MoreThanIn(rest, size) == rest > size
WholeIn(rest, size)    == rest >= size

\* What an incomplete request leaves in the buffer: all of it, the length too.
HeaderDrained(buf) == SubSeq(buf, HeaderSize + 1, Len(buf))
Undrained(buf)     == buf

\* len after a request of `size' bytes was taken.
HeaderOnly(rest, size)  == rest
HeaderTwice(rest, size) == rest - size - HeaderSize
Remaining(rest, size)   == rest - size

\* One turn of the loop of extract_data().  An incomplete request stays in
\* the buffer, but len is already lower.
ExtractData ==
    /\ current # NoConn
    /\ len >= HeaderSize
    /\ LET buf  == input[current]
           size == ParsedSize(current, buf)
           rest == len - HeaderSize
           used == HeaderSize + size
       IN  IF WholeIn(rest, size)
           THEN /\ input' = [input EXCEPT ![current] = SubSeq(buf, used + 1, Len(buf))]
                /\ len' = Remaining(rest, size)
                /\ submitted' = Append(submitted,
                      [conn |-> current, value |-> SubSeq(buf, HeaderSize + 1, used)])
           ELSE /\ input' = [input EXCEPT ![current] = Undrained(buf)]
                /\ len' = rest
                /\ UNCHANGED submitted
    /\ UNCHANGED <<ctl, wire, current, trail>>

ExtractDataReturn ==
    /\ current # NoConn
    /\ len < HeaderSize
    /\ current' = NoConn
    /\ UNCHANGED <<ctl, wire, input, len, trail, submitted>>

\* on_accept_ev(): end of file, the bufferevent and its buffer are freed.
OnAcceptEof(c) ==
    /\ current = NoConn
    /\ ~open[c]
    /\ wire[c] = <<>>
    /\ input[c] # <<>>
    /\ input' = [input EXCEPT ![c] = <<>>]
    /\ UNCHANGED <<ctl, wire, current, len, trail, submitted>>

-----------------------------------------------------------------------------
ClientNext ==
    \/ ExtractData
    \/ ExtractDataReturn
    \/ \E c \in Conns : OnRecvValue(c) \/ OnAcceptEof(c)

Next ==
    \/ ClientNext
    \/ \E c \in Conns : SendSize(c) \/ SendMessage(c) \/ Stop(c)

Spec == Init /\ [][Next]_vars

(***************************************************************************)
(* The event loop runs as long as something is ready, each ready socket in *)
(* its turn, and a callback runs to its end; a handler that has sent the   *)
(* length goes on to send the message unless its controller stops.         *)
(***************************************************************************)
Fairness ==
    /\ WF_vars(ExtractData \/ ExtractDataReturn)
    /\ \A c \in Conns : /\ SF_vars(OnRecvValue(c))
                        /\ WF_vars(SendMessage(c))

FairSpec == Spec /\ Fairness

-----------------------------------------------------------------------------
(* Properties. *)

\* Type invariant: the buffers hold bytes of requests that were sent.
TypeOK ==
    /\ sent \in [Conns -> Seq(Sizes)]
    /\ sending \in [Conns -> BOOLEAN]
    /\ open \in [Conns -> BOOLEAN]
    /\ \A c \in Conns : cutAt[c] \in 0 .. Len(sent[c])
    /\ \A c \in Conns : \A buf \in {wire[c], input[c]} : \A k \in DOMAIN buf :
          buf[k][1] \in DOMAIN sent[c] /\ buf[k][2] \in 1 .. HeaderSize + sent[c][buf[k][1]]
    /\ current \in Conns \cup {NoConn}
    /\ len \in Nat
    /\ trail \in 0 .. NoDigit

\* The loop never counts on bytes the buffer does not have: what
\* evbuffer_remove() is asked for is there, so no value holds leftovers of
\* the array v of extract_data().
LenWithinBuffer == current # NoConn => len <= Len(input[current])

\* Between two callbacks no connection has a complete request at the front
\* of its buffer: nothing waits for bytes that the controller may never send.
NothingHeldBack ==
    current = NoConn =>
        \A c \in Conns : \A i \in DOMAIN sent[c] :
            ~ IsPrefix(Header(i) \o Body(i, sent[c][i]), input[c])

\* The i-th request of c and those before it have been written whole.
WholeUpTo(c, i) == cutAt[c] = 0 \/ i < cutAt[c]

\* The client implements RequestStream, the bytes of a message being its
\* payload: requests are submitted whole, once and in the order of their
\* connection, however TCP cuts the stream, up to the first request of that
\* connection that a short write cut off.  What comes after it is read from
\* the wrong byte, but it is never taken for a request of another connection.
Messages == [c \in Conns |-> [i \in DOMAIN sent[c] |-> Body(i, sent[c][i])]]
AllBodies == { Body(i, size) : i \in 1 .. MaxRequests, size \in Sizes }
BeforeACut(s) == s.value # <<>> /\ WholeUpTo(s.conn, s.value[1][1])
ElementsAt(s, positions) ==
    LET upTo[n \in 0 .. Len(s)] ==
            IF n = 0 THEN <<>>
            ELSE IF n \in positions THEN Append(upTo[n - 1], s[n]) ELSE upTo[n - 1]
    IN  upTo[Len(s)]
Received == ElementsAt(submitted, { j \in DOMAIN submitted : BeforeACut(submitted[j]) })
Stream == INSTANCE RequestStream
             WITH Payloads <- AllBodies, sent <- Messages, received <- Received
StreamSpec == Stream!Spec

\* A request that was written is submitted, unless its controller stops: no
\* fragmentation leaves one in the buffer for good, and no short write on
\* another connection does.  Again and again there is none that waits.
EventuallySubmitted ==
    []<> \A c \in Conns : \A i \in DOMAIN sent[c] :
            Stream!NumReceived(c) >= i \/ ~open[c] \/ ~WholeUpTo(c, i)
=============================================================================
