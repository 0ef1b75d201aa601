------------------------------ MODULE Transfer ------------------------------
(***************************************************************************)
(* One direction of one connection: src/src/common/protocol.js readJsonLine *)
(* and receiveBytes, over a socket that is a flowing stream and a file      *)
(* stream with a buffer.  A node that takes an upload and a client that     *)
(* takes a download both do this: a header line, then exactly `total`       *)
(* bytes into a file, with backpressure by pause() and 'drain'.             *)
(*                                                                         *)
(* The units the peer sends are numbered 1, 2, ...: 1 .. head is the header *)
(* line (head is its newline), the next `total` are the body, the rest is   *)
(* whatever follows.  A chunk is any run of at most MaxChunk of them.       *)
(***************************************************************************)
EXTENDS Integers, Sequences

CONSTANTS
  HeaderSizes,  \* possible lengths of the header line, with its newline
  Totals,       \* possible lengths of the body: total - offset
  MaxHeader,    \* MAX_HEADER
  MaxChunk,     \* the most one 'data' event can carry
  HighWater,    \* highWaterMark of the file stream
  MaxExtra      \* bound on what the peer sends behind the body

ASSUME HeaderSizesAssumption == HeaderSizes \subseteq Nat \ {0}
ASSUME TotalsAssumption      == Totals \subseteq Nat
ASSUME LimitsAssumption      ==
  /\ MaxHeader \in Nat /\ MaxExtra \in Nat
  /\ MaxChunk \in Nat \ {0} /\ HighWater \in Nat \ {0}

VARIABLES
  head, total,   \* the lengths in this behaviour
  arrived,       \* units the peer's side has delivered
  peer,          \* "open", or how the connection ended
  next,          \* units taken from the socket: 'data' less unshift()
  flowing,       \* resume() / pause()
  phase,         \* which function listens to the socket
  file,          \* what writeStream.write() was given, by number
  buffered,      \* how much of it is still in the buffer of the file stream
  needDrain,     \* write() has returned false
  result

vars == <<head, total, arrived, peer, next, flowing, phase, file, buffered,
          needDrain, result>>
sizes  == <<head, total>>
wire   == <<arrived, peer>>
writer == <<file, buffered, needDrain>>

\* "header": readJsonLine; "between": the handler has not called receiveBytes
\* yet; "body": receiveBytes; "flushing": endStream; "done": all over.
Phases  == {"header", "between", "body", "flushing", "done"}
Results == {"none", "complete", "partial", "nothing", "tooLong", "error"}

\* receiveBytes' own counter.
received == Len(file)

Init ==
  /\ head \in HeaderSizes /\ total \in Totals
  /\ arrived = 0 /\ peer = "open"
  /\ next = 0 /\ flowing = TRUE
  /\ phase = "header" /\ result = "none"
  /\ file = <<>> /\ buffered = 0 /\ needDrain = FALSE

(***************************************************************************)
(* The peer.                                                               *)
(***************************************************************************)
Deliver ==
  /\ peer = "open"
  /\ arrived < head + total + MaxExtra
  /\ \E k \in 1 .. (head + total + MaxExtra - arrived) : arrived' = arrived + k
  /\ UNCHANGED <<sizes, peer, next, flowing, phase, writer, result>>

\* It closes the connection, or is killed and a reset comes back.
Leave ==
  /\ peer = "open"
  /\ peer' \in {"ended", "reset"}
  /\ UNCHANGED <<sizes, arrived, next, flowing, phase, writer, result>>

(***************************************************************************)
(* 'data' events: the socket is flowing and gives out the next k units.    *)
(***************************************************************************)
Chunks == {k \in 1 .. MaxChunk : next + k <= arrived}

\* (mutant: the bytes behind the newline are not given back)
AfterLineNoUnshift(k) == next + k

\* unshift(rest): the body starts at the first unit behind the newline.
AfterLine(k) == head

HeaderData ==
  /\ phase = "header" /\ flowing
  /\ \E k \in Chunks :
       \/ /\ next + k >= head
          /\ next' = AfterLine(k)
          /\ flowing' = FALSE
          /\ phase' = "between"
          /\ UNCHANGED result
       \/ /\ next + k < head
          /\ next' = next + k
          /\ IF next + k > MaxHeader
               THEN phase' = "done" /\ result' = "tooLong"
               ELSE UNCHANGED <<phase, result>>
          /\ UNCHANGED flowing
  /\ UNCHANGED <<sizes, wire, writer>>

\* receiveBytes attaches its listeners and resumes the socket; one whose end
\* is over gives out nothing any more.
StartBody ==
  /\ phase = "between"
  /\ phase' = "body"
  /\ flowing' = (peer # "unheard")
  /\ UNCHANGED <<sizes, wire, next, writer, result>>

\* (mutant: the whole chunk is taken)
PieceWhole(k) == k

\* (mutant: one less is kept)
PieceOffByOne(k) == IF received + k > total THEN total - received - 1 ELSE k

\* Never more than was promised; the rest is given back.
Piece(k) == IF received + k > total THEN total - received ELSE k

\* (mutant: write() is not asked)
RoomLeftAlways(n) == TRUE

\* What write() returns for n more units.
RoomLeft(n) == buffered + n < HighWater

\* The file with the next n units of the socket behind it.
Extended(n) ==
  [i \in 1 .. (received + n) |->
     IF i <= received THEN file[i] ELSE next + (i - received)]

BodyData ==
  /\ phase = "body" /\ flowing
  /\ \E k \in Chunks :
       LET n == Piece(k) IN
       /\ next' = next + n
       /\ file' = Extended(n)
       /\ buffered' = buffered + n
       /\ needDrain' = (needDrain \/ ~RoomLeft(n))
       /\ flowing' = (n = k /\ RoomLeft(n))
       /\ IF received + n >= total
            THEN phase' = "flushing" /\ result' = "complete"
            ELSE UNCHANGED <<phase, result>>
  /\ UNCHANGED <<sizes, wire>>

(***************************************************************************)
(* The end of the connection, for whoever listens.                         *)
(***************************************************************************)
Stop(atHeader) ==
  IF phase = "header" THEN phase' = "done" /\ result' = atHeader
                      ELSE phase' = "flushing" /\ result' = "partial"

\* 'end' comes behind the last unit, on a paused socket too: net reads on, and
\* with nothing unread the end of the stream is emitted at once.
End ==
  /\ phase \in {"header", "body"}
  /\ peer = "ended" /\ next = arrived
  /\ Stop("nothing")
  /\ UNCHANGED <<sizes, wire, next, flowing, writer>>

\* So is a reset; what was not read is lost.
Reset ==
  /\ phase \in {"header", "body"}
  /\ peer = "reset"
  /\ Stop("error")
  /\ UNCHANGED <<sizes, wire, next, flowing, writer>>

\* Between the two functions nobody listens: the 'end' of a socket with
\* nothing unread is emitted for nobody, and of a reset, which the ok reply
\* hits, only handleConnection's empty listener hears.
EndUnheard ==
  /\ phase = "between"
  /\ peer = "reset" \/ (peer = "ended" /\ next = arrived)
  /\ peer' = "unheard"
  /\ UNCHANGED <<sizes, arrived, next, flowing, phase, writer, result>>

(***************************************************************************)
(* The file stream.                                                        *)
(***************************************************************************)
\* (mutant: no 'drain' listener)
AfterDrainPaused == flowing

\* onDrain, while receiveBytes listens.
AfterDrain == flowing \/ phase = "body"

WriteToDisk ==
  /\ \E k \in 1 .. buffered :
       /\ buffered' = buffered - k
       /\ IF buffered' = 0 /\ needDrain
            THEN needDrain' = FALSE /\ flowing' = AfterDrain
            ELSE UNCHANGED <<needDrain, flowing>>
  /\ UNCHANGED <<sizes, wire, next, phase, file, result>>

\* endStream is awaited, on the error path too: when the outcome is reported
\* what was received is on the disk.
EndStream ==
  /\ phase = "flushing"
  /\ buffered = 0
  /\ phase' = "done"
  /\ UNCHANGED <<sizes, wire, next, flowing, writer, result>>

Receiver ==
  \/ HeaderData \/ StartBody \/ BodyData \/ End \/ Reset
  \/ WriteToDisk \/ EndStream

Next == Deliver \/ Leave \/ EndUnheard \/ Receiver

Spec == Init /\ [][Next]_vars

\* The event loop runs the callbacks and the disk answers; a peer that stays
\* connected sends all it promised.
FairSpec ==
  /\ Spec
  /\ WF_vars(arrived < head + total /\ Deliver)
  /\ WF_vars(HeaderData \/ StartBody \/ BodyData \/ End \/ Reset \/ EndStream)
  /\ WF_vars(WriteToDisk)

-----------------------------------------------------------------------------
(***************************************************************************)
(* Properties.                                                             *)
(***************************************************************************)
\* Every variable has the shape the code gives it; nothing is taken from the
\* socket that has not arrived.
TypeOK ==
  /\ head \in Nat \ {0} /\ total \in Nat
  /\ arrived \in Nat /\ next \in 0 .. arrived
  /\ peer \in {"open", "ended", "reset", "unheard"}
  /\ flowing \in BOOLEAN /\ needDrain \in BOOLEAN
  /\ phase \in Phases /\ result \in Results
  /\ file \in Seq(Nat) /\ buffered \in 0 .. Len(file)

\* However the stream is cut into chunks, the file holds the body from its
\* first byte on: nothing of the header, no byte twice, none left out.
FileIsBody == \A i \in 1 .. Len(file) : file[i] = head + i

\* A transfer that is complete took the whole body and left what follows it
\* in the stream.
TakesExactlyBody ==
  result = "complete" => Len(file) = total /\ next = head + total

\* A fast network and a slow disk never fill the memory: at most the buffer
\* the file stream was content with and one chunk more.
BufferBounded == buffered < HighWater + MaxChunk

\* The socket is paused only while something is going to resume it: no
\* wake-up is lost between pause() and 'drain'.
PausedForDrain ==
  (phase = "body" /\ ~flowing /\ peer # "unheard") => needDrain /\ buffered > 0

\* Every transfer ends, but for two that hang in receiveBytes for good: one
\* whose connection was over, orderly or not, before receiveBytes listened,
\* and one of no bytes, since it resolves only when a chunk arrives.
TransferEnds ==
  \/ <>(phase = "done")
  \/ <>[](phase = "body" /\ (peer = "unheard" \/ total = 0))
=============================================================================
