--------------------------- MODULE TransferProofs ---------------------------
(***************************************************************************)
(* Theorems about Transfer, for headers, bodies, chunks and buffers of     *)
(* every size.                                                             *)
(***************************************************************************)
EXTENDS Transfer, TLAPS

\* Where the stream is read up to, in each phase.
Place ==
  /\ phase \in {"header", "between"} => file = <<>> /\ result = "none"
  /\ phase = "header" => next < head /\ flowing
  /\ phase = "between" => next = head
  /\ phase = "body" => result = "none"
  /\ phase \in {"body", "flushing"} => next = head + Len(file) /\ Len(file) <= total
  /\ phase = "flushing" => result \in {"complete", "partial"}
  /\ result = "complete" => Len(file) = total /\ next = head + total

\* A socket that is read has room in the file stream; a paused one waits for
\* a 'drain' that is to come.
Flow ==
  /\ needDrain => buffered > 0
  /\ ~needDrain => buffered < HighWater
  /\ (phase = "body" /\ flowing) => ~needDrain
  /\ (phase = "body" /\ ~flowing /\ peer # "unheard") => needDrain
  /\ BufferBounded

IInv == TypeOK /\ Place /\ Flow /\ FileIsBody

(***************************************************************************)
(* The file after a chunk.                                                 *)
(***************************************************************************)
LEMMA SeqFromFunction ==
  ASSUME NEW S, NEW n \in Nat, NEW f \in [1 .. n -> S]
  PROVE  f \in Seq(S) /\ Len(f) = n
OBVIOUS

LEMMA ExtendedFile ==
  ASSUME TypeOK, NEW n \in Nat
  PROVE  /\ Extended(n) \in Seq(Nat)
         /\ Len(Extended(n)) = Len(file) + n
         /\ \A i \in 1 .. (Len(file) + n) :
              Extended(n)[i] = IF i <= Len(file) THEN file[i]
                                                 ELSE next + (i - Len(file))
<1>1. Len(file) \in Nat /\ next \in Nat
  BY DEF TypeOK
<1>2. \A i \in 1 .. (Len(file) + n) :
        (IF i <= Len(file) THEN file[i] ELSE next + (i - Len(file))) \in Nat
  BY <1>1 DEF TypeOK
<1>3. Extended(n) \in [1 .. (Len(file) + n) -> Nat]
  BY <1>2 DEF Extended, received
<1>4. QED
  BY <1>1, <1>3, SeqFromFunction DEF Extended, received

(***************************************************************************)
(* The inductive invariant.                                                *)
(***************************************************************************)
LEMMA InitHolds == ASSUME Init PROVE IInv
<1>1. head \in Nat \ {0} /\ total \in Nat /\ file \in Seq(Nat) /\ Len(file) = 0
  BY HeaderSizesAssumption, TotalsAssumption DEF Init
<1>2. TypeOK
  <2>1. buffered \in 0 .. Len(file) /\ next \in 0 .. arrived
    BY <1>1 DEF Init
  <2>2. /\ arrived \in Nat /\ peer = "open" /\ flowing = TRUE /\ needDrain = FALSE
        /\ phase = "header" /\ result = "none"
    BY DEF Init
  <2>3. QED
    BY <1>1, <2>1, <2>2 DEF TypeOK, Phases, Results
<1>3. Place
  BY <1>1 DEF Init, Place
<1>4. Flow
  BY LimitsAssumption DEF Init, Flow, BufferBounded
<1>5. FileIsBody
  BY <1>1 DEF Init, FileIsBody
<1>6. QED
  BY <1>2, <1>3, <1>4, <1>5 DEF IInv

LEMMA BodyDataKeeps == ASSUME IInv, BodyData PROVE IInv'
<1>1. PICK k \in Chunks :
        /\ next' = next + Piece(k)
        /\ file' = Extended(Piece(k))
        /\ buffered' = buffered + Piece(k)
        /\ needDrain' = (needDrain \/ ~RoomLeft(Piece(k)))
        /\ flowing' = (Piece(k) = k /\ RoomLeft(Piece(k)))
        /\ IF received + Piece(k) >= total
             THEN phase' = "flushing" /\ result' = "complete"
             ELSE UNCHANGED <<phase, result>>
  BY DEF BodyData
<1> DEFINE n == Piece(k)
<1>2. /\ k \in Nat /\ k <= MaxChunk /\ next + k <= arrived
      /\ Len(file) \in Nat /\ next \in Nat /\ arrived \in Nat /\ buffered \in Nat
      /\ head \in Nat /\ total \in Nat /\ MaxChunk \in Nat /\ HighWater \in Nat
      /\ next = head + Len(file) /\ Len(file) <= total /\ buffered <= Len(file)
  BY LimitsAssumption DEF IInv, TypeOK, Place, Chunks, BodyData
<1>3. /\ n \in Nat /\ n <= k /\ Len(file) + n <= total
      /\ n < k => Len(file) + n = total
  BY <1>2 DEF Piece, received
<1>4. /\ file' \in Seq(Nat)
      /\ Len(file') = Len(file) + n
      /\ \A i \in 1 .. (Len(file) + n) :
           file'[i] = IF i <= Len(file) THEN file[i] ELSE next + (i - Len(file))
  BY <1>1, <1>3, ExtendedFile DEF IInv
<1>5. /\ ~needDrain /\ buffered < HighWater
      /\ phase = "body" /\ result = "none" /\ flowing
  BY DEF IInv, Place, Flow, BodyData
<1> HIDE DEF n
<1>6. /\ UNCHANGED <<head, total, arrived, peer>>
      /\ next' = next + n /\ buffered' = buffered + n
      /\ needDrain' = (buffered + n >= HighWater)
      /\ flowing' = (n = k /\ buffered + n < HighWater)
      /\ \/ Len(file) + n >= total /\ phase' = "flushing" /\ result' = "complete"
         \/ Len(file) + n < total /\ phase' = "body" /\ result' = "none"
  BY <1>1, <1>2, <1>3, <1>5 DEF BodyData, sizes, wire, RoomLeft, received, n
<1>6a. /\ needDrain' <=> (buffered + n >= HighWater)
       /\ flowing' <=> (n = k /\ buffered + n < HighWater)
  BY <1>6
<1>7. TypeOK'
  BY <1>2, <1>3, <1>4, <1>6 DEF IInv, TypeOK, Phases, Results
<1>8. Place'
  BY <1>2, <1>3, <1>4, <1>6 DEF Place
<1>9. Flow'
  <2>1. phase' = "body" => n = k
    BY <1>2, <1>3, <1>6
  <2>2. /\ HighWater > 0 /\ buffered' < HighWater + MaxChunk
        /\ buffered + n >= HighWater => buffered' > 0
        /\ ~(buffered + n >= HighWater) => buffered' < HighWater
    BY <1>2, <1>3, <1>5, <1>6, LimitsAssumption
  <2>3. phase' = "body" => (flowing' <=> ~needDrain')
    <3>1. ~(buffered + n >= HighWater) <=> buffered + n < HighWater
      BY <1>2, <1>3
    <3>2. QED
      BY <1>6a, <2>1, <3>1
  <2>4. QED
    BY <1>6a, <2>2, <2>3 DEF Flow, BufferBounded
<1>10. FileIsBody'
  <2>1. ASSUME NEW i \in 1 .. (Len(file) + n) PROVE file'[i] = head + i
    <3>1. CASE i <= Len(file)
      <4>1. i \in 1 .. Len(file)
        BY <1>2, <1>3, <3>1
      <4>2. QED
        BY <1>4, <3>1, <4>1 DEF IInv, FileIsBody
    <3>2. CASE i > Len(file)
      BY <1>2, <1>3, <1>4, <3>2
    <3>3. QED
      BY <1>2, <1>3, <3>1, <3>2
  <2>2. QED
    BY <1>4, <1>6, <2>1 DEF FileIsBody
<1>11. QED
  BY <1>7, <1>8, <1>9, <1>10 DEF IInv

LEMMA StepKeeps == ASSUME IInv, [Next]_vars PROVE IInv'
<1> USE DEF IInv, sizes, wire, writer
<1>1. CASE Deliver
  <2>1. PICK k \in 1 .. (head + total + MaxExtra - arrived) : arrived' = arrived + k
    BY <1>1 DEF Deliver
  <2>2. arrived' \in Nat /\ arrived' >= arrived
    BY <2>1, LimitsAssumption DEF TypeOK
  <2>3. QED
    BY <1>1, <2>2
       DEF Deliver, TypeOK, Place, Flow, FileIsBody, BufferBounded
<1>2. CASE Leave
  BY <1>2 DEF Leave, TypeOK, Place, Flow, FileIsBody, BufferBounded
<1>3. CASE EndUnheard
  BY <1>3
     DEF EndUnheard, TypeOK, Place, Flow, FileIsBody, BufferBounded
<1>4. CASE HeaderData
  <2>1. PICK k \in Chunks :
           \/ /\ next + k >= head /\ next' = head /\ phase' = "between"
              /\ flowing' = FALSE /\ UNCHANGED result
           \/ /\ next + k < head /\ next' = next + k /\ UNCHANGED flowing
              /\ \/ phase' = "done" /\ result' = "tooLong"
                 \/ UNCHANGED <<phase, result>>
    BY <1>4 DEF HeaderData, AfterLine
  <2>2. k \in Nat /\ next' \in 0 .. arrived /\ flowing' \in BOOLEAN
    <3>1. k \in Nat /\ next + k <= arrived /\ next \in Nat /\ head \in Nat
          /\ flowing \in BOOLEAN /\ arrived \in Nat
      BY LimitsAssumption DEF Chunks, TypeOK
    <3>2. flowing' \in BOOLEAN
      BY <2>1, <3>1
    <3>3. next' \in 0 .. arrived
      BY <2>1, <3>1
    <3>4. QED
      BY <3>1, <3>2, <3>3
  <2>3. /\ phase = "header" /\ flowing /\ file = <<>> /\ result = "none"
        /\ UNCHANGED <<head, total, arrived, peer, file, buffered, needDrain>>
    BY <1>4 DEF HeaderData, Place
  <2>4. Len(file) = 0 /\ buffered = 0 /\ ~needDrain
    BY <2>3 DEF TypeOK, Flow
  <2>5. TypeOK'
    BY <2>1, <2>2, <2>3 DEF TypeOK, Phases, Results
  <2>6. Place'
    BY <2>1, <2>2, <2>3, <2>4 DEF Place, TypeOK
  <2>7. Flow'
    BY <2>1, <2>3, <2>4 DEF Flow, BufferBounded
  <2>8. FileIsBody'
    BY <2>3, <2>4 DEF FileIsBody
  <2>9. QED
    BY <2>5, <2>6, <2>7, <2>8
<1>5. CASE StartBody
  <2>1. /\ phase = "between" /\ phase' = "body" /\ flowing' = (peer # "unheard")
        /\ UNCHANGED <<head, total, arrived, peer, next, file, buffered, needDrain,
                       result>>
    BY <1>5 DEF StartBody
  <2>2. file = <<>> /\ Len(file) = 0 /\ next = head /\ result = "none"
    BY <2>1 DEF Place
  <2>3. TypeOK'
    BY <2>1 DEF TypeOK, Phases
  <2>4. Place'
    BY <2>1, <2>2 DEF Place, TypeOK
  <2>5. Flow'
    <3>1. buffered = 0 /\ ~needDrain
      BY <2>2 DEF TypeOK, Flow
    <3>2. flowing' <=> peer' # "unheard"
      BY <2>1
    <3>3. QED
      BY <2>1, <3>1, <3>2 DEF Flow, BufferBounded
  <2>6. FileIsBody'
    BY <2>1 DEF FileIsBody
  <2>7. QED
    BY <2>3, <2>4, <2>5, <2>6
<1>6. CASE BodyData
  BY <1>6, BodyDataKeeps
<1>7. CASE End
  BY <1>7
     DEF End, Stop, TypeOK, Place, Flow, FileIsBody, BufferBounded,
         Phases, Results
<1>8. CASE Reset
  BY <1>8
     DEF Reset, Stop, TypeOK, Place, Flow, FileIsBody, BufferBounded,
         Phases, Results
<1>9. CASE WriteToDisk
  <2>1. PICK k \in 1 .. buffered :
           /\ buffered' = buffered - k
           /\ IF buffered' = 0 /\ needDrain
                THEN needDrain' = FALSE /\ flowing' = AfterDrain
                ELSE UNCHANGED <<needDrain, flowing>>
    BY <1>9 DEF WriteToDisk
  <2>2. /\ buffered' \in Nat /\ buffered' < buffered
        /\ Len(file) \in Nat /\ HighWater \in Nat \ {0} /\ MaxChunk \in Nat
    BY <2>1, LimitsAssumption DEF TypeOK
  <2>3. UNCHANGED <<head, total, arrived, peer, next, phase, file, result>>
    BY <1>9 DEF WriteToDisk
  <2>4. TypeOK'
    <3>1. flowing' \in BOOLEAN /\ needDrain' \in BOOLEAN
      BY <2>1 DEF TypeOK, AfterDrain
    <3>2. buffered' \in 0 .. Len(file)
      BY <2>2 DEF TypeOK
    <3>3. QED
      BY <2>3, <3>1, <3>2 DEF TypeOK
  <2>5. Place'
    <3>1. phase # "header"
      BY <2>2 DEF Place, TypeOK
    <3>2. QED
      BY <2>3, <3>1 DEF Place
  <2>6. Flow'
    BY <2>1, <2>2, <2>3 DEF Flow, AfterDrain, BufferBounded, TypeOK
  <2>7. FileIsBody'
    BY <2>1, <2>2, <2>3 DEF FileIsBody, TypeOK
  <2>8. QED
    BY <2>4, <2>5, <2>6, <2>7
<1>10. CASE EndStream
  BY <1>10
     DEF EndStream, TypeOK, Place, Flow, FileIsBody,
         BufferBounded, Phases
<1>11. CASE UNCHANGED vars
  BY <1>11
     DEF vars, TypeOK, Place, Flow, FileIsBody, BufferBounded
<1>12. QED
  BY <1>1, <1>2, <1>3, <1>4, <1>5, <1>6, <1>7, <1>8, <1>9, <1>10, <1>11
     DEF Next, Receiver

LEMMA Invariance == Spec => []IInv
<1>1. Init => IInv
  BY InitHolds
<1>2. IInv /\ [Next]_vars => IInv'
  BY StepKeeps
<1>3. QED
  BY <1>1, <1>2, PTL DEF Spec

(***************************************************************************)
(* Theorems.                                                               *)
(***************************************************************************)
\* Every variable keeps the shape the code gives it.
THEOREM TypeCorrect == Spec => []TypeOK
<1>1. IInv => TypeOK
  BY DEF IInv
<1>2. QED
  BY <1>1, Invariance, PTL

\* However readJsonLine and receiveBytes find the stream cut into chunks, the
\* file holds exactly the body from its first byte on.
THEOREM BodyIsExact == Spec => []FileIsBody
<1>1. IInv => FileIsBody
  BY DEF IInv
<1>2. QED
  BY <1>1, Invariance, PTL

\* A complete transfer took the whole body and left what follows it unread.
THEOREM BodyIsWhole == Spec => []TakesExactlyBody
<1>1. IInv => TakesExactlyBody
  BY DEF IInv, Place, TakesExactlyBody
<1>2. QED
  BY <1>1, Invariance, PTL

\* The backpressure of receiveBytes bounds the memory a transfer takes.
THEOREM MemoryIsBounded == Spec => []BufferBounded
<1>1. IInv => BufferBounded
  BY DEF IInv, Flow
<1>2. QED
  BY <1>1, Invariance, PTL

\* A paused socket always has a 'drain' to wait for: no wake-up is lost.
THEOREM NoLostWakeUp == Spec => []PausedForDrain
<1>1. IInv => PausedForDrain
  BY DEF IInv, Flow, PausedForDrain
<1>2. QED
  BY <1>1, Invariance, PTL
=============================================================================
