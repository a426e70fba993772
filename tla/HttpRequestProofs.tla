-------------------------- MODULE HttpRequestProofs --------------------------
(***************************************************************************)
(* Proofs about HttpRequest, for any byte streams, any fragmentation and   *)
(* any width of its counters.                                              *)
(***************************************************************************)
EXTENDS HttpReading, SequenceTheorems, NumberLemmas, TLAPS

(* Where the moves of the table lead: never back to the request line, and  *)
(* never into the two states that count bytes down.                        *)
LEMMA MoveTargets ==
  ASSUME NEW m \in Moves
  PROVE  /\ m[3] \in State \ {"ChunkData", "Post", "MessageComplete"}
         /\ m[1] \in RequestLine \/ m[3] \notin RequestLine
         /\ m[3] \in ChunkStates => m[1] \in ChunkStates
<1> USE DEF State, RequestLine, HeaderStates, ChunkStates
<1>1. CASE m \in RequestLineMoves
  BY <1>1 DEF RequestLineMoves
<1>2. CASE m \in HeaderMoves
  BY <1>2 DEF HeaderMoves
<1>3. CASE m \in ChunkMoves
  BY <1>3 DEF ChunkMoves
<1>4. CASE m \in TrailerMoves
  BY <1>4 DEF TrailerMoves
<1> QED
  BY <1>1, <1>2, <1>3, <1>4, Zenon DEF Moves

LEMMA DigitValueType ==
  ASSUME NEW d \in Digit
  PROVE  DigitValue(d) \in Nat
<1>1. \E n \in 0..9 : Digits[n + 1] = d
  <2>1. /\ Digits[0 + 1] = "0" /\ Digits[1 + 1] = "1" /\ Digits[2 + 1] = "2"
        /\ Digits[3 + 1] = "3" /\ Digits[4 + 1] = "4" /\ Digits[5 + 1] = "5"
        /\ Digits[6 + 1] = "6" /\ Digits[7 + 1] = "7" /\ Digits[8 + 1] = "8"
        /\ Digits[9 + 1] = "9"
    BY DEF Digits
  <2>2. /\ 0 \in 0..9 /\ 1 \in 0..9 /\ 2 \in 0..9 /\ 3 \in 0..9 /\ 4 \in 0..9
        /\ 5 \in 0..9 /\ 6 \in 0..9 /\ 7 \in 0..9 /\ 8 \in 0..9 /\ 9 \in 0..9
    OBVIOUS
  <2> QED
    BY <2>1, <2>2, Zenon DEF Digit
<1>2. DigitValue(d) \in 0..9
  BY <1>1, Zenon DEF DigitValue
<1> QED
  BY <1>2

LEMMA ModuloType ==
  ASSUME NEW i \in Int, NEW m \in Nat \ {0}
  PROVE  i % m \in 0..(m - 1)
OBVIOUS

LEMMA ShiftType ==
  ASSUME NEW v \in Nat, NEW d \in Digit
  PROVE  Shift(v, d) \in Nat
<1>1. v * 10 + DigitValue(d) \in Int
  BY DigitValueType
<1>2. Shift(v, d) \in 0..(ShortMod - 1)
  BY <1>1, SizeAssumption, ModuloType DEF Shift
<1> QED
  BY <1>2, SizeAssumption

LEMMA AtoiType ==
  ASSUME NEW s
  PROVE  Atoi(s) % SizeMod \in Size
<1>1. Atoi(s) \in Int
  BY TableAssumption DEF Atoi
<1> QED
  BY <1>1, SizeAssumption, ModuloType DEF Size

LEMMA Strtol16Type ==
  ASSUME NEW s
  PROVE  Strtol16(s) \in Size
BY TableAssumption, SizeAssumption DEF Strtol16, Size

LEMMA DecrementType ==
  ASSUME NEW n \in Size
  PROVE  Decrement(n) \in Size
BY SizeAssumption DEF Decrement, Size

LEMMA WithHeaderType ==
  ASSUME NEW headers \in SUBSET (Seq(Byte) \X Seq(Byte)),
         NEW name \in Seq(Byte), NEW value \in Seq(Byte)
  PROVE  WithHeader(headers, name, value) \in SUBSET (Seq(Byte) \X Seq(Byte))
BY DEF WithHeader

(* One byte of the fragment.                                               *)
LEMMA InputType ==
  ASSUME TypeOK, fragment # <<>>
  PROVE  input \in Byte /\ Tail(fragment) \in Seq(Byte)
BY HeadTailProperties DEF TypeOK, input

LEMMA BreakType ==
  ASSUME TypeOK, fragment # <<>>, NEW r \in Requests, Break(r)
  PROVE  TypeOK'
BY InputType DEF TypeOK, Break

LEMMA ReturnType ==
  ASSUME TypeOK, NEW r \in Requests, NEW result \in {"complete", "error"},
         Return(result, r)
  PROVE  TypeOK'
BY EmptySeq DEF TypeOK, Return

-----------------------------------------------------------------------------
(* Type correctness, case by case of the switch.                           *)

LEMMA RequestLineType ==
  ASSUME TypeOK,
         \/ RequestMethod \/ RequestUrl \/ SimpleRequest
         \/ VersionSlash \/ VersionMajor \/ VersionMinor
  PROVE  TypeOK'
<1> USE DEF At, Takes, State, RequestLine
<1>1. fragment # <<>> /\ req \in Requests
  BY DEF TypeOK, RequestMethod, RequestUrl, SimpleRequest, VersionSlash,
         VersionMajor, VersionMinor
<1>2. input \in Byte
  BY <1>1, InputType
<1>3. /\ Append(req.method, input) \in Seq(Byte)
      /\ Append(req.url, input) \in Seq(Byte)
  BY <1>1, <1>2, AppendProperties DEF Requests
<1>4. CASE RequestMethod
  <2> DEFINE r == [req EXCEPT !.state = "RequestMethod", !.method = Append(@, input)]
  <2>1. r \in Requests
    BY <1>1, <1>3 DEF Requests
  <2> QED
    BY <1>1, <1>4, <2>1, BreakType DEF RequestMethod
<1>5. CASE RequestUrl
  <2> DEFINE r == [req EXCEPT !.state = "RequestUrl", !.url = Append(@, input)]
  <2>1. r \in Requests
    BY <1>1, <1>3 DEF Requests
  <2> QED
    BY <1>1, <1>5, <2>1, BreakType DEF RequestUrl
<1>6. CASE SimpleRequest
  <2> DEFINE r == [req EXCEPT !.major = 0, !.minor = 9]
  <2>1. r \in Requests
    BY <1>1 DEF Requests
  <2> QED
    BY <1>6, <2>1, ReturnType DEF SimpleRequest
<1>7. CASE VersionSlash
  <2> DEFINE r == [req EXCEPT !.state = "RequestHttpVersion_majorStart",
                              !.major = 0, !.minor = 0]
  <2>1. r \in Requests
    BY <1>1 DEF Requests
  <2> QED
    BY <1>1, <1>7, <2>1, BreakType DEF VersionSlash
<1>8. CASE VersionMajor
  <2> DEFINE r == [req EXCEPT !.state = "RequestHttpVersion_major",
                              !.major = DigitValue(input)]
             q == [req EXCEPT !.major = Shift(@, input)]
  <2>1. input \in Digit
    BY <1>8 DEF VersionMajor, RequestLineData
  <2>2. r \in Requests /\ q \in Requests
    BY <1>1, <2>1, DigitValueType, ShiftType DEF Requests
  <2> QED
    BY <1>1, <1>8, <2>2, BreakType DEF VersionMajor
<1>9. CASE VersionMinor
  <2> DEFINE r == [req EXCEPT !.state = "RequestHttpVersion_minor",
                              !.minor = DigitValue(input)]
             q == [req EXCEPT !.minor = Shift(@, input)]
  <2>1. input \in Digit
    BY <1>9 DEF VersionMinor, RequestLineData
  <2>2. r \in Requests /\ q \in Requests
    BY <1>1, <2>1, DigitValueType, ShiftType DEF Requests
  <2> QED
    BY <1>1, <1>9, <2>2, BreakType DEF VersionMinor
<1> QED
  BY <1>4, <1>5, <1>6, <1>7, <1>8, <1>9

LEMMA HeaderType ==
  ASSUME TypeOK,
         \/ HeaderStart \/ HeaderFold \/ HeaderName \/ HeaderValue \/ HeaderEnd
         \/ ExpectingNewline_3
  PROVE  TypeOK'
<1> USE DEF At, State, HeaderStates
<1>1. fragment # <<>> /\ req \in Requests
  BY DEF TypeOK, HeaderStart, HeaderFold, HeaderName, HeaderValue, HeaderEnd,
         ExpectingNewline_3
<1>2. input \in Byte
  BY <1>1, InputType
<1>3. CASE HeaderStart
  <2> DEFINE stored == req.name # <<>>
             r == [req EXCEPT
                     !.state = "HeaderName",
                     !.headers = IF stored THEN WithHeader(@, req.name, req.value) ELSE @,
                     !.name = <<input>>,
                     !.value = IF stored THEN <<>> ELSE @]
  <2>1. WithHeader(req.headers, req.name, req.value) \in SUBSET (Seq(Byte) \X Seq(Byte))
    BY <1>1, WithHeaderType DEF Requests
  <2>2. <<input>> \in Seq(Byte) /\ <<>> \in Seq(Byte)
    BY <1>2
  <2>3. r \in Requests
    BY <1>1, <2>1, <2>2 DEF Requests
  <2> QED
    BY <1>1, <1>3, <2>3, BreakType DEF HeaderStart
<1>4. CASE HeaderFold
  <2> DEFINE r == [req EXCEPT !.state = "HeaderLws"]
  <2>1. r \in Requests
    BY <1>1 DEF Requests
  <2> QED
    BY <1>1, <1>4, <2>1, BreakType DEF HeaderFold
<1>5. CASE HeaderName
  <2> DEFINE r == [req EXCEPT !.name = Append(@, input)]
  <2>1. r \in Requests
    BY <1>1, <1>2, AppendProperties DEF Requests
  <2> QED
    BY <1>1, <1>5, <2>1, BreakType DEF HeaderName
<1>6. CASE HeaderValue
  <2> DEFINE r == [req EXCEPT !.state = "HeaderValue", !.value = Append(@, input)]
  <2>1. r \in Requests
    BY <1>1, <1>2, AppendProperties DEF Requests
  <2> QED
    BY <1>1, <1>6, <2>1, BreakType DEF HeaderValue
<1>7. CASE HeaderEnd
  <2> DEFINE framed == Frames(req, "Transfer-Encoding") /\ req.value = <<"chunked">>
             r == [req EXCEPT
                     !.state = "ExpectingNewline_2",
                     !.contentSize = IF Frames(req, "Content-Length")
                                       THEN Atoi(req.value) % SizeMod ELSE @,
                     !.chunked = @ \/ framed]
  <2>1. (req.chunked \/ framed) \in BOOLEAN
    OBVIOUS
  <2>2. r \in Requests
    BY <1>1, <2>1, AtoiType DEF Requests
  <2> QED
    BY <1>1, <1>7, <2>2, BreakType DEF HeaderEnd
<1>8. CASE ExpectingNewline_3
  <2> DEFINE r == [req EXCEPT !.keepAlive = KeepAlive(req)]
             q == [r EXCEPT !.state = "ChunkSize"]
             p == [r EXCEPT !.state = "Post"]
  <2>1. KeepAlive(req) \in BOOLEAN
    BY <1>1 DEF KeepAlive, Requests
  <2>2. r \in Requests
    BY <1>1, <2>1 DEF Requests
  <2>3. q \in Requests /\ p \in Requests
    BY <2>2 DEF Requests, ChunkStates
  <2>4. CASE Break(q) \/ Break(p)
    BY <1>1, <2>3, <2>4, BreakType
  <2>5. CASE Return(IF input = "LF" THEN "complete" ELSE "error", r)
    BY <2>2, <2>5, ReturnType
  <2> QED
    BY <1>8, <2>4, <2>5 DEF ExpectingNewline_3
<1> QED
  BY <1>3, <1>4, <1>5, <1>6, <1>7, <1>8

LEMMA BodyType ==
  ASSUME TypeOK,
         Post \/ ChunkSize \/ ChunkSizeNewLine \/ ChunkData \/ LastChunk
  PROVE  TypeOK'
<1> USE DEF At, State, ChunkStates
<1>1. fragment # <<>> /\ req \in Requests
  BY DEF TypeOK, Post, ChunkSize, ChunkSizeNewLine, ChunkData, LastChunk
<1>2. input \in Byte
  BY <1>1, InputType
<1>3. Append(req.content, input) \in Seq(Byte)
  BY <1>1, <1>2, AppendProperties DEF Requests
<1>4. CASE Post
  <2> DEFINE r == [req EXCEPT !.contentSize = Decrement(@), !.content = Append(@, input)]
  <2>1. r \in Requests
    BY <1>1, <1>3, DecrementType DEF Requests
  <2> QED
    BY <1>1, <1>4, <2>1, BreakType, ReturnType DEF Post
<1>5. CASE ChunkSize
  <2> DEFINE r == [req EXCEPT !.chunkSizeStr = Append(@, input)]
  <2>1. r \in Requests
    BY <1>1, <1>2, AppendProperties DEF Requests
  <2> QED
    BY <1>1, <1>5, <2>1, BreakType DEF ChunkSize
<1>6. CASE ChunkSizeNewLine
  <2> DEFINE size == Strtol16(req.chunkSizeStr)
             next == AfterSize(size)
             r == [req EXCEPT !.state = next, !.chunkSize = size, !.chunkSizeStr = <<>>]
  <2>1. size \in Size /\ next \in State /\ <<>> \in Seq(Byte)
    BY Strtol16Type, EmptySeq DEF AfterSize
  <2> HIDE DEF size, next
  <2>2. r \in Requests
    BY <1>1, <2>1 DEF Requests
  <2> USE DEF size, next
  <2> QED
    BY <1>1, <1>6, <2>2, BreakType DEF ChunkSizeNewLine
<1>7. CASE ChunkData
  <2> DEFINE left == Decrement(req.chunkSize)
             r == [req EXCEPT
                     !.state = IF left = 0 THEN "ChunkDataNewLine_1" ELSE @,
                     !.chunkSize = left,
                     !.content = Append(@, input)]
  <2>1. left \in Size
    BY <1>1, DecrementType DEF Requests
  <2>2. r \in Requests
    BY <1>1, <1>3, <2>1 DEF Requests
  <2> QED
    BY <1>1, <1>7, <2>2, BreakType DEF ChunkData
<1>8. CASE LastChunk
  BY <1>1, <1>8, ReturnType DEF LastChunk
<1> QED
  BY <1>4, <1>5, <1>6, <1>7, <1>8

LEMMA InitType == Init => TypeOK
<1> SUFFICES ASSUME Init PROVE TypeOK
  OBVIOUS
<1>1. Fresh \in Requests
  BY SizeAssumption, EmptySeq DEF Fresh, Requests, State, RequestLine, Size
<1> QED
  BY <1>1, StreamsAssumption, EmptySeq DEF Init, TypeOK

LEMMA NextType == TypeOK /\ [Next]_vars => TypeOK'
<1> SUFFICES ASSUME TypeOK, [Next]_vars PROVE TypeOK'
  OBVIOUS
<1>1. ASSUME NEW n \in 1..Len(unread), ReadAll(n) PROVE TypeOK'
  <2>1. unread \in Seq(Byte) /\ Len(unread) \in Nat
    BY LenProperties DEF TypeOK
  <2>2. \A i \in 1..Len(unread) : unread[i] \in Byte
    BY <2>1, ElementOfSeq
  <2>3. SubSeq(unread, 1, n) \in Seq(Byte)
    BY <2>1, <2>2, SubSeqProperties
  <2>4. SubSeq(unread, n + 1, Len(unread)) \in Seq(Byte)
    BY <2>1, <2>2, SubSeqProperties
  <2> QED
    BY <1>1, <2>3, <2>4 DEF ReadAll, TypeOK
<1>2. CASE Move
  <2> PICK m \in Moves : fragment # <<>> /\ Break([req EXCEPT !.state = m[3]])
    BY <1>2 DEF Move
  <2>1. [req EXCEPT !.state = m[3]] \in Requests
    BY MoveTargets DEF TypeOK, Requests
  <2> QED
    BY <2>1, BreakType
<1>3. CASE Reject
  BY <1>3, ReturnType DEF Reject, TypeOK
<1>4. CASE UNCHANGED vars
  BY <1>4 DEF vars, TypeOK
<1> QED
  BY <1>1, <1>2, <1>3, <1>4, RequestLineType, HeaderType, BodyType DEF Next, ParseByte

(* Type correctness: in particular the two unsigned counters and the       *)
(* version numbers stay within their types.                                *)
THEOREM TypeCorrect == Spec => []TypeOK
BY InitType, NextType, PTL DEF Spec

-----------------------------------------------------------------------------
(* The request line is behind the parser for good.                         *)

LEMMA FrozenStep ==
  ASSUME TypeOK, [Next]_vars, req.state \notin RequestLine
  PROVE  /\ req'.state \notin RequestLine
         /\ req'.method = req.method
         /\ req'.url = req.url
<1> USE DEF TypeOK, Requests, Break, Return
<1>1. ASSUME NEW n \in 1..Len(unread), ReadAll(n)
      PROVE  req' = req
  BY <1>1 DEF ReadAll
<1>2. CASE Move
  <2> PICK m \in Moves : m[1] = req.state /\ Break([req EXCEPT !.state = m[3]])
    BY <1>2 DEF Move
  <2>1. m[3] \notin RequestLine
    BY MoveTargets
  <2> QED
    BY <2>1
<1>3. ~(RequestMethod \/ RequestUrl \/ SimpleRequest
        \/ VersionSlash \/ VersionMajor \/ VersionMinor)
  BY DEF RequestMethod, RequestUrl, SimpleRequest, VersionSlash, VersionMajor,
         VersionMinor, At, RequestLine
<1>4. CASE HeaderStart \/ HeaderFold \/ HeaderName \/ HeaderValue \/ HeaderEnd
  BY <1>4 DEF HeaderStart, HeaderFold, HeaderName, HeaderValue, HeaderEnd, RequestLine
<1>5. CASE ExpectingNewline_3
  BY <1>5 DEF ExpectingNewline_3, RequestLine
<1>6. CASE Post \/ ChunkSize
  BY <1>6 DEF Post, ChunkSize, RequestLine
<1>7. CASE ChunkSizeNewLine
  BY <1>7 DEF ChunkSizeNewLine, AfterSize, RequestLine
<1>8. CASE ChunkData
  BY <1>8 DEF ChunkData, RequestLine
<1>9. CASE LastChunk \/ Reject \/ UNCHANGED vars
  BY <1>9 DEF LastChunk, Reject, vars
<1> QED
  BY <1>1, <1>2, <1>3, <1>4, <1>5, <1>6, <1>7, <1>8, <1>9 DEF Next, ParseByte

(* No later byte changes the request line, whatever a client sends.        *)
THEOREM RequestLineIsFrozen == Spec => RequestLineFrozen
<1> DEFINE Frozen == req.state \notin RequestLine =>
                       /\ req'.state \notin RequestLine
                       /\ req'.method = req.method /\ req'.url = req.url
<1>1. TypeOK /\ [Next]_vars => [Frozen]_vars
  BY FrozenStep
<1> QED
  BY <1>1, TypeCorrect, PTL DEF Spec, RequestLineFrozen

-----------------------------------------------------------------------------
(* Bodies.  The framing headers are only obeyed for a method that has a    *)
(* body, and the method does not change after that.                        *)

BodyStates == ChunkStates \cup {"Post"}

NoBodyYet(r) == r.content = <<>> /\ r.contentSize = 0 /\ ~r.chunked

IInv ==
  /\ TypeOK
  /\ ChunkNeverUnderflows
  /\ NoUnderflowBeforeCompletion
  /\ BodyOnlyForBodyMethods
  /\ req.state \in RequestLine => NoBodyYet(req)
  /\ req.state \in BodyStates => req.method \in BodyMethods

LEMMA InitInvariant == Init => IInv
<1> SUFFICES ASSUME Init PROVE IInv
  OBVIOUS
<1>1. TypeOK
  BY InitType
<1> QED
  BY <1>1 DEF Init, Fresh, IInv, ChunkNeverUnderflows, NoUnderflowBeforeCompletion,
     BodyOnlyForBodyMethods, NoBodyYet, BodyStates, ChunkStates

LEMMA NextInvariant == IInv /\ [Next]_vars => IInv'
<1> SUFFICES ASSUME IInv, [Next]_vars PROVE IInv'
  OBVIOUS
<1>0. TypeOK'
  BY NextType DEF IInv
<1> USE <1>0 DEF IInv, TypeOK, Requests, ChunkNeverUnderflows, NoUnderflowBeforeCompletion,
            BodyOnlyForBodyMethods, NoBodyYet, BodyStates, Break, Return
<1>1. ASSUME NEW n \in 1..Len(unread), ReadAll(n) PROVE IInv'
  BY <1>1 DEF ReadAll
<1>2. CASE Move
  <2> PICK m \in Moves : m[1] = req.state /\ Break([req EXCEPT !.state = m[3]])
    BY <1>2 DEF Move
  <2>1. /\ m[3] \notin {"ChunkData", "Post"}
        /\ m[3] \in RequestLine => req.state \in RequestLine
        /\ m[3] \in ChunkStates => req.state \in ChunkStates
    BY MoveTargets
  <2> QED
    BY <2>1
<1>3. CASE RequestMethod \/ RequestUrl
  BY <1>3 DEF RequestMethod, RequestUrl, At, RequestLine, ChunkStates
<1>4. CASE SimpleRequest \/ VersionSlash \/ VersionMajor \/ VersionMinor
  <2> USE DEF At, RequestLine, ChunkStates
  <2>1. CASE SimpleRequest
    BY <2>1 DEF SimpleRequest
  <2>2. CASE VersionSlash
    BY <2>2 DEF VersionSlash
  <2>3. CASE VersionMajor
    BY <2>3 DEF VersionMajor
  <2>4. CASE VersionMinor
    BY <2>4 DEF VersionMinor
  <2> QED
    BY <1>4, <2>1, <2>2, <2>3, <2>4
<1>5. CASE HeaderStart \/ HeaderFold \/ HeaderName \/ HeaderValue
  <2> USE DEF RequestLine, ChunkStates
  <2>1. CASE HeaderStart
    BY <2>1 DEF HeaderStart
  <2>2. CASE HeaderFold
    BY <2>2 DEF HeaderFold
  <2>3. CASE HeaderName
    BY <2>3 DEF HeaderName, At
  <2>4. CASE HeaderValue
    BY <2>4 DEF HeaderValue
  <2> QED
    BY <1>5, <2>1, <2>2, <2>3, <2>4
<1>6. CASE HeaderEnd
  BY <1>6 DEF HeaderEnd, Frames, RequestLine, ChunkStates
<1>7. CASE ExpectingNewline_3
  <2>1. CASE req.chunked /\ Break([[req EXCEPT !.keepAlive = KeepAlive(req)]
                                     EXCEPT !.state = "ChunkSize"])
    BY <2>1 DEF RequestLine
  <2>2. CASE /\ req.contentSize # 0
             /\ Break([[req EXCEPT !.keepAlive = KeepAlive(req)] EXCEPT !.state = "Post"])
    BY <2>2 DEF RequestLine, ChunkStates
  <2>3. CASE Return(IF input = "LF" THEN "complete" ELSE "error",
                    [req EXCEPT !.keepAlive = KeepAlive(req)])
    BY <2>3
  <2> QED
    BY <1>7, <2>1, <2>2, <2>3 DEF ExpectingNewline_3, CountsBody
<1>8. CASE Post
  BY <1>8 DEF Post, At, RequestLine, ChunkStates
<1>9. CASE ChunkSize
  BY <1>9 DEF ChunkSize
<1>10. CASE ChunkSizeNewLine
  BY <1>10 DEF ChunkSizeNewLine, AfterSize, At, RequestLine, ChunkStates
<1>11. CASE ChunkData
  BY <1>11 DEF ChunkData, At, RequestLine, ChunkStates
<1>12. CASE LastChunk \/ Reject \/ UNCHANGED vars
  BY <1>12 DEF LastChunk, Reject, vars
<1> QED
  BY <1>1, <1>2, <1>3, <1>4, <1>5, <1>6, <1>7, <1>8, <1>9, <1>10, <1>11, <1>12
     DEF Next, ParseByte

THEOREM Invariance == Spec => []IInv
<1> QED
  BY InitInvariant, NextInvariant, PTL DEF Spec

(* No byte ends up in the body of a request without one, whatever its      *)
(* headers announce.                                                       *)
THEOREM BodiesWhereTheyBelong == Spec => []BodyOnlyForBodyMethods
<1>1. IInv => BodyOnlyForBodyMethods
  BY DEF IInv
<1> QED
  BY <1>1, Invariance, PTL

(* chunkSize is never decremented at zero, for any chunk sizes.            *)
THEOREM ChunkSizeIsSafe == Spec => []ChunkNeverUnderflows
<1>1. IInv => ChunkNeverUnderflows
  BY DEF IInv
<1> QED
  BY <1>1, Invariance, PTL

(* contentSize is never decremented at zero before the body is complete.   *)
THEOREM ContentSizeIsSafe == Spec => []NoUnderflowBeforeCompletion
<1>1. IInv => NoUnderflowBeforeCompletion
  BY DEF IInv
<1> QED
  BY <1>1, Invariance, PTL

-----------------------------------------------------------------------------
(* A byte more read is a byte less to come, also at zero.                  *)
LEMMA CountedOn ==
  ASSUME NEW n \in Size, NEW l \in Nat
  PROVE  (l + 1 + Decrement(n)) % SizeMod = (l + n) % SizeMod
<1>1. CASE n = 0
  <2>1. l + 1 + Decrement(n) = l + SizeMod
    BY <1>1, SizeAssumption DEF Decrement
  <2>2. (l + SizeMod) % SizeMod = l % SizeMod
    <3>1. SizeMod \in Nat \ {0} /\ l \in Int
      BY SizeAssumption
    <3> QED
      BY <3>1, WrapAround
  <2>3. l + n = l
    BY <1>1
  <2> QED
    BY <2>1, <2>2, <2>3
<1>2. CASE n # 0
  <2>1. l + 1 + Decrement(n) = l + n
    BY <1>2 DEF Decrement, Size
  <2> QED
    BY <2>1
<1> QED
  BY <1>1, <1>2

-----------------------------------------------------------------------------
(* The length of a body.                                                   *)

CL == <<"Content-Length">>

(* A number is what the stored headers announce, or zero if none does.     *)
Agrees(headers, n) ==
  \/ \E h \in headers : h[1] = CL /\ Atoi(h[2]) % SizeMod = n
  \/ n = 0 /\ \A h \in headers : h[1] # CL

(* A header line that has ended counts before the stored ones.             *)
Settled(r) ==
  IF r.name = CL THEN r.contentSize = Atoi(r.value) % SizeMod
                 ELSE Agrees(r.headers, r.contentSize)

Counted(r) ==
  LET n == (Len(r.content) + r.contentSize) % SizeMod IN
  IF r.name = CL THEN n = Atoi(r.value) % SizeMod
                 ELSE \E h \in r.headers : h[1] = CL /\ Atoi(h[2]) % SizeMod = n

OneLength(headers) == \A g, h \in headers : g[1] = CL /\ h[1] = CL => g = h

(* What contentSize says, state by state.  While a line is read, it is     *)
(* what the earlier lines say.                                             *)
LengthInv(r) ==
  /\ OneLength(r.headers)
  /\ r.state \in RequestLine => r.headers = {} /\ r.name = <<>>
  /\ r.state \in RequestLine \cup HeaderStates => r.content = <<>>
  /\ r.method \in BodyMethods =>
       /\ r.state \in {"HeaderName", "SpaceBeforeHeaderValue"} =>
            Agrees(r.headers, r.contentSize)
       /\ r.state = "HeaderValue" /\ r.name # CL => Agrees(r.headers, r.contentSize)
       /\ r.state \in {"HeaderLineStart", "HeaderLws", "ExpectingNewline_2",
                       "ExpectingNewline_3"} => Settled(r)
  /\ r.state = "Post" => Counted(r)

LEMMA ZeroRemainder ==
  ASSUME NEW n \in Size
  PROVE  (0 + n) % SizeMod = n
BY SizeAssumption DEF Size

(* The table of headers is keyed by the hash of their names alone, so a    *)
(* header whose name has the hash of Content-Length would replace the      *)
(* length that was announced.  The header about to be stored is no such.   *)
NoCollision ==
  req.state = "HeaderLineStart" /\ HeaderHash(req.name) = HeaderHash(CL) => req.name = CL

LEMMA CLType == CL \in Seq(Byte)
<1>1. "Content-Length" \in Byte
  BY LetterAssumption DEF Abbreviated, Byte
<1> QED
  BY <1>1 DEF CL

(* Storing a header: its value if it is a length, what was stored else.    *)
LEMMA StoreLength ==
  ASSUME NEW headers \in SUBSET (Seq(Byte) \X Seq(Byte)),
         NEW name \in Seq(Byte), NEW value \in Seq(Byte), OneLength(headers),
         HeaderHash(name) = HeaderHash(CL) => name = CL
  PROVE  LET stored == WithHeader(headers, name, value) IN
         /\ OneLength(stored)
         /\ name = CL => Agrees(stored, Atoi(value) % SizeMod)
         /\ \A n : name # CL /\ Agrees(headers, n) => Agrees(stored, n)
<1> DEFINE stored == WithHeader(headers, name, value)
<1>1. CASE name = CL
  <2>1. \A h \in stored : h[1] = CL => h = <<name, value>>
    BY <1>1 DEF WithHeader
  <2>2. <<name, value>> \in stored
    BY DEF WithHeader
  <2> QED
    BY <1>1, <2>1, <2>2 DEF OneLength, Agrees
<1>2. CASE name # CL
  <2>1. HeaderHash(name) # HeaderHash(CL)
    BY <1>2
  <2>2. \A h : h[1] = CL => (h \in stored <=> h \in headers)
    BY <1>2, <2>1 DEF WithHeader
  <2> QED
    BY <1>2, <2>2 DEF OneLength, Agrees
<1> QED
  BY <1>1, <1>2

LEMMA InitLength == Init => LengthInv(req)
BY DEF Init, Fresh, LengthInv, RequestLine, HeaderStates, OneLength

(* A step that only moves the parser.                                      *)
LEMMA MoveLength ==
  ASSUME IInv, LengthInv(req), Move
  PROVE  LengthInv(req')
<1> USE DEF IInv, TypeOK, Requests
<1>1. PICK m \in Moves : m[1] = req.state /\ Break([req EXCEPT !.state = m[3]])
  BY DEF Move
<1>2. req' = [req EXCEPT !.state = m[3]]
  BY <1>1 DEF Break
<1>3. CASE m \in RequestLineMoves /\ m[3] # "HeaderLineStart"
  <2>1. m[1] \in RequestLine /\ m[3] \in RequestLine
    BY <1>3 DEF RequestLineMoves, RequestLine
  <2> QED
    BY <1>1, <1>2, <2>1 DEF LengthInv, RequestLine, HeaderStates
<1>4. CASE m \in RequestLineMoves /\ m[3] = "HeaderLineStart"
  <2>1. m[1] \in RequestLine
    BY <1>4 DEF RequestLineMoves, RequestLine
  <2>2. req.headers = {} /\ req.name = <<>> /\ req.content = <<>> /\ req.contentSize = 0
    BY <1>1, <2>1 DEF LengthInv, NoBodyYet
  <2>3. req.name # CL
    BY <2>2 DEF CL
  <2> QED
    BY <1>2, <1>4, <2>2, <2>3 DEF LengthInv, RequestLine, Settled, Agrees, OneLength
<1>5. CASE m \in HeaderMoves
  <2>1. \/ m = <<"HeaderName", ":", "SpaceBeforeHeaderValue">>
        \/ m = <<"SpaceBeforeHeaderValue", "SP", "HeaderValue">>
        \/ /\ m[1] \in {"HeaderLineStart", "HeaderLws", "ExpectingNewline_2"}
           /\ m[3] \in {"HeaderLineStart", "HeaderLws", "ExpectingNewline_2",
                        "ExpectingNewline_3"}
    BY <1>5 DEF HeaderMoves
  <2>2. req.content = <<>>
    BY <1>1, <2>1 DEF LengthInv, HeaderStates
  <2>3. /\ req'.headers = req.headers /\ req'.name = req.name /\ req'.value = req.value
        /\ req'.method = req.method /\ req'.content = req.content
        /\ req'.contentSize = req.contentSize /\ req'.state = m[3] /\ req.state = m[1]
    BY <1>1, <1>2
  <2> HIDE DEF IInv, TypeOK, Requests
  <2>4. CASE m = <<"HeaderName", ":", "SpaceBeforeHeaderValue">>
    BY <2>2, <2>3, <2>4 DEF LengthInv, RequestLine
  <2>5. CASE m = <<"SpaceBeforeHeaderValue", "SP", "HeaderValue">>
    BY <2>2, <2>3, <2>5 DEF LengthInv, RequestLine
  <2>6. CASE /\ m[1] \in {"HeaderLineStart", "HeaderLws", "ExpectingNewline_2"}
             /\ m[3] \in {"HeaderLineStart", "HeaderLws", "ExpectingNewline_2",
                          "ExpectingNewline_3"}
    BY <2>2, <2>3, <2>6 DEF LengthInv, RequestLine, Settled
  <2> QED
    BY <2>1, <2>4, <2>5, <2>6
<1>6. CASE m \in ChunkMoves \cup TrailerMoves
  <2>1. m[3] \in ChunkStates
    BY <1>6 DEF ChunkMoves, TrailerMoves, ChunkStates
  <2> QED
    BY <1>2, <2>1 DEF LengthInv, RequestLine, HeaderStates, ChunkStates
<1> QED
  BY <1>3, <1>4, <1>5, <1>6 DEF Moves

LEMMA RequestLineLength ==
  ASSUME IInv, LengthInv(req),
         \/ RequestMethod \/ RequestUrl \/ SimpleRequest
         \/ VersionSlash \/ VersionMajor \/ VersionMinor
  PROVE  LengthInv(req')
<1> USE DEF At, RequestLine, HeaderStates, Break, Return, IInv, TypeOK, Requests
<1>1. req.state \in RequestLine
  BY DEF RequestMethod, RequestUrl, SimpleRequest, VersionSlash, VersionMajor, VersionMinor
<1>2. req.headers = {} /\ req.name = <<>> /\ req.content = <<>>
  BY <1>1 DEF LengthInv
<1>3. /\ req'.headers = req.headers /\ req'.name = req.name /\ req'.content = req.content
      /\ req'.state \in RequestLine
  <2>1. CASE RequestMethod \/ RequestUrl
    BY <2>1 DEF RequestMethod, RequestUrl
  <2>2. CASE SimpleRequest \/ VersionSlash
    BY <2>2 DEF SimpleRequest, VersionSlash
  <2>3. CASE VersionMajor
    BY <2>3 DEF VersionMajor
  <2>4. CASE VersionMinor
    BY <2>4 DEF VersionMinor
  <2> QED
    BY <2>1, <2>2, <2>3, <2>4
<1> QED
  BY <1>2, <1>3 DEF LengthInv, OneLength

LEMMA HeaderLength ==
  ASSUME NoCollision, IInv, LengthInv(req),
         HeaderStart \/ HeaderFold \/ HeaderName \/ HeaderValue \/ HeaderEnd
  PROVE  LengthInv(req')
<1> USE DEF IInv, TypeOK, Requests, Break
<1>1. req.state \in HeaderStates /\ req.content = <<>>
  BY DEF HeaderStart, HeaderFold, HeaderName, HeaderValue, HeaderEnd, At, ContinuesHeader,
         LengthInv, HeaderStates
<1>2. CASE HeaderStart
  <2> DEFINE stored == req.name # <<>>
             headers == IF stored THEN WithHeader(req.headers, req.name, req.value)
                                  ELSE req.headers
  <2>1. /\ req'.state = "HeaderName" /\ req'.headers = headers
        /\ req'.method = req.method /\ req'.content = <<>>
        /\ req'.contentSize = req.contentSize /\ req.state = "HeaderLineStart"
    BY <1>1, <1>2 DEF HeaderStart, At
  <2>2. HeaderHash(req.name) = HeaderHash(CL) => req.name = CL
    BY <2>1 DEF NoCollision
  <2>3. OneLength(headers)
    BY <2>2, StoreLength DEF LengthInv
  <2>4. ASSUME req.method \in BodyMethods PROVE Agrees(headers, req.contentSize)
    <3>1. Settled(req) /\ OneLength(req.headers)
      BY <2>1, <2>4 DEF LengthInv
    <3>2. CASE ~stored
      <4>1. headers = req.headers
        BY <3>2
      <4>2. req.name # CL
        <5>1. <<>> # CL
          BY DEF CL
        <5> QED
          BY <3>2, <5>1
      <4> HIDE DEF IInv, TypeOK, Requests, headers
      <4> QED
        BY <3>1, <4>1, <4>2 DEF Settled
    <3>3. CASE stored
      <4>1. headers = WithHeader(req.headers, req.name, req.value)
        BY <3>3
      <4>2. /\ req.name = CL => Agrees(headers, Atoi(req.value) % SizeMod)
            /\ req.name # CL /\ Agrees(req.headers, req.contentSize)
                 => Agrees(headers, req.contentSize)
        <5>1. /\ req.headers \in SUBSET (Seq(Byte) \X Seq(Byte))
              /\ req.name \in Seq(Byte) /\ req.value \in Seq(Byte)
          OBVIOUS
        <5> HIDE DEF IInv, TypeOK, Requests, headers
        <5> QED
          BY <2>2, <3>1, <4>1, <5>1, StoreLength
      <4> HIDE DEF IInv, TypeOK, Requests, headers
      <4> QED
        BY <3>1, <4>2 DEF Settled
    <3> QED
      BY <3>2, <3>3
  <2> HIDE DEF headers
  <2> QED
    BY <2>1, <2>3, <2>4 DEF LengthInv, RequestLine
<1>3. CASE HeaderFold
  <2>1. /\ req.state = "HeaderLineStart" /\ req' = [req EXCEPT !.state = "HeaderLws"]
    BY <1>3 DEF HeaderFold, ContinuesHeader
  <2> QED
    BY <1>1, <2>1 DEF LengthInv, RequestLine, Settled
<1>4. CASE HeaderName
  <2>1. /\ req.state = "HeaderName" /\ req' = [req EXCEPT !.name = Append(@, input)]
    BY <1>4 DEF HeaderName, At
  <2> QED
    BY <1>1, <2>1 DEF LengthInv, RequestLine
<1>5. CASE HeaderValue
  <2>1. /\ req.state \in {"HeaderLws", "HeaderValue"}
        /\ req' = [req EXCEPT !.state = "HeaderValue", !.value = Append(@, input)]
    BY <1>5 DEF HeaderValue, At
  <2> QED
    BY <1>1, <2>1 DEF LengthInv, RequestLine, Settled
<1>6. CASE HeaderEnd
  <2>1. /\ req.state = "HeaderValue"
        /\ req'.state = "ExpectingNewline_2" /\ req'.method = req.method
        /\ req'.headers = req.headers /\ req'.name = req.name /\ req'.value = req.value
        /\ req'.content = <<>>
        /\ req'.contentSize = IF Frames(req, "Content-Length")
                                THEN Atoi(req.value) % SizeMod ELSE req.contentSize
    BY <1>1, <1>6 DEF HeaderEnd, At
  <2>2. req.method \in BodyMethods => (Frames(req, "Content-Length") <=> req.name = CL)
    BY DEF Frames, CL
  <2> QED
    BY <2>1, <2>2 DEF LengthInv, RequestLine, Settled
<1> QED
  BY <1>2, <1>3, <1>4, <1>5, <1>6

LEMMA BodyStartLength ==
  ASSUME IInv, LengthInv(req), ExpectingNewline_3
  PROVE  LengthInv(req')
<1> USE DEF IInv, TypeOK, Requests, Break, Return
<1> DEFINE r == [req EXCEPT !.keepAlive = KeepAlive(req)]
<1>1. req.state = "ExpectingNewline_3" /\ req.content = <<>>
  BY DEF ExpectingNewline_3, At, LengthInv, HeaderStates
<1>2. CASE req' = [r EXCEPT !.state = "ChunkSize"]
  BY <1>2 DEF LengthInv, RequestLine, HeaderStates
<1>3. CASE req' = r
  BY <1>1, <1>3 DEF LengthInv, RequestLine, HeaderStates, Settled
<1>4. CASE CountsBody(req) /\ req' = [r EXCEPT !.state = "Post"]
  <2>1. req.contentSize # 0 /\ req.method \in BodyMethods
    BY <1>4 DEF CountsBody, BodyOnlyForBodyMethods
  <2>2. Settled(req)
    BY <1>1, <2>1 DEF LengthInv
  <2>3. (Len(req.content) + req.contentSize) % SizeMod = req.contentSize
    BY <1>1, ZeroRemainder, EmptySeq
  <2>4. Counted(req)
    BY <2>1, <2>2, <2>3 DEF Settled, Counted, Agrees
  <2> QED
    BY <1>4, <2>4 DEF LengthInv, RequestLine, HeaderStates, Counted
<1>5. CountsBody(r) = CountsBody(req)
  BY DEF CountsBody
<1> QED
  BY <1>2, <1>3, <1>4, <1>5 DEF ExpectingNewline_3

LEMMA BodyLength ==
  ASSUME IInv, LengthInv(req),
         Post \/ ChunkSize \/ ChunkSizeNewLine \/ ChunkData \/ LastChunk
  PROVE  LengthInv(req')
<1> USE DEF IInv, TypeOK, Requests, Break, Return, At
<1>1. CASE Post
  <2> DEFINE r == [req EXCEPT !.contentSize = Decrement(@), !.content = Append(@, input)]
  <2>1. fragment # <<>> /\ req.state = "Post" /\ req' = r
    BY <1>1 DEF Post
  <2>2. input \in Byte
    BY <2>1, InputType
  <2>3. Len(Append(req.content, input)) = Len(req.content) + 1 /\ Len(req.content) \in Nat
    BY <2>2, AppendProperties, LenProperties
  <2>4. (Len(req.content) + 1 + Decrement(req.contentSize)) % SizeMod
          = (Len(req.content) + req.contentSize) % SizeMod
    BY <2>3, CountedOn
  <2>5. Counted(req)
    BY <2>1 DEF LengthInv
  <2>6. Counted(req')
    BY <2>1, <2>3, <2>4, <2>5 DEF Counted
  <2> QED
    BY <2>1, <2>6 DEF LengthInv, RequestLine, HeaderStates
<1>2. CASE ChunkSize \/ LastChunk
  BY <1>2 DEF ChunkSize, LastChunk, LengthInv, RequestLine, HeaderStates
<1>3. CASE ChunkSizeNewLine
  BY <1>3 DEF ChunkSizeNewLine, AfterSize, LengthInv, RequestLine, HeaderStates
<1>4. CASE ChunkData
  BY <1>4 DEF ChunkData, LengthInv, RequestLine, HeaderStates
<1> QED
  BY <1>1, <1>2, <1>3, <1>4

LEMMA NextLength ==
  ASSUME NoCollision, IInv, LengthInv(req), [Next]_vars
  PROVE  LengthInv(req)'
<1>1. ASSUME NEW n \in 1..Len(unread), ReadAll(n) PROVE LengthInv(req')
  BY <1>1 DEF ReadAll
<1>2. CASE Reject \/ UNCHANGED vars
  BY <1>2 DEF Reject, Return, vars
<1>3. LengthInv(req')
  BY <1>1, <1>2, MoveLength, RequestLineLength, HeaderLength, BodyStartLength, BodyLength
     DEF Next, ParseByte
<1> QED
  BY <1>3 DEF LengthInv, Agrees, Settled, Counted, OneLength

LEMMA LengthImplies ==
  ASSUME LengthInv(req)
  PROVE  BodyAsAnnounced
<1> SUFFICES ASSUME req.state = "Post" PROVE
      {(Len(req.content) + req.contentSize) % SizeMod} = {n % SizeMod : n \in Announced(req)}
  BY DEF BodyAsAnnounced
<1> DEFINE n == (Len(req.content) + req.contentSize) % SizeMod
<1>1. Counted(req) /\ OneLength(req.headers)
  BY DEF LengthInv
<1>2. CASE req.name = CL
  <2>1. Announced(req) = {Atoi(req.value)}
    BY <1>2 DEF Announced, CL
  <2> QED
    BY <1>1, <1>2, <2>1 DEF Counted
<1>3. CASE req.name # CL
  <2>1. PICK h \in req.headers : h[1] = CL /\ Atoi(h[2]) % SizeMod = n
    BY <1>1, <1>3 DEF Counted
  <2>2. Announced(req) = {Atoi(h[2])}
    BY <1>1, <1>3, <2>1 DEF Announced, CL, OneLength
  <2> QED
    BY <2>1, <2>2
<1> QED
  BY <1>2, <1>3

(* The length announced last is what the body is measured by, for any      *)
(* requests, any fragmentation and any width of size_t, as long as no      *)
(* header is stored whose name collides with Content-Length.               *)
THEOREM BodiesAsAnnounced == Spec /\ []NoCollision => []BodyAsAnnounced
<1>1. Init => LengthInv(req)
  BY InitLength
<1>2. NoCollision /\ IInv /\ LengthInv(req) /\ [Next]_vars => LengthInv(req)'
  BY NextLength
<1>3. LengthInv(req) => BodyAsAnnounced
  BY LengthImplies
<1> QED
  BY <1>1, <1>2, <1>3, Invariance, PTL DEF Spec

-----------------------------------------------------------------------------
(* What has been read is never taken back: the url and the body grow by    *)
(* one byte or not at all, and the method is read before the url.          *)

MethodStates == {"RequestMethodStart", "RequestMethod"}

Grows(old, new) == new = old \/ \E c \in Byte : new = Append(old, c)

LEMMA MovesPastMethod ==
  ASSUME NEW m \in Moves
  PROVE  m[3] \notin MethodStates
<1>1. CASE m \in RequestLineMoves
  BY <1>1 DEF RequestLineMoves, MethodStates
<1>2. CASE m \in HeaderMoves
  BY <1>2 DEF HeaderMoves, MethodStates
<1>3. CASE m \in ChunkMoves
  BY <1>3 DEF ChunkMoves, MethodStates
<1>4. CASE m \in TrailerMoves
  BY <1>4 DEF TrailerMoves, MethodStates
<1> QED
  BY <1>1, <1>2, <1>3, <1>4 DEF Moves

LEMMA GrowStep ==
  ASSUME TypeOK, [Next]_vars
  PROVE  /\ Grows(req.url, req'.url) /\ Grows(req.content, req'.content)
         /\ req.state \notin MethodStates =>
              req'.method = req.method /\ req'.state \notin MethodStates
         /\ req'.url # req.url => req'.state \notin MethodStates
<1> USE DEF TypeOK, Requests, Break, Return, Grows, MethodStates
<1>1. ASSUME NEW n \in 1..Len(unread), ReadAll(n) PROVE req' = req
  BY <1>1 DEF ReadAll
<1>2. CASE Move
  <2> PICK m \in Moves : m[1] = req.state /\ Break([req EXCEPT !.state = m[3]])
    BY <1>2 DEF Move
  <2>1. m[3] \notin MethodStates
    BY MovesPastMethod
  <2> QED
    BY <2>1
<1>3. CASE RequestMethod
  BY <1>3 DEF RequestMethod, At
<1>4. CASE RequestUrl
  <2>1. input \in Byte
    BY <1>4, InputType DEF RequestUrl, At
  <2>2. req' = [req EXCEPT !.state = "RequestUrl", !.url = Append(@, input)]
    BY <1>4 DEF RequestUrl
  <2>3. req.state \in {"RequestUrlStart", "RequestUrl"}
    BY <1>4 DEF RequestUrl, At
  <2> QED
    BY <2>1, <2>2, <2>3
<1>5. CASE SimpleRequest
  BY <1>5 DEF SimpleRequest, At
<1>6. CASE VersionSlash \/ VersionMajor \/ VersionMinor
  BY <1>6 DEF VersionSlash, VersionMajor, VersionMinor, At
<1>7. CASE HeaderStart \/ HeaderFold \/ HeaderName \/ HeaderValue \/ HeaderEnd
  BY <1>7 DEF HeaderStart, HeaderFold, HeaderName, HeaderValue, HeaderEnd
<1>8. CASE ExpectingNewline_3
  BY <1>8 DEF ExpectingNewline_3, At
<1>9. CASE Post \/ ChunkData
  <2>1. input \in Byte
    BY <1>9, InputType DEF Post, ChunkData, At
  <2>2. /\ req'.content = Append(req.content, input)
        /\ req'.url = req.url /\ req'.method = req.method
    BY <1>9 DEF Post, ChunkData
  <2>3. req'.state \notin MethodStates
    BY <1>9 DEF Post, ChunkData, At
  <2> QED
    BY <2>1, <2>2, <2>3
<1>10. CASE ChunkSize
  BY <1>10 DEF ChunkSize
<1>11. CASE ChunkSizeNewLine
  BY <1>11 DEF ChunkSizeNewLine, AfterSize
<1>12. CASE LastChunk \/ Reject \/ UNCHANGED vars
  BY <1>12 DEF LastChunk, Reject, vars
<1> QED
  BY <1>1, <1>2, <1>3, <1>4, <1>5, <1>6, <1>7, <1>8, <1>9, <1>10, <1>11, <1>12
     DEF Next, ParseByte

(* A byte parsed comes from the fragment.                                  *)
LEMMA ParseKeepsUnread == ParseByte => UNCHANGED unread
BY DEF ParseByte, Move, Reject, RequestMethod, RequestUrl, SimpleRequest, VersionSlash,
       VersionMajor, VersionMinor, HeaderStart, HeaderFold, HeaderName, HeaderValue,
       HeaderEnd, ExpectingNewline_3, Post, ChunkSize, ChunkSizeNewLine, ChunkData,
       LastChunk, Break, Return

-----------------------------------------------------------------------------
(* No two cases of the switch compete for a byte.                          *)

DataTables == {RequestLineData, HeaderData, BodyData}

LEMMA ByteKinds ==
  /\ Letter \cap (Digit \cup Control \cup Special) = {}
  /\ \A c \in Token : c \notin {"SP", "HT", "CR", "LF", ":", "SEMI", "=", "/", "?"}
  /\ \A c \in Alnum : c \notin {"SP", "HT", "CR", "LF", ":", "SEMI", "=", "/", "?"}
  /\ \A c \in Digit : c \notin {"SP", "HT", "CR", "LF", ".", "H", "T", "P"}
BY LetterAssumption DEF Token, Byte, Alnum, Digit, Control, Special, Octet, Abbreviated

LEMMA MovesAreNoData ==
  ASSUME NEW m \in Moves, NEW data \in DataTables
  PROVE  /\ ~Takes(data, m[1], m[2])
         /\ m[1] = "HeaderLineStart" => m[2] \notin {"SP", "HT"}
<1> USE ByteKinds DEF DataTables, Takes, RequestLineData, HeaderData, BodyData, Control
<1>1. CASE m \in RequestLineMoves
  BY <1>1 DEF RequestLineMoves
<1>2. CASE m \in HeaderMoves
  BY <1>2 DEF HeaderMoves
<1>3. CASE m \in ChunkMoves
  BY <1>3 DEF ChunkMoves
<1>4. CASE m \in TrailerMoves
  BY <1>4 DEF TrailerMoves
<1> QED
  BY <1>1, <1>2, <1>3, <1>4, Zenon DEF Moves

LEMMA OneMove ==
  ASSUME NEW m \in Moves, NEW k \in Moves, m[1] = k[1], m[2] = k[2]
  PROVE  m[3] = k[3]
<1>1. CASE m \in RequestLineMoves
  BY <1>1 DEF Moves, RequestLineMoves, HeaderMoves, ChunkMoves, TrailerMoves
<1>2. CASE m \in HeaderMoves
  BY <1>2 DEF Moves, RequestLineMoves, HeaderMoves, ChunkMoves, TrailerMoves
<1>3. CASE m \in ChunkMoves
  BY <1>3, ByteKinds DEF Moves, RequestLineMoves, HeaderMoves, ChunkMoves, TrailerMoves, Control
<1>4. CASE m \in TrailerMoves
  BY <1>4, ByteKinds DEF Moves, RequestLineMoves, HeaderMoves, ChunkMoves, TrailerMoves, Control
<1> QED
  BY <1>1, <1>2, <1>3, <1>4, Zenon DEF Moves


(* A byte the tables take is dealt with by the case of its state.          *)
LEMMA DataByte ==
  ASSUME NEW r, NEW c, NEW data \in DataTables, Takes(data, r.state, c)
  PROVE  AfterByte(r, c) = AfterData(r, c) /\ Accepts(r, c)
<1>1. ~\E m \in Moves : m[1] = r.state /\ m[2] = c
  BY MovesAreNoData
<1>2. ~ContinuesHeader(r, c)
  BY ByteKinds DEF ContinuesHeader, DataTables, Takes, RequestLineData, HeaderData, BodyData
<1>3. Accepts(r, c)
  BY DEF Accepts, DataTables
<1> QED
  BY <1>1, <1>2, <1>3 DEF AfterByte

(* What the cases of the switch have in common.                            *)
Reads ==
  /\ req' = AfterByte(req, input)
  /\ fragment' = IF Returns(req, input) THEN <<>> ELSE Tail(fragment)

LEMMA MoveReads == ASSUME TypeOK, Move PROVE Reads
<1> PICK m \in Moves : /\ m[1] = req.state /\ m[2] = input
                       /\ Break([req EXCEPT !.state = m[3]])
  BY DEF Move
<1> DEFINE moves == {k \in Moves : k[1] = req.state /\ k[2] = input}
           first == CHOOSE k \in moves : TRUE
<1>1. m \in moves /\ first \in moves
  OBVIOUS
<1>2. first[3] = m[3]
  BY <1>1, OneMove
<1>3. req' = AfterByte(req, input)
  BY <1>1, <1>2 DEF Break, AfterByte
<1>4. ~Returns(req, input)
  <2>1. Accepts(req, input)
    BY DEF Accepts
  <2>2. \A data \in DataTables : ~Takes(data, req.state, input)
    BY MovesAreNoData
  <2>3. /\ ~Takes(HeaderData, "ExpectingNewline_3", input) \/ req.state # "ExpectingNewline_3"
        /\ ~Takes(RequestLineData, "RequestUrl", input) \/ req.state # "RequestUrl"
        /\ ~Takes(BodyData, "Post", input) \/ req.state # "Post"
        /\ ~Takes(BodyData, "ChunkSizeNewLine_3", input) \/ req.state # "ChunkSizeNewLine_3"
    BY <2>2 DEF DataTables
  <2>4. /\ req.state # "RequestUrl" \/ input # "CR"
        /\ req.state # "ChunkSizeNewLine_3" \/ input # "LF"
    BY <2>3 DEF Takes, RequestLineData, BodyData
  <2>5. req.state # "ExpectingNewline_3" /\ req.state # "Post"
    <3>1. m[1] \notin {"ExpectingNewline_3", "Post"}
      BY DEF Moves, RequestLineMoves, HeaderMoves, ChunkMoves, TrailerMoves
    <3> QED
      BY <3>1
  <2> QED
    BY <2>1, <2>4, <2>5 DEF Returns
<1> QED
  BY <1>3, <1>4 DEF Reads, Break

LEMMA RequestLineReads ==
  ASSUME TypeOK,
         \/ RequestMethod \/ RequestUrl \/ SimpleRequest
         \/ VersionSlash \/ VersionMajor \/ VersionMinor
  PROVE  Reads
<1>1. \E s \in DOMAIN RequestLineData : At(RequestLineData, s)
  BY DEF RequestMethod, RequestUrl, SimpleRequest, VersionSlash, VersionMajor, VersionMinor,
         RequestLineData
<1>2. AfterByte(req, input) = AfterData(req, input) /\ Accepts(req, input)
  BY <1>1, DataByte DEF At, DataTables
<1>3. CASE RequestMethod
  BY <1>2, <1>3 DEF RequestMethod, At, AfterData, Returns, Reads, Break
<1>4. CASE RequestUrl
  BY <1>2, <1>4 DEF RequestUrl, At, AfterData, Returns, Reads, Break
<1>5. CASE SimpleRequest
  BY <1>2, <1>5 DEF SimpleRequest, At, AfterData, Returns, Reads, Return
<1>6. CASE VersionSlash
  BY <1>2, <1>6 DEF VersionSlash, At, AfterData, Returns, Reads, Break
<1>7. CASE VersionMajor
  BY <1>2, <1>7 DEF VersionMajor, At, AfterData, Returns, Reads, Break
<1>8. CASE VersionMinor
  BY <1>2, <1>8 DEF VersionMinor, At, AfterData, Returns, Reads, Break
<1> QED
  BY <1>3, <1>4, <1>5, <1>6, <1>7, <1>8

LEMMA HeaderReads ==
  ASSUME TypeOK,
         \/ HeaderStart \/ HeaderFold \/ HeaderName \/ HeaderValue \/ HeaderEnd
         \/ ExpectingNewline_3
  PROVE  Reads
<1>1. CASE HeaderFold
  <2>1. /\ ContinuesHeader(req, input) /\ req.state = "HeaderLineStart"
        /\ Break([req EXCEPT !.state = "HeaderLws"])
    BY <1>1 DEF HeaderFold, ContinuesHeader
  <2>2. ~\E m \in Moves : m[1] = req.state /\ m[2] = input
    <3> SUFFICES ASSUME NEW m \in Moves, m[1] = req.state, m[2] = input PROVE FALSE
      OBVIOUS
    <3>1. HeaderData \in DataTables
      BY DEF DataTables
    <3>2. m[2] \notin {"SP", "HT"}
      BY <2>1, <3>1, MovesAreNoData
    <3> QED
      BY <2>1, <3>2 DEF ContinuesHeader
  <2>3. ~Returns(req, input)
    BY <2>1 DEF Returns, Accepts
  <2> QED
    BY <2>1, <2>2, <2>3 DEF AfterByte, Reads, Break
<1> SUFFICES ASSUME HeaderStart \/ HeaderName \/ HeaderValue \/ HeaderEnd \/ ExpectingNewline_3
             PROVE  Reads
  BY <1>1
<1>2. \E s \in DOMAIN HeaderData : At(HeaderData, s)
  BY DEF HeaderStart, HeaderName, HeaderValue, HeaderEnd, ExpectingNewline_3, HeaderData
<1>3. AfterByte(req, input) = AfterData(req, input) /\ Accepts(req, input)
  BY <1>2, DataByte DEF At, DataTables
<1>4. CASE HeaderStart
  BY <1>3, <1>4 DEF HeaderStart, At, AfterData, Returns, Reads, Break
<1>5. CASE HeaderName
  BY <1>3, <1>5 DEF HeaderName, At, AfterData, Returns, Reads, Break
<1>6. CASE HeaderValue
  BY <1>3, <1>6 DEF HeaderValue, At, AfterData, Returns, Reads, Break
<1>7. CASE HeaderEnd
  BY <1>3, <1>7 DEF HeaderEnd, At, AfterData, Returns, Reads, Break
<1>8. CASE ExpectingNewline_3
  <2>1. req \in Requests
    BY DEF TypeOK
  <2>2. req.state = "ExpectingNewline_3"
    BY <1>8 DEF ExpectingNewline_3, At
  <2> DEFINE r == [req EXCEPT !.keepAlive = KeepAlive(req)]
  <2>3. AfterData(req, input) =
          [req EXCEPT
            !.state = IF req.chunked THEN "ChunkSize"
                      ELSE IF CountsBody(req) THEN "Post" ELSE @,
            !.keepAlive = KeepAlive(req)]
    BY <2>2 DEF AfterData
  <2>4. r.chunked = req.chunked /\ (CountsBody(r) <=> CountsBody(req))
    BY <2>1 DEF Requests, CountsBody
  <2>5. CASE req.chunked
    <3>1. Break([r EXCEPT !.state = "ChunkSize"])
      BY <1>8, <2>4, <2>5 DEF ExpectingNewline_3
    <3> QED
      BY <1>3, <2>1, <2>2, <2>3, <2>5, <3>1 DEF Returns, Reads, Break, Requests
  <2>6. CASE ~req.chunked /\ CountsBody(req)
    <3>1. Break([r EXCEPT !.state = "Post"])
      BY <1>8, <2>4, <2>6 DEF ExpectingNewline_3
    <3> QED
      BY <1>3, <2>1, <2>2, <2>3, <2>6, <3>1 DEF Returns, Reads, Break, Requests
  <2>7. CASE ~req.chunked /\ ~CountsBody(req)
    <3>1. req' = r /\ fragment' = <<>>
      BY <1>8, <2>4, <2>7 DEF ExpectingNewline_3, Return
    <3> QED
      BY <1>3, <2>1, <2>2, <2>3, <2>7, <3>1 DEF Returns, Reads, Requests
  <2> QED
    BY <2>5, <2>6, <2>7
<1> QED
  BY <1>4, <1>5, <1>6, <1>7, <1>8

LEMMA BodyReads ==
  ASSUME TypeOK,
         Post \/ ChunkSize \/ ChunkSizeNewLine \/ ChunkData \/ LastChunk
  PROVE  Reads
<1>1. \E s \in DOMAIN BodyData : At(BodyData, s)
  BY DEF Post, ChunkSize, ChunkSizeNewLine, ChunkData, LastChunk, BodyData
<1>2. AfterByte(req, input) = AfterData(req, input) /\ Accepts(req, input)
  BY <1>1, DataByte DEF At, DataTables
<1>3. CASE Post
  <2> DEFINE r == [req EXCEPT !.contentSize = Decrement(@), !.content = Append(@, input)]
  <2>1. r.contentSize = Decrement(req.contentSize)
    BY DEF TypeOK, Requests
  <2>2. req.state = "Post"
    BY <1>3 DEF Post, At
  <2>3. AfterData(req, input) = r
    BY <2>2 DEF AfterData
  <2> QED
    BY <1>2, <1>3, <2>1, <2>2, <2>3 DEF Post, Returns, Reads, Break, Return
<1>4. CASE ChunkSize
  BY <1>2, <1>4 DEF ChunkSize, At, AfterData, Returns, Reads, Break
<1>5. CASE ChunkSizeNewLine
  BY <1>2, <1>5 DEF ChunkSizeNewLine, At, AfterData, Returns, Reads, Break
<1>6. CASE ChunkData
  BY <1>2, <1>6 DEF ChunkData, At, AfterData, Returns, Reads, Break
<1>7. CASE LastChunk
  <2>1. input = "LF"
    BY <1>7 DEF LastChunk, At, Takes, BodyData
  <2> QED
    BY <1>2, <1>7, <2>1 DEF LastChunk, At, AfterData, Returns, Reads, Return
<1> QED
  BY <1>3, <1>4, <1>5, <1>6, <1>7

(* No two cases of the switch compete for a byte, and what a byte does     *)
(* depends on nothing but the request and the byte: the parser is the      *)
(* function its bytes are read with in one go.                             *)
THEOREM ParsesByReading ==
  TypeOK /\ ParseByte =>
    /\ req' = AfterByte(req, input)
    /\ fragment' = IF Returns(req, input) THEN <<>> ELSE Tail(fragment)
<1> SUFFICES ASSUME TypeOK, ParseByte PROVE Reads
  BY DEF Reads
<1>1. CASE Reject
  BY <1>1 DEF Reject, Return, Reads, Returns, AfterByte, Accepts
<1> QED
  BY <1>1, MoveReads, RequestLineReads, HeaderReads, BodyReads DEF ParseByte

-----------------------------------------------------------------------------
(* What holds of a request however many bytes of it have been read, and    *)
(* how a byte more changes it.                                             *)

Sound(r) ==
  /\ r \in Requests
  /\ r.url # <<>> => r.state \notin MethodStates
  /\ r.state \in RequestLine \cup HeaderStates => r.content = <<>>
  /\ r.state \in ChunkStates => r.chunked
  /\ r.state # "MessageComplete"

Extends(r, q, c) ==
  /\ Grows(r.method, q.method) /\ Grows(r.url, q.url) /\ Grows(r.content, q.content)
  /\ r.state \notin MethodStates => q.state \notin MethodStates /\ q.method = r.method
  /\ r.state \notin RequestLine => q.state \notin RequestLine /\ q.url = r.url
  /\ r.chunked => q.chunked
  /\ r.state = "Post" => /\ q.state = "Post" /\ q.chunked = r.chunked
                         /\ q.content = Append(r.content, c)

LEMMA FreshIsSound == Sound(Fresh)
BY SizeAssumption, EmptySeq
   DEF Sound, Fresh, Requests, State, RequestLine, HeaderStates, ChunkStates, Size, MethodStates

LEMMA AfterCases ==
  ASSUME NEW r, NEW c
  PROVE  \/ AfterByte(r, c) = r /\ ~Accepts(r, c)
         \/ \E m \in Moves : m[1] = r.state /\ m[2] = c /\ AfterByte(r, c) = [r EXCEPT !.state = m[3]]
         \/ r.state = "HeaderLineStart" /\ AfterByte(r, c) = [r EXCEPT !.state = "HeaderLws"]
         \/ \E data \in DataTables : Takes(data, r.state, c) /\ AfterByte(r, c) = AfterData(r, c)
<1> DEFINE moves == {m \in Moves : m[1] = r.state /\ m[2] = c}
<1>1. CASE moves # {}
  <2> DEFINE first == CHOOSE m \in moves : TRUE
  <2>1. first \in moves
    BY <1>1
  <2>2. AfterByte(r, c) = [r EXCEPT !.state = first[3]]
    BY <1>1 DEF AfterByte
  <2> HIDE DEF first
  <2> QED
    BY <2>1, <2>2
<1>2. CASE moves = {} /\ ContinuesHeader(r, c)
  BY <1>2 DEF AfterByte, ContinuesHeader
<1>3. CASE moves = {} /\ ~ContinuesHeader(r, c) /\ Accepts(r, c)
  BY <1>3 DEF AfterByte, Accepts, DataTables
<1>4. CASE moves = {} /\ ~ContinuesHeader(r, c) /\ ~Accepts(r, c)
  BY <1>4 DEF AfterByte
<1> QED
  BY <1>1, <1>2, <1>3, <1>4

LEMMA MoveStays ==
  ASSUME NEW m \in Moves
  PROVE  /\ m[1] \in ChunkStates => m[3] \in ChunkStates
         /\ m[1] \in RequestLine => m[3] \in RequestLine \cup HeaderStates
         /\ m[1] \in HeaderStates => m[3] \in HeaderStates
         /\ m[1] # "Post" /\ m[1] \in State \ {"MessageComplete"}
<1> USE DEF State, RequestLine, HeaderStates, ChunkStates
<1>1. CASE m \in RequestLineMoves
  BY <1>1 DEF RequestLineMoves
<1>2. CASE m \in HeaderMoves
  BY <1>2 DEF HeaderMoves
<1>3. CASE m \in ChunkMoves
  BY <1>3 DEF ChunkMoves
<1>4. CASE m \in TrailerMoves
  BY <1>4 DEF TrailerMoves
<1> QED
  BY <1>1, <1>2, <1>3, <1>4, Zenon DEF Moves

LEMMA MoveExtends ==
  ASSUME NEW r, Sound(r), NEW c, NEW m \in Moves, m[1] = r.state
  PROVE  Sound([r EXCEPT !.state = m[3]]) /\ Extends(r, [r EXCEPT !.state = m[3]], c)
<1> DEFINE q == [r EXCEPT !.state = m[3]]
<1>1. /\ m[3] \in State \ {"ChunkData", "Post", "MessageComplete"}
      /\ m[1] \in RequestLine \/ m[3] \notin RequestLine
      /\ m[3] \in ChunkStates => m[1] \in ChunkStates
  BY MoveTargets
<1>2. m[3] \notin MethodStates
  BY MovesPastMethod
<1>3. /\ m[1] \in ChunkStates => m[3] \in ChunkStates
      /\ m[1] \in RequestLine => m[3] \in RequestLine \cup HeaderStates
      /\ m[1] \in HeaderStates => m[3] \in HeaderStates
      /\ m[1] # "Post" /\ m[1] \in State \ {"MessageComplete"}
  BY MoveStays
<1>4. r \in Requests
  BY DEF Sound
<1>5. q \in Requests /\ q.state = m[3]
  BY <1>1, <1>4 DEF Requests
<1>6. /\ q.method = r.method /\ q.url = r.url /\ q.content = r.content
      /\ q.chunked = r.chunked
  BY <1>4 DEF Requests
<1>7. m[1] \in RequestLine \cup HeaderStates \cup ChunkStates
  BY <1>3 DEF State
<1>8. r.state \notin ChunkStates => m[3] \notin ChunkStates
  BY <1>1
<1>9. m[3] \in RequestLine \cup HeaderStates => r.state \in RequestLine \cup HeaderStates
  BY <1>3, <1>7 DEF ChunkStates, RequestLine, HeaderStates
<1> HIDE DEF q
<1>10. Sound(q)
  BY <1>1, <1>2, <1>5, <1>6, <1>8, <1>9 DEF Sound
<1>11. Extends(r, q, c)
  BY <1>1, <1>2, <1>3, <1>5, <1>6 DEF Extends, Grows
<1> QED
  BY <1>10, <1>11 DEF q


LEMMA RequestLineExtends ==
  ASSUME NEW r, Sound(r), NEW c \in Byte, Takes(RequestLineData, r.state, c)
  PROVE  Sound(AfterData(r, c)) /\ Extends(r, AfterData(r, c), c)
<1> DEFINE q == AfterData(r, c)
<1>1. r \in Requests /\ r.content = <<>>
  BY DEF Sound, Takes, RequestLineData, RequestLine
<1>2. Append(r.method, c) \in Seq(Byte) /\ Append(r.url, c) \in Seq(Byte)
  BY <1>1, AppendProperties DEF Requests
<1>3. c = "CR" => r.state # "RequestUrlStart"
  BY DEF Takes, RequestLineData, Control
<1> USE DEF Requests, State, RequestLine, HeaderStates, ChunkStates, MethodStates
<1>4. CASE r.state \in {"RequestMethodStart", "RequestMethod"}
  <2>1. q = [r EXCEPT !.state = "RequestMethod", !.method = Append(@, c)]
    BY <1>4 DEF AfterData
  <2>2. r.url = <<>>
    BY <1>4 DEF Sound
  <2> HIDE DEF q
  <2>3. q.method = Append(r.method, c) /\ q.url = r.url /\ q.content = r.content
        /\ q.chunked = r.chunked /\ q.state = "RequestMethod" /\ q \in Requests
    BY <1>1, <1>2, <2>1
  <2> QED
    BY <1>1, <1>4, <2>2, <2>3 DEF Sound, Extends, Grows, q
<1>5. CASE r.state = "RequestUrl" /\ c = "CR"
  <2>1. q = [r EXCEPT !.major = 0, !.minor = 9]
    BY <1>5 DEF AfterData
  <2> HIDE DEF q
  <2>2. q.method = r.method /\ q.url = r.url /\ q.content = r.content
        /\ q.chunked = r.chunked /\ q.state = r.state /\ q \in Requests
    BY <1>1, <2>1
  <2> QED
    BY <1>1, <1>5, <2>2 DEF Sound, Extends, Grows, q
<1>6. CASE r.state \in {"RequestUrlStart", "RequestUrl"} /\ c # "CR"
  <2>1. q = [r EXCEPT !.state = "RequestUrl", !.url = Append(@, c)]
    BY <1>6 DEF AfterData
  <2> HIDE DEF q
  <2>2. q.method = r.method /\ q.url = Append(r.url, c) /\ q.content = r.content
        /\ q.chunked = r.chunked /\ q.state = "RequestUrl" /\ q \in Requests
    BY <1>1, <1>2, <2>1
  <2> QED
    BY <1>1, <1>6, <2>2 DEF Sound, Extends, Grows, q
<1>7. CASE r.state \in {"RequestHttpVersion_slash", "RequestHttpVersion_majorStart",
                        "RequestHttpVersion_major", "RequestHttpVersion_minorStart",
                        "RequestHttpVersion_minor"}
  <2>1. r.state # "RequestHttpVersion_slash" => c \in Digit
    BY <1>7 DEF Takes, RequestLineData
  <2>2. r.state # "RequestHttpVersion_slash" =>
          DigitValue(c) \in Nat /\ Shift(r.major, c) \in Nat /\ Shift(r.minor, c) \in Nat
    BY <1>1, <2>1, DigitValueType, ShiftType
  <2>3. /\ q.method = r.method /\ q.url = r.url /\ q.content = r.content
        /\ q.chunked = r.chunked /\ q \in Requests
        /\ q.state \in {"RequestHttpVersion_majorStart", "RequestHttpVersion_major",
                        "RequestHttpVersion_minor"}
    <3>1. CASE r.state = "RequestHttpVersion_slash"
      BY <1>1, <3>1 DEF AfterData
    <3>2. CASE r.state = "RequestHttpVersion_majorStart"
      BY <1>1, <2>2, <3>2 DEF AfterData
    <3>3. CASE r.state = "RequestHttpVersion_major"
      BY <1>1, <2>2, <3>3 DEF AfterData
    <3>4. CASE r.state = "RequestHttpVersion_minorStart"
      BY <1>1, <2>2, <3>4 DEF AfterData
    <3>5. CASE r.state = "RequestHttpVersion_minor"
      BY <1>1, <2>2, <3>5 DEF AfterData
    <3> QED
      BY <1>7, <3>1, <3>2, <3>3, <3>4, <3>5
  <2> HIDE DEF q
  <2> QED
    BY <1>1, <1>7, <2>3 DEF Sound, Extends, Grows, q
<1> QED
  BY <1>3, <1>4, <1>5, <1>6, <1>7 DEF Takes, RequestLineData

(* Of a step that leaves the request line, the body and its framing alone, *)
(* or asks for a body.                                                     *)
LEMMA QuietExtends ==
  ASSUME NEW r, Sound(r), NEW c, NEW q \in Requests,
         q.method = r.method, q.url = r.url, q.content = r.content,
         r.state \in HeaderStates, r.chunked => q.chunked,
         \/ q.state \in HeaderStates
         \/ q.state = "ChunkSize" /\ q.chunked
         \/ q.state = "Post"
  PROVE  Sound(q) /\ Extends(r, q, c)
<1> USE DEF RequestLine, HeaderStates, ChunkStates, MethodStates
<1>1. Sound(q)
  BY DEF Sound
<1>2. Extends(r, q, c)
  BY DEF Extends, Grows
<1> QED
  BY <1>1, <1>2

LEMMA HeaderExtends ==
  ASSUME NEW r, Sound(r), NEW c \in Byte, Takes(HeaderData, r.state, c)
  PROVE  Sound(AfterData(r, c)) /\ Extends(r, AfterData(r, c), c)
<1> DEFINE q == AfterData(r, c)
<1>1. r \in Requests /\ r.state \in HeaderStates
  BY DEF Sound, Takes, HeaderData, HeaderStates
<1> USE DEF Requests, State, HeaderStates
<1>2. CASE r.state = "HeaderLineStart"
  <2> DEFINE stored == r.name # <<>>
             headers == IF stored THEN WithHeader(r.headers, r.name, r.value) ELSE r.headers
             value == IF stored THEN <<>> ELSE r.value
  <2>1. q = [r EXCEPT !.state = "HeaderName", !.headers = headers,
                      !.name = <<c>>, !.value = value]
    BY <1>1, <1>2 DEF AfterData
  <2>2. headers \in SUBSET (Seq(Byte) \X Seq(Byte))
    BY <1>1, WithHeaderType
  <2>3. <<c>> \in Seq(Byte) /\ value \in Seq(Byte)
    BY <1>1, EmptySeq
  <2> HIDE DEF q, headers, value
  <2>4. q \in Requests /\ q.state = "HeaderName" /\ q.method = r.method /\ q.url = r.url
        /\ q.content = r.content /\ q.chunked = r.chunked
    BY <1>1, <2>1, <2>2, <2>3
  <2> QED
    BY <1>1, <2>4, QuietExtends DEF q
<1>3. CASE r.state = "HeaderName"
  <2>1. Append(r.name, c) \in Seq(Byte)
    BY <1>1, AppendProperties
  <2>2. q = [r EXCEPT !.name = Append(@, c)]
    BY <1>3 DEF AfterData
  <2> HIDE DEF q
  <2>3. q \in Requests /\ q.state = "HeaderName" /\ q.method = r.method /\ q.url = r.url
        /\ q.content = r.content /\ q.chunked = r.chunked
    BY <1>1, <1>3, <2>1, <2>2
  <2> QED
    BY <1>1, <2>3, QuietExtends DEF q
<1>4. CASE r.state = "HeaderValue" /\ c = "CR"
  <2> DEFINE chunked == r.chunked \/ (Frames(r, "Transfer-Encoding") /\ r.value = <<"chunked">>)
             size == IF Frames(r, "Content-Length") THEN Atoi(r.value) % SizeMod
                     ELSE r.contentSize
  <2>1. q = [r EXCEPT !.state = "ExpectingNewline_2", !.contentSize = size,
                      !.chunked = chunked]
    BY <1>4 DEF AfterData
  <2>2. size \in Size /\ chunked \in BOOLEAN /\ (r.chunked => chunked)
    BY <1>1, AtoiType
  <2> HIDE DEF q, chunked, size
  <2>3. q \in Requests /\ q.state = "ExpectingNewline_2" /\ q.method = r.method
        /\ q.url = r.url /\ q.content = r.content /\ q.chunked = chunked
    BY <1>1, <2>1, <2>2
  <2> QED
    BY <1>1, <2>2, <2>3, QuietExtends DEF q
<1>5. CASE r.state \in {"HeaderLws", "HeaderValue"} /\ c # "CR"
  <2>1. Append(r.value, c) \in Seq(Byte)
    BY <1>1, AppendProperties
  <2>2. q = [r EXCEPT !.state = "HeaderValue", !.value = Append(@, c)]
    BY <1>5 DEF AfterData
  <2> HIDE DEF q
  <2>3. q \in Requests /\ q.state = "HeaderValue" /\ q.method = r.method /\ q.url = r.url
        /\ q.content = r.content /\ q.chunked = r.chunked
    BY <1>1, <2>1, <2>2
  <2> QED
    BY <1>1, <2>3, QuietExtends DEF q
<1>6. CASE r.state = "ExpectingNewline_3"
  <2> DEFINE state == IF r.chunked THEN "ChunkSize"
                      ELSE IF CountsBody(r) THEN "Post" ELSE r.state
  <2>1. q = [r EXCEPT !.state = state, !.keepAlive = KeepAlive(r)]
    BY <1>6 DEF AfterData
  <2>2. KeepAlive(r) \in BOOLEAN
    BY <1>1 DEF KeepAlive
  <2>3. /\ state \in State
        /\ \/ state \in HeaderStates
           \/ state = "ChunkSize" /\ r.chunked
           \/ state = "Post"
    BY <1>1, <1>6 DEF ChunkStates
  <2> HIDE DEF q, state
  <2>4. q \in Requests /\ q.state = state /\ q.method = r.method /\ q.url = r.url
        /\ q.content = r.content /\ q.chunked = r.chunked
    BY <1>1, <2>1, <2>2, <2>3
  <2> QED
    BY <1>1, <2>3, <2>4, QuietExtends DEF q
<1>7. c = "CR" => r.state # "HeaderLws"
  BY DEF Takes, HeaderData, Control
<1> QED
  BY <1>2, <1>3, <1>4, <1>5, <1>6, <1>7 DEF Takes, HeaderData

LEMMA BodyExtends ==
  ASSUME NEW r, Sound(r), NEW c \in Byte, Takes(BodyData, r.state, c)
  PROVE  Sound(AfterData(r, c)) /\ Extends(r, AfterData(r, c), c)
<1> DEFINE q == AfterData(r, c)
<1>1. r \in Requests /\ r.state \in ChunkStates \cup {"Post"}
  BY DEF Sound, Takes, BodyData, ChunkStates
<1>2. Append(r.content, c) \in Seq(Byte) /\ Append(r.chunkSizeStr, c) \in Seq(Byte)
  BY <1>1, AppendProperties DEF Requests
<1>3. r.state \in ChunkStates => r.chunked
  BY DEF Sound
<1> USE DEF Requests, State, RequestLine, HeaderStates, ChunkStates, MethodStates
<1>4. CASE r.state = "Post"
  <2>1. q = [r EXCEPT !.contentSize = Decrement(@), !.content = Append(@, c)]
    BY <1>4 DEF AfterData
  <2>2. Decrement(r.contentSize) \in Size
    BY <1>1, DecrementType
  <2> HIDE DEF q
  <2>3. q.method = r.method /\ q.url = r.url /\ q.content = Append(r.content, c)
        /\ q.chunked = r.chunked /\ q.state = "Post" /\ q \in Requests
    BY <1>1, <1>2, <1>4, <2>1, <2>2
  <2> QED
    BY <1>4, <2>3 DEF Sound, Extends, Grows, q
<1>5. CASE r.state = "ChunkSize"
  <2>1. q = [r EXCEPT !.chunkSizeStr = Append(@, c)]
    BY <1>5 DEF AfterData
  <2> HIDE DEF q
  <2>2. q.method = r.method /\ q.url = r.url /\ q.content = r.content
        /\ q.chunked = r.chunked /\ q.state = "ChunkSize" /\ q \in Requests
    BY <1>1, <1>2, <1>5, <2>1
  <2> QED
    BY <1>3, <1>5, <2>2 DEF Sound, Extends, Grows, q
<1>6. CASE r.state = "ChunkSizeNewLine"
  <2> DEFINE size == Strtol16(r.chunkSizeStr)
             next == AfterSize(size)
  <2>1. q = [r EXCEPT !.state = next, !.chunkSize = size, !.chunkSizeStr = <<>>]
    BY <1>6 DEF AfterData
  <2>2. size \in Size /\ next \in {"ChunkSizeNewLine_2", "ChunkData"} /\ <<>> \in Seq(Byte)
    BY Strtol16Type, EmptySeq DEF AfterSize
  <2> HIDE DEF q, size, next
  <2>3. q.method = r.method /\ q.url = r.url /\ q.content = r.content
        /\ q.chunked = r.chunked /\ q.state = next /\ q \in Requests
    BY <1>1, <2>1, <2>2
  <2> QED
    BY <1>3, <1>6, <2>2, <2>3 DEF Sound, Extends, Grows, q
<1>7. CASE r.state = "ChunkData"
  <2> DEFINE left == Decrement(r.chunkSize)
             next == IF left = 0 THEN "ChunkDataNewLine_1" ELSE r.state
  <2>1. q = [r EXCEPT !.state = next, !.chunkSize = left, !.content = Append(@, c)]
    BY <1>7 DEF AfterData
  <2>2. left \in Size /\ next \in {"ChunkDataNewLine_1", "ChunkData"}
    BY <1>1, <1>7, DecrementType
  <2> HIDE DEF q, left, next
  <2>3. q.method = r.method /\ q.url = r.url /\ q.content = Append(r.content, c)
        /\ q.chunked = r.chunked /\ q.state = next /\ q \in Requests
    BY <1>1, <1>2, <2>1, <2>2
  <2> QED
    BY <1>3, <1>7, <2>2, <2>3 DEF Sound, Extends, Grows, q
<1>8. CASE r.state = "ChunkSizeNewLine_3"
  <2>1. q = r
    BY <1>8 DEF AfterData
  <2> HIDE DEF q
  <2> QED
    BY <1>8, <2>1 DEF Extends, Grows, q
<1> QED
  BY <1>4, <1>5, <1>6, <1>7, <1>8 DEF Takes, BodyData

(* A byte more.                                                            *)
LEMMA ByteExtends ==
  ASSUME NEW r, Sound(r), NEW c \in Byte
  PROVE  Sound(AfterByte(r, c)) /\ Extends(r, AfterByte(r, c), c)
<1> DEFINE q == AfterByte(r, c)
<1>1. CASE q = r /\ ~Accepts(r, c)
  <2>1. r.state # "Post"
    BY <1>1 DEF Accepts, Takes, BodyData
  <2> HIDE DEF q
  <2> QED
    BY <1>1, <2>1 DEF Extends, Grows, q
<1>2. ASSUME NEW m \in Moves, m[1] = r.state, q = [r EXCEPT !.state = m[3]]
      PROVE  Sound(q) /\ Extends(r, q, c)
  BY <1>2, MoveExtends
<1>3. CASE r.state = "HeaderLineStart" /\ q = [r EXCEPT !.state = "HeaderLws"]
  <2> HIDE DEF q
  <2>1. r \in Requests
    BY DEF Sound
  <2>2. q \in Requests /\ q.state = "HeaderLws" /\ q.method = r.method /\ q.url = r.url
        /\ q.content = r.content /\ q.chunked = r.chunked
    BY <1>3, <2>1 DEF Requests, State, HeaderStates
  <2> QED
    BY <1>3, <2>2, QuietExtends DEF HeaderStates, q
<1>4. ASSUME NEW data \in DataTables, Takes(data, r.state, c), q = AfterData(r, c)
      PROVE  Sound(q) /\ Extends(r, q, c)
  BY <1>4, RequestLineExtends, HeaderExtends, BodyExtends DEF DataTables
<1> QED
  BY <1>1, <1>2, <1>3, <1>4, AfterCases
=============================================================================
