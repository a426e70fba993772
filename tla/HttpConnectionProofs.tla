------------------------ MODULE HttpConnectionProofs ------------------------
(***************************************************************************)
(* Proofs about HttpConnection, for any clients, any fragmentation and any *)
(* routes: the calls of the handlers are held against a single reading of  *)
(* the first request (HttpReading).                                        *)
(***************************************************************************)
EXTENDS HttpConnection, SequenceTheorems, NumberLemmas, TLAPS

(* The parser with what has been proved about it.                          *)
Parser == INSTANCE HttpRequestProofs

-----------------------------------------------------------------------------
(* Request and Parser are two instances of one module with the same        *)
(* parameters: their definitions are equal word by word.                   *)

LEMMA SameParseByte == Request!ParseByte <=> Parser!ParseByte
BY DEF
  Request!ParseByte, Parser!ParseByte,
  Request!Digit, Request!Control, Request!Special, Request!Octet,
  Request!Byte, Request!Token, Request!Alnum, Request!RequestLine,
  Request!HeaderStates, Request!ChunkStates, Request!State, Request!Digits,
  Request!DigitValue, Request!Shift, Request!Atoi, Request!Strtol16,
  Request!Decrement, Request!NameOf, Request!BodyMethods, Request!WithHeader,
  Request!input, Request!Break, Request!Return, Request!RequestLineMoves,
  Request!HeaderMoves, Request!ChunkMoves, Request!TrailerMoves,
  Request!Moves, Request!RequestLineData, Request!HeaderData,
  Request!BodyData, Request!Takes, Request!ContinuesHeader, Request!Accepts,
  Request!At, Request!Move, Request!Reject, Request!RequestMethod,
  Request!RequestUrl, Request!SimpleRequest, Request!VersionSlash,
  Request!VersionMajor, Request!VersionMinor, Request!HeaderStart,
  Request!HeaderFold, Request!HeaderName, Request!HeaderValue, Request!Frames,
  Request!HeaderEnd, Request!KeepAlive, Request!CountsBody,
  Request!ExpectingNewline_3, Request!Post, Request!ChunkSize,
  Request!AfterSize, Request!ChunkSizeNewLine, Request!ChunkData,
  Request!LastChunk,
  Parser!Digit, Parser!Control, Parser!Special, Parser!Octet, Parser!Byte,
  Parser!Token, Parser!Alnum, Parser!RequestLine, Parser!HeaderStates,
  Parser!ChunkStates, Parser!State, Parser!Digits, Parser!DigitValue,
  Parser!Shift, Parser!Atoi, Parser!Strtol16, Parser!Decrement, Parser!NameOf,
  Parser!BodyMethods, Parser!WithHeader, Parser!input, Parser!Break,
  Parser!Return, Parser!RequestLineMoves, Parser!HeaderMoves,
  Parser!ChunkMoves, Parser!TrailerMoves, Parser!Moves,
  Parser!RequestLineData, Parser!HeaderData, Parser!BodyData, Parser!Takes,
  Parser!ContinuesHeader, Parser!Accepts, Parser!At, Parser!Move,
  Parser!Reject, Parser!RequestMethod, Parser!RequestUrl,
  Parser!SimpleRequest, Parser!VersionSlash, Parser!VersionMajor,
  Parser!VersionMinor, Parser!HeaderStart, Parser!HeaderFold,
  Parser!HeaderName, Parser!HeaderValue, Parser!Frames, Parser!HeaderEnd,
  Parser!KeepAlive, Parser!CountsBody, Parser!ExpectingNewline_3, Parser!Post,
  Parser!ChunkSize, Parser!AfterSize, Parser!ChunkSizeNewLine,
  Parser!ChunkData, Parser!LastChunk

LEMMA SameInit == Request!Init <=> Parser!Init
BY DEF Request!Init, Parser!Init, Request!Fresh, Parser!Fresh

LEMMA SameReadAll == ASSUME NEW n PROVE Request!ReadAll(n) <=> Parser!ReadAll(n)
BY DEF Request!ReadAll, Parser!ReadAll

LEMMA SameByte == Request!Byte = Parser!Byte
BY DEF Request!Byte, Parser!Byte, Request!Digit, Parser!Digit, Request!Control,
       Parser!Control, Request!Special, Parser!Special, Request!Octet, Parser!Octet

LEMMA SameMethod == ASSUME NEW r PROVE Request!Method(r) = Parser!Method(r)
BY DEF Request!Method, Parser!Method, Request!MethodNamed, Parser!MethodNamed,
       Request!NameOf, Parser!NameOf

-----------------------------------------------------------------------------
(* What happens on a connection, seen from its parser, is what the parser  *)
(* does with a stream of its own.                                          *)

LEMMA ParserStep == [Next]_vars => [Parser!Next]_(Parser!vars)
<1> SUFFICES ASSUME [Next]_vars PROVE [Parser!Next]_(Parser!vars)
  OBVIOUS
<1>1. CASE ReadyRead
  BY <1>1, SameReadAll DEF ReadyRead, Parser!Next
<1>2. CASE Parse
  BY <1>2, SameParseByte DEF Parse, Parser!Next
<1>3. CASE HandleRequest \/ UNCHANGED vars
  BY <1>3 DEF HandleRequest, vars, Parser!vars
<1> QED
  BY <1>1, <1>2, <1>3 DEF Next

THEOREM ParsesAStream == Spec => Parser!Spec
<1>1. Init => Parser!Init
  BY SameInit DEF Init
<1> QED
  BY <1>1, ParserStep, PTL DEF Spec, Parser!Spec

(* So what is proved of the parser holds on every connection.              *)
LEMMA ParserTyped == Spec => []Parser!TypeOK
<1>1. Parser!Spec => []Parser!TypeOK
  BY Parser!TypeCorrect, RequestAssumption, SameByte
     DEF Request!Abbreviated, Request!Digit, Request!Control, Request!Special, Request!Octet,
         Parser!Abbreviated, Parser!Digit, Parser!Control, Parser!Special, Parser!Octet
<1> QED
  BY <1>1, ParsesAStream, PTL

-----------------------------------------------------------------------------
(* The routing table is a sequence of routes, and what a request is routed *)
(* to is an index into it, or 0.                                           *)

Route == [pattern : Seq(Request!Byte), methods : SUBSET Router!AllMethods]

LEMMA AddRouteType ==
  ASSUME NEW routes \in Seq(Route),
         NEW route \in [pattern : Seq(Request!Byte), methods : SUBSET STRING]
  PROVE  Router!AddRoute(routes, route) \in Seq(Route)
<1> DEFINE methods == Router!StrToMethods(route.methods)
           added == [route EXCEPT !.methods = methods]
<1>1. methods \subseteq Router!AllMethods
  <2>1. \A n \in DOMAIN Router!MethodFlags : Router!MethodFlags[n] \subseteq Router!AllMethods
    BY DEF Router!MethodFlags, Router!AllMethods
  <2> QED
    BY <2>1 DEF Router!StrToMethods
<1>2. added \in Route
  BY <1>1 DEF Route
<1> HIDE DEF added
<1>3. Append(routes, added) \in Seq(Route)
  BY <1>2, AppendProperties
<1> QED
  BY <1>3 DEF Router!AddRoute, added

(* The routes after each registration.                                     *)
Registers(f, registrations, n) ==
  /\ f = [i \in 0..n |-> f[i]]
  /\ \A i \in 0..n :
       f[i] = IF i = 0 THEN <<>> ELSE Router!AddRoute(f[i - 1], registrations[i])

LEMMA Registration ==
  ASSUME NEW registrations, NEW n \in Nat
  PROVE  \E f : Registers(f, registrations, n)
<1> DEFINE S == {m \in Nat : \E f : Registers(f, registrations, m)}
<1>1. 0 \in S
  <2> DEFINE f == [i \in 0..0 |-> <<>>]
  <2>1. Registers(f, registrations, 0)
    BY DEF Registers
  <2> HIDE DEF f
  <2> QED
    BY <2>1
<1>2. ASSUME NEW m \in Nat, m \in S PROVE m + 1 \in S
  <2>1. PICK f : Registers(f, registrations, m)
    BY <1>2
  <2> DEFINE last == Router!AddRoute(f[m], registrations[m + 1])
             g == [i \in 0..(m + 1) |-> IF i = m + 1 THEN last ELSE f[i]]
  <2>2. \A i \in 0..m :
          f[i] = IF i = 0 THEN <<>> ELSE Router!AddRoute(f[i - 1], registrations[i])
    BY <2>1 DEF Registers
  <2>3. ASSUME NEW i \in 0..(m + 1)
        PROVE  g[i] = IF i = 0 THEN <<>> ELSE Router!AddRoute(g[i - 1], registrations[i])
    <3>1. CASE i = m + 1
      <4>1. g[i] = last /\ g[i - 1] = f[m] /\ i # 0
        BY <3>1
      <4> QED
        BY <3>1, <4>1
    <3>2. CASE i = 0
      <4>1. 0 \in 0..m /\ g[0] = f[0]
        OBVIOUS
      <4>2. f[0] = <<>>
        BY <2>2, <4>1
      <4> QED
        BY <3>2, <4>1, <4>2
    <3>3. CASE i \in 1..m
      <4>1. g[i] = f[i] /\ g[i - 1] = f[i - 1] /\ i # 0
        BY <3>3
      <4>2. i \in 0..m /\ i # 0
        BY <3>3
      <4>3. f[i] = Router!AddRoute(f[i - 1], registrations[i])
        BY <2>2, <4>2
      <4> QED
        BY <4>1, <4>3
    <3> QED
      BY <3>1, <3>2, <3>3
  <2>4. g = [i \in 0..(m + 1) |-> g[i]]
    OBVIOUS
  <2> HIDE DEF g
  <2>5. Registers(g, registrations, m + 1)
    BY <2>3, <2>4 DEF Registers
  <2> QED
    BY <2>5
<1>3. Nat \subseteq S
  <2> HIDE DEF S
  <2> QED
    BY <1>1, <1>2, Induction
<1> QED
  BY <1>3

LEMMA RoutesType == Routes \in Seq(Route)
<1> DEFINE n == Len(Registrations)
           F(g) == g = [i \in 0..n |-> IF i = 0 THEN <<>>
                                       ELSE Router!AddRoute(g[i - 1], Registrations[i])]
           table == CHOOSE g : F(g)
<1>1. n \in Nat
  BY RegistrationsAssumption, LenProperties
<1>2. \A i \in 1..n : Registrations[i] \in [pattern : Seq(Request!Byte), methods : SUBSET STRING]
  BY RegistrationsAssumption, ElementOfSeq
<1>3. Routes = table[n]
  BY DEF Routes, Router!RouteTable
<1> HIDE DEF n
<1>4. F(table)
  <2>1. PICK g : Registers(g, Registrations, n)
    BY <1>1, Registration
  <2>2. F(g)
    BY <2>1 DEF Registers
  <2> HIDE DEF F
  <2> QED
    BY <2>2
<1> HIDE DEF table
<1> DEFINE S == {m \in Nat : m <= n => table[m] \in Seq(Route)}
<1>5. 0 \in S
  <2>1. table[0] = <<>>
    BY <1>1, <1>4
  <2> QED
    BY <2>1, EmptySeq
<1>6. ASSUME NEW m \in Nat, m \in S PROVE m + 1 \in S
  <2> SUFFICES ASSUME m + 1 <= n PROVE table[m + 1] \in Seq(Route)
    OBVIOUS
  <2>1. table[m + 1] = Router!AddRoute(table[m], Registrations[m + 1])
    BY <1>1, <1>4
  <2>2. table[m] \in Seq(Route) /\ m + 1 \in 1..n
    BY <1>1, <1>6
  <2> QED
    BY <1>2, <2>1, <2>2, AddRouteType
<1>7. Nat \subseteq S
  <2> HIDE DEF S
  <2> QED
    BY <1>5, <1>6, Induction
<1> QED
  BY <1>1, <1>3, <1>7

LEMMA RouteOfType ==
  ASSUME NEW method, NEW url
  PROVE  Router!RouteOf(Routes, method, url) \in 0..Len(Routes)
<1> DEFINE I == {i \in 1..Len(Routes) : Router!Matches(Routes[i], method, url)}
<1>1. Len(Routes) \in Nat
  BY RoutesType, LenProperties
<1>2. CASE I = {}
  BY <1>1, <1>2 DEF Router!RouteOf, Router!SelectInSeq
<1>3. CASE I # {}
  <2>1. \E x \in I : \A y \in I : x <= y
    <3>1. I \subseteq Nat
      OBVIOUS
    <3> HIDE DEF I
    <3> QED
      BY <1>3, <3>1, LeastElement
  <2>2. (CHOOSE x \in I : \A y \in I : x <= y) \in I
    BY <2>1
  <2>3. Router!RouteOf(Routes, method, url) = CHOOSE x \in I : \A y \in I : x <= y
    BY <1>3 DEF Router!RouteOf, Router!SelectInSeq, Router!Min
  <2> QED
    BY <1>1, <2>2, <2>3
<1> QED
  BY <1>2, <1>3

-----------------------------------------------------------------------------
(* The inductive invariant: what the last handler saw is a part of what    *)
(* has been parsed, and the method is read before the url.                 *)

MethodStates == {"RequestMethodStart", "RequestMethod"}

IInv ==
  /\ TypeOK
  /\ read \in Nat
  /\ call.url \in Seq(Request!Byte) /\ IsPrefix(call.url, req.url)
  /\ call.body \in Seq(Request!Byte) /\ IsPrefix(call.body, req.content)
  /\ req.url # <<>> => req.state \notin MethodStates
  /\ call.url # <<>> => call.method = Request!Method(req)

LEMMA PrefixIsReflexive == ASSUME NEW S, NEW s \in Seq(S) PROVE IsPrefix(s, s)
BY LenProperties DEF IsPrefix

LEMMA EmptyIsPrefix == ASSUME NEW S, NEW s \in Seq(S) PROVE IsPrefix(<<>>, s)
<1>1. Len(<<>>) = 0 /\ Len(s) \in Nat /\ <<>> \in Seq(S)
  BY LenProperties, EmptySeq
<1>2. SubSeq(<<>>, 1, 0) = <<>> /\ SubSeq(s, 1, 0) = <<>>
  BY <1>1, SubSeqEmpty
<1> QED
  BY <1>1, <1>2 DEF IsPrefix

LEMMA PrefixOfAppend ==
  ASSUME NEW S, NEW s \in Seq(S), NEW t \in Seq(S), NEW c \in S, IsPrefix(s, t)
  PROVE  IsPrefix(s, Append(t, c))
<1> DEFINE n == Len(s)
           u == Append(t, c)
<1>1. n \in Nat /\ Len(t) \in Nat /\ n <= Len(t) /\ SubSeq(s, 1, n) = SubSeq(t, 1, n)
  BY LenProperties DEF IsPrefix
<1>2. u \in Seq(S) /\ Len(u) = Len(t) + 1 /\ \A i \in 1..Len(t) : u[i] = t[i]
  BY AppendProperties
<1> HIDE DEF u, n
<1>3. SubSeq(u, 1, n) = SubSeq(t, 1, n)
  <2>1. SubSeq(u, 1, n) = [i \in 1..n |-> u[i]] /\ SubSeq(t, 1, n) = [i \in 1..n |-> t[i]]
    BY <1>1, <1>2
  <2>2. \A i \in 1..n : u[i] = t[i]
    BY <1>1, <1>2
  <2> QED
    BY <2>1, <2>2
<1> QED
  BY <1>1, <1>2, <1>3 DEF IsPrefix, u, n

(* A prefix of what only grows stays one.                                  *)
LEMMA PrefixGrows ==
  ASSUME NEW s \in Seq(Request!Byte), NEW t \in Seq(Request!Byte), NEW u,
         IsPrefix(s, t), Parser!Grows(t, u)
  PROVE  IsPrefix(s, u)
BY PrefixOfAppend, SameByte DEF Parser!Grows

LEMMA NotEmpty ==
  ASSUME NEW S, NEW s \in Seq(S), NEW t \in Seq(S), IsPrefix(s, t), s # <<>>
  PROVE  t # <<>>
BY EmptySeq, LenProperties DEF IsPrefix

LEMMA InitInv == Init => IInv
<1> SUFFICES ASSUME Init PROVE IInv
  OBVIOUS
<1>1. /\ client \in DOMAIN Dialogues /\ phase = "waiting" /\ read = 0
      /\ unread = BytesOf(Dialogues[client]) /\ call = NoCall
      /\ req = Request!Fresh /\ fragment = <<>>
  BY DEF Init, Request!Init
<1>2. unread \in Seq(Request!Byte)
  BY <1>1, DialogueAssumption, RequestAssumption
<1>3. 0 + Len(unread) = Len(unread) /\ 0 \in 0..Len(Routes)
  BY <1>2, RoutesType, LenProperties
<1>4. TypeOK
  BY <1>1, <1>3 DEF TypeOK, NoCall
<1>5. req.url = <<>> /\ req.content = <<>>
  BY <1>1 DEF Request!Fresh
<1>6. call.url = <<>> /\ call.body = <<>> /\ <<>> \in Seq(Request!Byte)
  BY <1>1, EmptySeq DEF NoCall
<1>7. IsPrefix(call.url, req.url) /\ IsPrefix(call.body, req.content)
  BY <1>5, <1>6, EmptyIsPrefix
<1> QED
  BY <1>1, <1>4, <1>5, <1>6, <1>7 DEF IInv

(* The parser goes on, whatever part of the stream arrives.                *)
LEMMA ParserGrows ==
  ASSUME IInv, Parser!TypeOK, [Next]_vars
  PROVE  /\ call.url \in Seq(Request!Byte) /\ IsPrefix(call.url, req'.url)
         /\ call.body \in Seq(Request!Byte) /\ IsPrefix(call.body, req'.content)
         /\ req'.url # <<>> => req'.state \notin MethodStates
         /\ call.url # <<>> => call.method = Request!Method(req')
<1>1. /\ Parser!Grows(req.url, req'.url) /\ Parser!Grows(req.content, req'.content)
      /\ req.state \notin MethodStates =>
           req'.method = req.method /\ req'.state \notin MethodStates
      /\ req'.url # req.url => req'.state \notin MethodStates
  BY ParserStep, Parser!GrowStep, RequestAssumption, SameByte
     DEF MethodStates, Parser!MethodStates,
         Request!Abbreviated, Request!Digit, Request!Control, Request!Special, Request!Octet,
         Parser!Abbreviated, Parser!Digit, Parser!Control, Parser!Special, Parser!Octet
<1>2. /\ call.url \in Seq(Request!Byte) /\ IsPrefix(call.url, req.url)
      /\ call.body \in Seq(Request!Byte) /\ IsPrefix(call.body, req.content)
      /\ req.url # <<>> => req.state \notin MethodStates
      /\ call.url # <<>> => call.method = Request!Method(req)
  BY DEF IInv
<1>3. req.url \in Seq(Request!Byte) /\ req.content \in Seq(Request!Byte)
  BY SameByte DEF Parser!TypeOK, Parser!Requests
<1>4. IsPrefix(call.url, req'.url) /\ IsPrefix(call.body, req'.content)
  BY <1>1, <1>2, <1>3, PrefixGrows
<1>5. ASSUME call.url # <<>> PROVE call.method = Request!Method(req')
  <2>1. req.url # <<>>
    BY <1>2, <1>3, <1>5, NotEmpty
  <2>2. req'.method = req.method
    BY <1>1, <1>2, <2>1
  <2> QED
    BY <1>2, <1>5, <2>2 DEF Request!Method
<1> QED
  BY <1>1, <1>2, <1>4, <1>5

LEMMA ReadyReadInv ==
  ASSUME IInv, Parser!TypeOK, ReadyRead
  PROVE  IInv'
<1>1. PICK n \in 1..Len(unread) :
        /\ unread' = SubSeq(unread, n + 1, Len(unread))
        /\ read' = read + n
  BY DEF ReadyRead, Request!ReadAll
<1>2. phase' = "parsing" /\ client' = client /\ call' = call
  BY DEF ReadyRead
<1>3. unread \in Seq(Request!Byte) /\ Len(unread) \in Nat
  BY LenProperties, SameByte DEF Parser!TypeOK
<1>4. Len(unread') = Len(unread) - n
  BY <1>1, <1>3, SubSeqProperties
<1>5. /\ client \in DOMAIN Dialogues /\ read \in Nat /\ call.route \in 0..Len(Routes)
      /\ read + Len(unread) = Len(BytesOf(Dialogues[client]))
  BY DEF IInv, TypeOK
<1>6. (read + n) + (Len(unread) - n) = read + Len(unread) /\ read + n \in Nat
  BY <1>3, <1>5
<1>7. TypeOK' /\ read' \in Nat
  BY <1>1, <1>2, <1>4, <1>5, <1>6 DEF TypeOK
<1>8. Next
  BY DEF Next
<1> QED
  BY <1>2, <1>7, <1>8, ParserGrows DEF IInv

LEMMA ParseInv ==
  ASSUME IInv, Parser!TypeOK, Parse
  PROVE  IInv'
<1>1. unread' = unread
  BY Parser!ParseKeepsUnread, SameParseByte, RequestAssumption, SameByte
     DEF Parse, Request!Abbreviated, Request!Digit, Request!Control, Request!Special,
         Request!Octet, Parser!Abbreviated, Parser!Digit, Parser!Control, Parser!Special,
         Parser!Octet
<1>2. phase = "parsing" /\ phase' = phase /\ client' = client /\ call' = call /\ read' = read
  BY DEF Parse
<1>3. TypeOK' /\ read' \in Nat
  BY <1>1, <1>2 DEF IInv, TypeOK
<1>4. Next
  BY DEF Next
<1> QED
  BY <1>2, <1>3, <1>4, ParserGrows DEF IInv

LEMMA HandleRequestInv ==
  ASSUME IInv, Parser!TypeOK, HandleRequest
  PROVE  IInv'
<1>1. /\ req' = req /\ fragment' = fragment /\ unread' = unread /\ client' = client
      /\ read' = read /\ fragment = <<>>
  BY DEF HandleRequest
<1>2. /\ call'.route = Router!RouteOf(Routes, Request!Method(req), req.url)
      /\ call'.method = Request!Method(req)
      /\ call'.url = req.url /\ call'.body = req.content
  BY DEF HandleRequest
<1>3. phase' = "waiting"
  BY DEF HandleRequest
<1>4. call'.route \in 0..Len(Routes)
  BY <1>2, RouteOfType
<1>5. TypeOK' /\ read' \in Nat
  BY <1>1, <1>3, <1>4 DEF IInv, TypeOK
<1>6. req.url \in Seq(Request!Byte) /\ req.content \in Seq(Request!Byte)
  BY SameByte DEF Parser!TypeOK, Parser!Requests
<1>7. IsPrefix(req.url, req.url) /\ IsPrefix(req.content, req.content)
  BY <1>6, PrefixIsReflexive
<1>8. req.url # <<>> => req.state \notin MethodStates
  BY DEF IInv
<1> QED
  BY <1>1, <1>2, <1>5, <1>6, <1>7, <1>8 DEF IInv

LEMMA NextInv == IInv /\ Parser!TypeOK /\ [Next]_vars => IInv'
<1> SUFFICES ASSUME IInv, Parser!TypeOK, [Next]_vars PROVE IInv'
  OBVIOUS
<1>1. CASE UNCHANGED vars
  BY <1>1 DEF vars, IInv, TypeOK
<1> QED
  BY <1>1, ReadyReadInv, ParseInv, HandleRequestInv DEF Next

THEOREM Invariance == Spec => []IInv
<1> QED
  BY InitInv, NextInv, ParserTyped, PTL DEF Spec

(* The bytes read and those still to come are those of the dialogue, and a *)
(* request is routed to a registered route or to none.                     *)
THEOREM TypeCorrect == Spec => []TypeOK
<1>1. IInv => TypeOK
  BY DEF IInv
<1> QED
  BY <1>1, Invariance, PTL

(* No call of a handler takes back what an earlier one was shown.          *)
LEMMA GrowingStep ==
  ASSUME IInv, Parser!TypeOK, [Next]_vars
  PROVE  /\ IsPrefix(call.url, call'.url) /\ IsPrefix(call.body, call'.body)
         /\ call.url # <<>> => call'.method = call.method
<1>1. CASE HandleRequest
  BY <1>1 DEF HandleRequest, IInv
<1>2. CASE ReadyRead \/ Parse \/ UNCHANGED vars
  <2>1. call' = call
    BY <1>2 DEF ReadyRead, Parse, vars
  <2>2. call.url \in Seq(Request!Byte) /\ call.body \in Seq(Request!Byte)
    BY DEF IInv
  <2> QED
    BY <2>1, <2>2, PrefixIsReflexive
<1> QED
  BY <1>1, <1>2 DEF Next

THEOREM CallsGrow == Spec => CallsOnlyGrow
<1> DEFINE Growing ==
      /\ IsPrefix(call.url, call'.url) /\ IsPrefix(call.body, call'.body)
      /\ call.url # <<>> => call'.method = call.method
<1>1. IInv /\ Parser!TypeOK /\ [Next]_vars => [Growing]_vars
  BY GrowingStep
<1> QED
  BY <1>1, Invariance, ParserTyped, PTL DEF Spec, CallsOnlyGrow

-----------------------------------------------------------------------------
(* What the bytes of a request mean, read in one go.                       *)

LEMMA SameReading ==
  /\ \A bytes : Request!Reading(bytes) = Parser!Reading(bytes)
  /\ \A r, c : Request!Returns(r, c) <=> Parser!Returns(r, c)
BY DEF
  Request!Digit, Request!Control, Request!Special, Request!Octet,
  Request!Byte, Request!Token, Request!Alnum, Request!Digits,
  Request!DigitValue, Request!Shift, Request!Atoi, Request!Strtol16,
  Request!Decrement, Request!NameOf, Request!BodyMethods, Request!WithHeader,
  Request!Fresh, Request!RequestLineMoves, Request!HeaderMoves,
  Request!ChunkMoves, Request!TrailerMoves, Request!Moves,
  Request!RequestLineData, Request!HeaderData, Request!BodyData,
  Request!Takes, Request!ContinuesHeader, Request!Accepts, Request!Frames,
  Request!KeepAlive, Request!CountsBody, Request!AfterSize, Request!AfterData,
  Request!AfterByte, Request!Returns, Request!Reading, Parser!Digit,
  Parser!Control, Parser!Special, Parser!Octet, Parser!Byte, Parser!Token,
  Parser!Alnum, Parser!Digits, Parser!DigitValue, Parser!Shift, Parser!Atoi,
  Parser!Strtol16, Parser!Decrement, Parser!NameOf, Parser!BodyMethods,
  Parser!WithHeader, Parser!Fresh, Parser!RequestLineMoves,
  Parser!HeaderMoves, Parser!ChunkMoves, Parser!TrailerMoves, Parser!Moves,
  Parser!RequestLineData, Parser!HeaderData, Parser!BodyData, Parser!Takes,
  Parser!ContinuesHeader, Parser!Accepts, Parser!Frames, Parser!KeepAlive,
  Parser!CountsBody, Parser!AfterSize, Parser!AfterData, Parser!AfterByte,
  Parser!Returns, Parser!Reading

LEMMA SameName ==
  ASSUME NEW name PROVE Request!MethodNamed(name, "All") = Parser!MethodNamed(name, "All")
BY DEF Request!MethodNamed, Parser!MethodNamed, Request!NameOf, Parser!NameOf

LEMMA SameRequestLine == Request!RequestLine = Parser!RequestLine
BY DEF Request!RequestLine, Parser!RequestLine

LEMMA ByteExtends ==
  ASSUME NEW r, Parser!Sound(r), NEW c \in Request!Byte
  PROVE  /\ Parser!Sound(Parser!AfterByte(r, c))
         /\ Parser!Extends(r, Parser!AfterByte(r, c), c)
BY Parser!ByteExtends, RequestAssumption, SameByte
     DEF Request!Abbreviated, Request!Digit, Request!Control, Request!Special, Request!Octet,
         Parser!Abbreviated, Parser!Digit, Parser!Control, Parser!Special, Parser!Octet

LEMMA FreshIsSound == Parser!Sound(Parser!Fresh)
BY Parser!FreshIsSound, RequestAssumption, SameByte
     DEF Request!Abbreviated, Request!Digit, Request!Control, Request!Special, Request!Octet,
         Parser!Abbreviated, Parser!Digit, Parser!Control, Parser!Special, Parser!Octet

Bytes == Seq(Request!Byte)

(* The request after each of the bytes is the one after the byte before,   *)
(* and that byte.                                                          *)
LEMMA ReadingGoesOn ==
  ASSUME NEW bytes \in Bytes
  PROVE  LET after == Parser!Reading(bytes) IN
         /\ after[0] = Parser!Fresh
         /\ \A i \in 1..Len(bytes) : after[i] = Parser!AfterByte(after[i - 1], bytes[i])
         /\ \A i \in 0..Len(bytes) : Parser!Sound(after[i])
<1> DEFINE n == Len(bytes)
           X == {r \in Parser!Requests : Parser!Sound(r)}
           G == [i \in 1..n |-> [r \in X |-> Parser!AfterByte(r, bytes[i])]]
           F(g) == g = [i \in 0..n |-> IF i = 0 THEN Parser!Fresh
                                        ELSE Parser!AfterByte(g[i - 1], bytes[i])]
           after == CHOOSE g : F(g)
<1>1. n \in Nat /\ \A i \in 1..n : bytes[i] \in Request!Byte
  BY LenProperties, ElementOfSeq DEF Bytes
<1>2. Parser!Reading(bytes) = after
  BY DEF Parser!Reading
<1> HIDE DEF n
<1>3. Parser!Fresh \in X
  BY FreshIsSound DEF Parser!Sound
<1>4. \A i \in 1..n, r \in X : Parser!AfterByte(r, bytes[i]) \in X
  BY <1>1, ByteExtends DEF Parser!Sound
<1>5. G \in [1..n -> [X -> X]]
  BY <1>4
<1>6. PICK f \in [0..n -> X] : f[0] = Parser!Fresh /\ \A i \in 1..n : f[i] = G[i][f[i - 1]]
  <2> HIDE DEF X, G
  <2>1. \E f \in [0..n -> X] : Recurses(f, n, Parser!Fresh, G)
    BY <1>1, <1>3, <1>5, Recursion
  <2> QED
    BY <2>1 DEF Recurses
<1>7. \A i \in 1..n : f[i] = Parser!AfterByte(f[i - 1], bytes[i])
  <2> SUFFICES ASSUME NEW i \in 1..n PROVE f[i] = Parser!AfterByte(f[i - 1], bytes[i])
    OBVIOUS
  <2>1. i - 1 \in 0..n
    BY <1>1
  <2>2. f[i - 1] \in X
    BY <1>6, <2>1
  <2> QED
    BY <1>6, <2>2
<1>8. F(f)
  BY <1>1, <1>6, <1>7
<1>9. F(after)
  <2> HIDE DEF F
  <2> QED
    BY <1>8
<1> HIDE DEF after
<1>10. /\ after[0] = Parser!Fresh
       /\ \A i \in 1..n : after[i] = Parser!AfterByte(after[i - 1], bytes[i])
  BY <1>1, <1>9
<1> DEFINE S == {m \in Nat : m <= n => Parser!Sound(after[m])}
<1>11. 0 \in S
  BY <1>10, FreshIsSound
<1>12. ASSUME NEW m \in Nat, m \in S PROVE m + 1 \in S
  <2> SUFFICES ASSUME m + 1 <= n PROVE Parser!Sound(after[m + 1])
    OBVIOUS
  <2>1. m + 1 \in 1..n /\ Parser!Sound(after[m]) /\ (m + 1) - 1 = m
    BY <1>1, <1>12
  <2>2. after[m + 1] = Parser!AfterByte(after[m], bytes[m + 1])
    BY <1>10, <2>1
  <2> QED
    BY <1>1, <2>1, <2>2, ByteExtends
<1>13. Nat \subseteq S
  <2> HIDE DEF S
  <2> QED
    BY <1>11, <1>12, Induction
<1>14. \A i \in 0..n : Parser!Sound(after[i])
  BY <1>1, <1>13
<1> QED
  BY <1>2, <1>10, <1>14 DEF n

-----------------------------------------------------------------------------
(* What a client sends begins with its first request, and is nothing else  *)
(* if that is the only one.                                                *)

BeginsWith(t, s) ==
  t \in Bytes /\ Len(s) <= Len(t) /\ \A i \in 1..Len(s) : t[i] = s[i]

LEMMA Concatenated ==
  ASSUME NEW s \in Bytes, NEW t, BeginsWith(t, s), NEW u \in Bytes
  PROVE  BeginsWith(t \o u, s)
<1>1. Len(s) \in Nat /\ Len(t) \in Nat /\ Len(u) \in Nat
  BY LenProperties DEF BeginsWith, Bytes
<1>2. t \o u \in Bytes /\ Len(t \o u) = Len(t) + Len(u)
  BY ConcatProperties DEF BeginsWith, Bytes
<1>3. \A i \in 1..Len(t) : (t \o u)[i] = t[i]
  BY <1>1, ConcatProperties DEF BeginsWith, Bytes
<1> QED
  BY <1>1, <1>2, <1>3 DEF BeginsWith

LEMMA Flattened ==
  ASSUME NEW seqs \in Seq(Bytes), seqs # <<>>
  PROVE  /\ BeginsWith(FlattenSeq(seqs), seqs[1])
         /\ Len(seqs) = 1 => FlattenSeq(seqs) = seqs[1]
<1> DEFINE n == Len(seqs)
           X == {t \in Bytes : BeginsWith(t, seqs[1])}
           G == [i \in 1..(n - 1) |-> [t \in X |-> t \o seqs[i + 1]]]
           F(g) == g = [i \in 1..n |-> IF i = 1 THEN seqs[1] ELSE g[i - 1] \o seqs[i]]
           flatten == CHOOSE g : F(g)
<1>1. n \in Nat /\ n # 0 /\ \A i \in 1..n : seqs[i] \in Bytes
  BY LenProperties, ElementOfSeq, EmptySeq
<1>2. FlattenSeq(seqs) = flatten[n]
  BY <1>1 DEF FlattenSeq
<1> HIDE DEF n
<1>3. seqs[1] \in X
  <2>1. seqs[1] \in Bytes /\ Len(seqs[1]) \in Nat
    BY <1>1, LenProperties DEF Bytes
  <2> QED
    BY <2>1 DEF BeginsWith
<1>4. \A i \in 1..(n - 1), t \in X : t \o seqs[i + 1] \in X
  <2> SUFFICES ASSUME NEW i \in 1..(n - 1), NEW t \in X PROVE t \o seqs[i + 1] \in X
    OBVIOUS
  <2>1. seqs[1] \in Bytes /\ seqs[i + 1] \in Bytes
    BY <1>1
  <2>2. BeginsWith(t \o seqs[i + 1], seqs[1])
    BY <2>1, Concatenated
  <2> QED
    BY <2>2 DEF BeginsWith
<1>5. G \in [1..(n - 1) -> [X -> X]]
  BY <1>4
<1>6. PICK f \in [0..(n - 1) -> X] : f[0] = seqs[1] /\ \A i \in 1..(n - 1) : f[i] = G[i][f[i - 1]]
  <2>0. n - 1 \in Nat
    BY <1>1
  <2> HIDE DEF X, G
  <2>1. \E f \in [0..(n - 1) -> X] : Recurses(f, n - 1, seqs[1], G)
    BY <2>0, <1>3, <1>5, Recursion
  <2> QED
    BY <2>1 DEF Recurses
<1> DEFINE g == [i \in 1..n |-> f[i - 1]]
<1>7. F(g)
  <2> SUFFICES ASSUME NEW i \in 1..n
               PROVE  f[i - 1] = IF i = 1 THEN seqs[1] ELSE g[i - 1] \o seqs[i]
    BY <1>1
  <2>1. CASE i = 1
    BY <2>1, <1>6
  <2>2. CASE i # 1
    <3>1. i - 1 \in 1..(n - 1) /\ i - 2 \in 0..(n - 1) /\ (i - 1) + 1 = i /\ (i - 1) - 1 = i - 2
      BY <1>1, <2>2
    <3>2. f[i - 2] \in X
      BY <1>6, <3>1
    <3>3. f[i - 1] = G[i - 1][f[i - 2]]
      BY <1>6, <3>1
    <3>4. G[i - 1][f[i - 2]] = f[i - 2] \o seqs[i]
      BY <3>1, <3>2
    <3>5. g[i - 1] = f[i - 2]
      BY <1>1, <3>1
    <3> QED
      BY <2>2, <3>3, <3>4, <3>5
  <2> QED
    BY <2>1, <2>2
<1>8. F(flatten)
  <2> HIDE DEF F
  <2> QED
    BY <1>7
<1> HIDE DEF flatten
<1>9. flatten = [i \in 1..n |-> IF i = 1 THEN seqs[1] ELSE flatten[i - 1] \o seqs[i]]
  BY <1>8
<1> DEFINE S == {m \in Nat : m + 1 <= n => flatten[m + 1] \in X}
<1> HIDE DEF X
<1>10. flatten[1] = seqs[1]
  BY <1>1, <1>9
<1>11. ASSUME NEW m \in Nat, m \in S PROVE m + 1 \in S
  <2> SUFFICES ASSUME (m + 1) + 1 <= n PROVE flatten[(m + 1) + 1] \in X
    OBVIOUS
  <2>1. (m + 1) + 1 \in 1..n /\ ((m + 1) + 1) - 1 = m + 1 /\ m + 1 \in 1..(n - 1) /\ (m + 1) + 1 # 1
    BY <1>1
  <2>2. flatten[(m + 1) + 1] = flatten[m + 1] \o seqs[(m + 1) + 1]
    BY <1>9, <2>1
  <2>3. flatten[m + 1] \in X
    BY <1>1, <1>11
  <2> QED
    BY <1>4, <2>1, <2>2, <2>3
<1>12. 0 \in S
  BY <1>3, <1>10
<1>13. Nat \subseteq S
  <2> HIDE DEF S
  <2> QED
    BY <1>11, <1>12, Induction
<1>14. flatten[n] \in X
  <2>1. n - 1 \in S /\ (n - 1) + 1 = n
    BY <1>1, <1>13
  <2> QED
    BY <1>1, <2>1
<1> QED
  BY <1>2, <1>10, <1>14 DEF X, n

-----------------------------------------------------------------------------
(* What has been read stays: r is an earlier request than q on the same    *)
(* connection.                                                             *)

Seen(r, q) ==
  /\ IsPrefix(r.method, q.method) /\ IsPrefix(r.url, q.url) /\ IsPrefix(r.content, q.content)
  /\ r.state \notin MethodStates => q.state \notin MethodStates /\ q.method = r.method
  /\ r.state \notin Parser!RequestLine => q.state \notin Parser!RequestLine /\ q.url = r.url
  /\ r.chunked => q.chunked
  /\ r.state = "Post" => q.state = "Post"

LEMMA SoundTypes ==
  ASSUME NEW r, Parser!Sound(r)
  PROVE  r.method \in Bytes /\ r.url \in Bytes /\ r.content \in Bytes
BY SameByte DEF Parser!Sound, Parser!Requests, Bytes

LEMMA SeenItself == ASSUME NEW r, Parser!Sound(r) PROVE Seen(r, r)
BY SoundTypes, PrefixIsReflexive DEF Seen, Bytes

LEMMA SeenAfterByte ==
  ASSUME NEW r, Parser!Sound(r), NEW q, Parser!Sound(q), Seen(r, q), NEW c \in Request!Byte
  PROVE  /\ Seen(r, Parser!AfterByte(q, c))
         /\ r.state = "Post" => Parser!AfterByte(q, c).content = Append(q.content, c)
<1> DEFINE v == Parser!AfterByte(q, c)
<1>1. Parser!Extends(q, v, c)
  BY ByteExtends
<1> HIDE DEF v
<1>2. r.method \in Bytes /\ r.url \in Bytes /\ r.content \in Bytes
  BY SoundTypes
<1>3. q.method \in Bytes /\ q.url \in Bytes /\ q.content \in Bytes
  BY SoundTypes
<1>4. Parser!Grows(q.method, v.method) /\ Parser!Grows(q.url, v.url)
      /\ Parser!Grows(q.content, v.content)
  BY <1>1 DEF Parser!Extends
<1>5. IsPrefix(r.method, v.method) /\ IsPrefix(r.url, v.url) /\ IsPrefix(r.content, v.content)
  BY <1>2, <1>3, <1>4, PrefixGrows DEF Seen, Bytes
<1>6. /\ r.state \notin MethodStates => v.state \notin MethodStates /\ v.method = r.method
      /\ r.state \notin Parser!RequestLine => v.state \notin Parser!RequestLine /\ v.url = r.url
      /\ r.chunked => v.chunked
      /\ r.state = "Post" => v.state = "Post" /\ v.content = Append(q.content, c)
  BY <1>1 DEF Seen, Parser!Extends, MethodStates, Parser!MethodStates
<1> QED
  BY <1>5, <1>6 DEF Seen, v

(* A request with a counted body has one more byte of it after every byte. *)
LEMMA ReadingIsSeen ==
  ASSUME NEW bytes \in Bytes, NEW i \in 0..Len(bytes), NEW j \in 0..Len(bytes), i <= j
  PROVE  LET after == Parser!Reading(bytes) IN
         /\ Seen(after[i], after[j])
         /\ after[i].state = "Post" =>
              Len(after[j].content) = Len(after[i].content) + (j - i)
<1> DEFINE n == Len(bytes)
           after == Parser!Reading(bytes)
           Holds(m) == /\ Seen(after[i], after[i + m])
                       /\ after[i].state = "Post" =>
                            Len(after[i + m].content) = Len(after[i].content) + m
           S == {m \in Nat : i + m <= n => Holds(m)}
<1>1. n \in Nat /\ \A k \in 1..n : bytes[k] \in Request!Byte
  BY LenProperties, ElementOfSeq DEF Bytes
<1>2. /\ \A k \in 1..n : after[k] = Parser!AfterByte(after[k - 1], bytes[k])
      /\ \A k \in 0..n : Parser!Sound(after[k])
  BY ReadingGoesOn
<1> HIDE DEF n, after
<1>3. i \in 0..n /\ j \in 0..n
  BY DEF n
<1>4. 0 \in S
  <2>1. Parser!Sound(after[i]) /\ i + 0 = i
    BY <1>2, <1>3
  <2>2. Len(after[i].content) \in Nat
    BY <2>1, SoundTypes, LenProperties DEF Bytes
  <2> QED
    BY <2>1, <2>2, SeenItself
<1> HIDE DEF Holds
<1>5. ASSUME NEW m \in Nat, m \in S PROVE m + 1 \in S
  <2> SUFFICES ASSUME i + (m + 1) <= n PROVE Holds(m + 1)
    OBVIOUS
  <2> DEFINE q == after[i + m]
             v == after[i + (m + 1)]
             c == bytes[i + (m + 1)]
  <2>1. i + (m + 1) \in 1..n /\ (i + (m + 1)) - 1 = i + m /\ i + m \in 0..n
    BY <1>1, <1>3
  <2>2. v = Parser!AfterByte(q, c) /\ c \in Request!Byte
    BY <1>1, <1>2, <2>1
  <2>3. Parser!Sound(after[i]) /\ Parser!Sound(q)
    BY <1>2, <1>3, <2>1
  <2>4. Seen(after[i], q)
        /\ (after[i].state = "Post" => Len(q.content) = Len(after[i].content) + m)
    BY <1>5, <2>1 DEF Holds
  <2> HIDE DEF q, v, c
  <2>5. Seen(after[i], v) /\ (after[i].state = "Post" => v.content = Append(q.content, c))
    BY <2>2, <2>3, <2>4, SeenAfterByte
  <2>6. Len(after[i].content) \in Nat /\ q.content \in Bytes /\ Len(q.content) \in Nat
    BY <2>3, SoundTypes, LenProperties DEF Bytes
  <2>7. Len(Append(q.content, c)) = Len(q.content) + 1
    BY <2>2, <2>6, AppendProperties DEF Bytes
  <2>8. ASSUME after[i].state = "Post" PROVE Len(v.content) = Len(after[i].content) + (m + 1)
    <3>1. Len(v.content) = Len(q.content) + 1
      BY <2>5, <2>7, <2>8
    <3>2. Len(q.content) = Len(after[i].content) + m
      BY <2>4, <2>8
    <3> DEFINE x == Len(after[i].content)
               y == Len(q.content)
               z == Len(v.content)
    <3>3. x \in Nat /\ y \in Nat /\ z = y + 1 /\ y = x + m
      BY <2>6, <3>1, <3>2
    <3> HIDE DEF x, y, z
    <3>4. z = x + (m + 1)
      BY <3>3
    <3> QED
      BY <3>4 DEF x, z
  <2> QED
    BY <2>5, <2>8 DEF Holds, v
<1>6. Nat \subseteq S
  <2> HIDE DEF S
  <2> QED
    BY <1>4, <1>5, Induction
<1>7. Holds(j - i) /\ i + (j - i) = j
  <2>1. j - i \in Nat /\ i + (j - i) <= n /\ i + (j - i) = j
    BY <1>1, <1>3
  <2> QED
    BY <1>6, <2>1
<1> QED
  BY <1>1, <1>3, <1>7 DEF after, Holds

-----------------------------------------------------------------------------
(* What the assumption on the dialogues says of a client's first request,  *)
(* with the definitions the parser's proofs are about.                     *)

LEMMA MeantFacts ==
  ASSUME NEW d, Meant(d)
  PROVE  LET n == Len(d.bytes)
             after == Parser!Reading(d.bytes) IN
         /\ n > 0
         /\ d.method = Parser!MethodNamed(after[n].method, "All")
         /\ d.url = after[n].url /\ d.body = after[n].content
         /\ d.route = Router!RouteOf(Routes, d.method, d.url)
         /\ Parser!Returns(after[n - 1], d.bytes[n])
         /\ \A i \in 1..(n - 1) : Parser!Returns(after[i - 1], d.bytes[i]) =>
              \A j \in i..n : after[j] = after[i]
<1>1. Request!Reading(d.bytes) = Parser!Reading(d.bytes)
  BY SameReading
<1>2. \A r, c : Request!Returns(r, c) <=> Parser!Returns(r, c)
  BY SameReading
<1>3. \A name : Request!MethodNamed(name, "All") = Parser!MethodNamed(name, "All")
  BY SameName
<1> QED
  BY <1>1, <1>2, <1>3 DEF Meant

LEMMA FirstFacts ==
  ASSUME NEW c \in DOMAIN Dialogues
  PROVE  LET d == Dialogues[c][1]
             n == Len(d.bytes) IN
         /\ d.bytes \in Bytes /\ n \in Nat /\ Meant(d)
         /\ BeginsWith(BytesOf(Dialogues[c]), d.bytes)
         /\ Parser!Reading(d.bytes)[n].state \in Parser!RequestLine
              => Len(BytesOf(Dialogues[c])) = n
<1> DEFINE requests == Dialogues[c]
           R == [bytes : Bytes, method : STRING, url : Bytes, body : Bytes,
                 connection : Bytes, route : Nat]
           wires == [i \in DOMAIN requests |-> requests[i].bytes]
<1>1. /\ requests \in Seq(R) /\ requests # <<>> /\ Meant(requests[1])
      /\ Simple(requests[1]) => Len(requests) = 1
  BY FirstAssumption DEF FirstMeant, Bytes
<1>2. Simple(requests[1]) <=>
        Parser!Reading(requests[1].bytes)[Len(requests[1].bytes)].state \in Parser!RequestLine
  BY SameReading, SameRequestLine DEF Simple
<1>3. BytesOf(requests) = FlattenSeq(wires)
  BY DEF BytesOf
<1> HIDE DEF requests
<1>4. Len(requests) \in Nat /\ Len(requests) # 0 /\ DOMAIN requests = 1..Len(requests)
      /\ \A i \in 1..Len(requests) : requests[i] \in R
  BY <1>1, LenProperties, ElementOfSeq, EmptySeq
<1>5. wires \in Seq(Bytes) /\ Len(wires) = Len(requests) /\ wires # <<>>
  <2>1. \A i \in 1..Len(requests) : requests[i].bytes \in Bytes
    BY <1>4
  <2>2. wires \in [1..Len(requests) -> Bytes]
    BY <1>4, <2>1
  <2> HIDE DEF wires
  <2>3. wires \in Seq(Bytes) /\ Len(wires) = Len(requests)
    BY <1>4, <2>2, LenProperties
  <2> QED
    BY <1>4, <2>3, EmptySeq
<1>6. wires[1] = requests[1].bytes
  BY <1>4
<1>7. requests[1].bytes \in Bytes /\ Len(requests[1].bytes) \in Nat
  BY <1>4, LenProperties DEF Bytes
<1> HIDE DEF wires
<1>8. /\ BeginsWith(FlattenSeq(wires), wires[1])
      /\ Len(wires) = 1 => FlattenSeq(wires) = wires[1]
  BY <1>5, Flattened
<1> QED
  BY <1>1, <1>2, <1>3, <1>5, <1>6, <1>7, <1>8 DEF requests

-----------------------------------------------------------------------------
(* How far the parser has got with what the client sends.  Up to the end   *)
(* of the first request it is where a single reading of that request is    *)
(* after as many bytes; from then on it only adds to it.  A handler called *)
(* early was shown one of the states in between.                           *)

Stream   == BytesOf(Dialogues[client])
Length   == Len(First.bytes)
After    == Parser!Reading(First.bytes)
Position == read - Len(fragment)

InStream ==
  /\ read \in Nat /\ Len(fragment) <= read
  /\ \A j \in 1..Len(fragment) : fragment[j] = Stream[Position + j]
  /\ \A j \in 1..Len(unread) : unread[j] = Stream[read + j]

EarlyParser ==
  /\ req = After[IF Position < Length THEN Position ELSE Length]
  /\ fragment # <<>> => Position < Length
  /\ phase = "waiting" => read < Length

LaterParser ==
  /\ read >= Length
  /\ phase = "parsing" => read > Length
  /\ Seen(After[Length], req)
  /\ After[Length].state \in Parser!RequestLine => phase = "waiting" /\ unread = <<>>

EarlyCall ==
  \E i \in 0..(Length - 1) :
    /\ i <= Position
    /\ call.method = Parser!Method(After[i])
    /\ call.url = After[i].url /\ call.body = After[i].content
    /\ call = NoCall \/ call.route = Router!RouteOf(Routes, call.method, call.url)

ReadInv ==
  /\ InStream
  /\ Parser!Sound(req)
  /\ call.when \in {"early", "first", "later"}
  /\ call.when = "early" => EarlyParser /\ EarlyCall
  /\ call.when # "early" => LaterParser
  /\ FirstRequestExact
  /\ LaterCallsRepeatFirst
  /\ call.when = "later" => read > Length

LEMMA ClientFacts ==
  ASSUME client \in DOMAIN Dialogues
  PROVE  /\ First.bytes \in Bytes /\ Length \in Nat /\ Length > 0
         /\ Meant(First)
         /\ BeginsWith(Stream, First.bytes)
         /\ After[Length].state \in Parser!RequestLine => Len(Stream) = Length
         /\ After[0] = Parser!Fresh
         /\ \A i \in 1..Length : After[i] = Parser!AfterByte(After[i - 1], First.bytes[i])
         /\ \A i \in 0..Length : Parser!Sound(After[i])
<1>1. /\ First.bytes \in Bytes /\ Length \in Nat /\ Meant(First)
      /\ BeginsWith(Stream, First.bytes)
      /\ After[Length].state \in Parser!RequestLine => Len(Stream) = Length
  BY FirstFacts DEF First, Length, Stream, After
<1>2. Length > 0
  BY <1>1, MeantFacts DEF Length
<1> QED
  BY <1>1, <1>2, ReadingGoesOn DEF Length, After

LEMMA InitReads == Init => ReadInv
<1> SUFFICES ASSUME Init PROVE ReadInv
  OBVIOUS
<1>1. /\ client \in DOMAIN Dialogues /\ phase = "waiting" /\ read = 0
      /\ unread = Stream /\ call = NoCall
      /\ req = Parser!Fresh /\ fragment = <<>>
  BY DEF Init, Request!Init, Request!Fresh, Parser!Fresh, Stream
<1>2. Len(fragment) = 0 /\ Position = 0
  <2>1. Len(<<>>) = 0
    OBVIOUS
  <2>2. Len(fragment) = 0
    BY <1>1, <2>1
  <2>3. read = 0 /\ Position = read - Len(fragment)
    BY <1>1 DEF Position
  <2> QED
    BY <2>2, <2>3
<1>3. Length \in Nat /\ Length > 0 /\ After[0] = Parser!Fresh
  BY <1>1, ClientFacts
<1>4. InStream
  <2>1. \A j \in 1..Len(unread) : unread[j] = Stream[0 + j]
    BY <1>1
  <2> QED
    BY <1>1, <1>2, <2>1 DEF InStream
<1>5. Parser!Sound(req)
  BY <1>1, FreshIsSound
<1>6. EarlyParser
  BY <1>1, <1>2, <1>3 DEF EarlyParser
<1>7. EarlyCall
  <2>1. Parser!Method(Parser!Fresh) = "All"
    <3>1. \A m \in DOMAIN Parser!NameOf : Parser!NameOf[m] # <<>>
      BY EmptySeq DEF Parser!NameOf
    <3> QED
      BY <3>1 DEF Parser!Method, Parser!MethodNamed, Parser!Fresh
  <2>2. Parser!Fresh.url = <<>> /\ Parser!Fresh.content = <<>>
    BY DEF Parser!Fresh
  <2>3. call.method = "All" /\ call.url = <<>> /\ call.body = <<>>
    BY <1>1 DEF NoCall
  <2> QED
    BY <1>1, <1>2, <1>3, <2>1, <2>2, <2>3 DEF EarlyCall
<1>8. call.when = "early"
  BY <1>1 DEF NoCall
<1> QED
  BY <1>4, <1>5, <1>6, <1>7, <1>8 DEF ReadInv, FirstRequestExact, LaterCallsRepeatFirst

(* Reading takes the next bytes of the stream.                             *)
LEMMA TakesBytes ==
  ASSUME InStream, NEW n \in 1..Len(unread), Request!ReadAll(n), read' = read + n,
         client' = client, unread \in Bytes, fragment = <<>>
  PROVE  /\ InStream' /\ Position' = read /\ Position = read
         /\ fragment' # <<>>
<1>1. fragment' = SubSeq(unread, 1, n) /\ unread' = SubSeq(unread, n + 1, Len(unread))
  BY DEF Request!ReadAll
<1>2. Len(unread) \in Nat /\ unread \in Seq(Request!Byte)
  BY LenProperties DEF Bytes
<1>3. /\ fragment' \in Seq(Request!Byte) /\ Len(fragment') = n
      /\ \A j \in 1..n : fragment'[j] = unread[j]
  <2>1. 1 \in 1..(Len(unread) + 1) /\ n \in 0..Len(unread) /\ n \in 1..n
    BY <1>2
  <2> QED
    BY <1>1, <1>2, <2>1, SubSeqProperties
<1>4. /\ Len(unread') = Len(unread) - n
      /\ \A j \in 1..(Len(unread) - n) : unread'[j] = unread[n + j]
  <2>1. n + 1 \in 1..(Len(unread) + 1) /\ Len(unread) \in n..Len(unread)
    BY <1>2
  <2> QED
    BY <1>1, <1>2, <2>1, SubSeqProperties
<1>5. read \in Nat /\ \A j \in 1..Len(unread) : unread[j] = Stream[read + j]
  BY DEF InStream
<1>6. Stream' = Stream
  BY DEF Stream
<1>7. Len(fragment) = 0
  <2>1. Len(<<>>) = 0
    OBVIOUS
  <2> QED
    BY <2>1
<1>8. Position' = read /\ Position = read
  BY <1>3, <1>5, <1>7 DEF Position
<1>9. \A j \in 1..n : fragment'[j] = Stream[read + j]
  BY <1>2, <1>3, <1>5
<1>10. \A j \in 1..(Len(unread) - n) : unread'[j] = Stream[(read + n) + j]
  <2> SUFFICES ASSUME NEW j \in 1..(Len(unread) - n) PROVE unread'[j] = Stream[(read + n) + j]
    OBVIOUS
  <2>1. n + j \in 1..Len(unread) /\ (read + n) + j = read + (n + j)
    BY <1>2, <1>5
  <2> QED
    BY <1>4, <1>5, <2>1
<1>11. fragment' # <<>>
  BY <1>3, EmptySeq
<1>12. read' \in Nat /\ Len(fragment') <= read'
  BY <1>3, <1>5
<1> QED
  BY <1>3, <1>4, <1>6, <1>8, <1>9, <1>10, <1>11, <1>12 DEF InStream

LEMMA ReadyReadReads ==
  ASSUME IInv, Parser!TypeOK, ReadInv, ReadyRead
  PROVE  ReadInv'
<1>1. PICK n \in 1..Len(unread) : Request!ReadAll(n) /\ read' = read + n
  BY DEF ReadyRead
<1>2. /\ phase = "waiting" /\ phase' = "parsing" /\ client' = client /\ call' = call
      /\ req' = req /\ fragment = <<>>
  BY <1>1 DEF ReadyRead, Request!ReadAll
<1>3. unread \in Bytes /\ client \in DOMAIN Dialogues
  BY SameByte DEF Parser!TypeOK, Bytes, IInv, TypeOK
<1>4. InStream' /\ Position' = read /\ Position = read /\ fragment' # <<>>
  BY <1>1, <1>2, <1>3, TakesBytes DEF ReadInv
<1>5. Length' = Length /\ After' = After /\ First' = First
  BY <1>2 DEF Length, After, First
<1>6. read \in Nat /\ Length \in Nat
  BY <1>3, ClientFacts DEF ReadInv, InStream
<1>7. CASE call.when = "early"
  <2>1. EarlyParser'
    BY <1>2, <1>4, <1>5, <1>7 DEF ReadInv, EarlyParser
  <2>2. EarlyCall'
    BY <1>2, <1>4, <1>5, <1>7 DEF ReadInv, EarlyCall
  <2> QED
    BY <1>2, <1>4, <1>7, <2>1, <2>2 DEF ReadInv, FirstRequestExact, LaterCallsRepeatFirst
<1>8. CASE call.when # "early"
  <2>1. LaterParser'
    <3>1. unread # <<>>
      <4>1. Len(<<>>) = 0
        OBVIOUS
      <4> QED
        BY <4>1
    <3>2. After[Length].state \notin Parser!RequestLine
      BY <1>8, <3>1 DEF ReadInv, LaterParser
    <3>3. read' >= Length /\ read' > Length
      BY <1>1, <1>6, <1>8 DEF ReadInv, LaterParser
    <3> QED
      BY <1>2, <1>5, <1>8, <3>2, <3>3 DEF ReadInv, LaterParser
  <2>2. FirstRequestExact' /\ LaterCallsRepeatFirst'
    BY <1>2, <1>5 DEF ReadInv, FirstRequestExact, LaterCallsRepeatFirst
  <2>3. (call.when = "later" => read > Length)'
    BY <1>1, <1>2, <1>5, <1>6 DEF ReadInv
  <2> QED
    BY <1>2, <1>4, <1>8, <2>1, <2>2, <2>3 DEF ReadInv
<1> QED
  BY <1>7, <1>8

(* A byte is parsed: it is the next of the stream, or what is left of the  *)
(* fragment is dropped with it.                                            *)
LEMMA ParseByteReads ==
  ASSUME IInv, Parser!TypeOK, InStream, Parse
  PROVE  LET c == fragment[1] IN
         /\ InStream' /\ c \in Request!Byte /\ c = Stream[Position + 1]
         /\ req' = Parser!AfterByte(req, c)
         /\ fragment # <<>> /\ Position < read /\ Position \in Nat
         /\ IF Parser!Returns(req, c) THEN fragment' = <<>> /\ Position' = read
                                      ELSE Position' = Position + 1
<1> DEFINE c == fragment[1]
<1>1. Parser!ParseByte /\ client' = client /\ phase' = phase /\ read' = read
  BY SameParseByte DEF Parse
<1>2. unread' = unread /\ Stream' = Stream
  BY <1>1, Parser!ParseKeepsUnread, RequestAssumption, SameByte
     DEF Request!Abbreviated, Request!Digit, Request!Control, Request!Special,
         Request!Octet, Parser!Abbreviated, Parser!Digit, Parser!Control, Parser!Special,
         Parser!Octet, Stream
<1>3. fragment \in Seq(Request!Byte) /\ Len(fragment) \in Nat
  BY SameByte, LenProperties DEF Parser!TypeOK
<1>4. fragment # <<>>
  BY <1>1 DEF Parser!ParseByte, Parser!Move, Parser!Reject, Parser!RequestMethod,
    Parser!RequestUrl, Parser!SimpleRequest, Parser!VersionSlash, Parser!VersionMajor,
    Parser!VersionMinor, Parser!HeaderStart, Parser!HeaderFold, Parser!HeaderName,
    Parser!HeaderValue, Parser!HeaderEnd, Parser!ExpectingNewline_3, Parser!Post,
    Parser!ChunkSize, Parser!ChunkSizeNewLine, Parser!ChunkData, Parser!LastChunk, Parser!At
<1>5. Len(fragment) > 0 /\ c \in Request!Byte /\ Parser!input = c
  <2>1. Len(fragment) # 0
    BY <1>3, <1>4, EmptySeq
  <2>2. 1 \in 1..Len(fragment)
    BY <1>3, <2>1
  <2>3. Head(fragment) = fragment[1]
    BY <1>3, <1>4, HeadTailProperties
  <2> QED
    BY <1>3, <2>1, <2>2, <2>3, ElementOfSeq DEF Parser!input
<1>6. /\ req' = Parser!AfterByte(req, c)
      /\ fragment' = IF Parser!Returns(req, c) THEN <<>> ELSE Tail(fragment)
  BY <1>1, <1>5, Parser!ParsesByReading, RequestAssumption, SameByte
     DEF Request!Abbreviated, Request!Digit, Request!Control, Request!Special,
         Request!Octet, Parser!Abbreviated, Parser!Digit, Parser!Control, Parser!Special,
         Parser!Octet
<1>7. /\ read \in Nat /\ Len(fragment) <= read
      /\ \A j \in 1..Len(fragment) : fragment[j] = Stream[Position + j]
      /\ \A j \in 1..Len(unread) : unread[j] = Stream[read + j]
  BY DEF InStream
<1>8. Position \in Nat /\ Position < read /\ c = Stream[Position + 1]
  BY <1>3, <1>5, <1>7 DEF Position
<1>9. CASE Parser!Returns(req, c)
  <2>1. fragment' = <<>> /\ Len(<<>>) = 0
    BY <1>6, <1>9
  <2>2. Len(fragment') = 0
    BY <2>1
  <2>3. Position' = read
    BY <1>1, <1>7, <2>2 DEF Position
  <2>4. InStream'
    BY <1>1, <1>2, <1>7, <2>2 DEF InStream
  <2> QED
    BY <1>4, <1>5, <1>6, <1>8, <1>9, <2>1, <2>3, <2>4
<1>10. CASE ~Parser!Returns(req, c)
  <2>1. /\ fragment' = Tail(fragment) /\ Len(fragment') = Len(fragment) - 1
        /\ \A j \in 1..(Len(fragment) - 1) : fragment'[j] = fragment[j + 1]
    BY <1>3, <1>4, <1>6, <1>10, HeadTailProperties
  <2>2. Position' = Position + 1 /\ Len(fragment') <= read
    <3> DEFINE x == Len(fragment)
               y == Len(fragment')
    <3>1. Position' = read - y /\ Position = read - x
      BY <1>1 DEF Position
    <3>2. y = x - 1 /\ x \in Nat /\ read \in Nat /\ x <= read
      BY <1>3, <1>7, <2>1
    <3> HIDE DEF x, y
    <3>3. Position' = Position + 1 /\ y <= read
      BY <3>1, <3>2
    <3> QED
      BY <3>3 DEF y
  <2>3. ASSUME NEW j \in 1..(Len(fragment) - 1) PROVE fragment'[j] = Stream[(Position + 1) + j]
    <3>1. j + 1 \in 1..Len(fragment) /\ Position + (j + 1) = (Position + 1) + j
      BY <1>3, <1>8
    <3> QED
      BY <1>7, <2>1, <3>1
  <2>4. InStream'
    BY <1>1, <1>2, <1>7, <2>1, <2>2, <2>3 DEF InStream
  <2> QED
    BY <1>4, <1>5, <1>6, <1>8, <1>10, <2>2, <2>4
<1> QED
  BY <1>9, <1>10

LEMMA ParseReads ==
  ASSUME IInv, Parser!TypeOK, ReadInv, Parse
  PROVE  ReadInv'
<1> DEFINE c == fragment[1]
           returns == Parser!Returns(req, c)
<1>1. /\ phase = "parsing" /\ phase' = phase /\ client' = client /\ call' = call /\ read' = read
  BY DEF Parse
<1>2. client \in DOMAIN Dialogues
  BY DEF IInv, TypeOK
<1>3. Length' = Length /\ After' = After /\ First' = First
  BY <1>1 DEF Length, After, First
<1>4. /\ InStream' /\ c \in Request!Byte /\ c = Stream[Position + 1]
      /\ req' = Parser!AfterByte(req, c)
      /\ fragment # <<>> /\ Position < read /\ Position \in Nat
      /\ IF returns THEN fragment' = <<>> /\ Position' = read ELSE Position' = Position + 1
  BY ParseByteReads DEF ReadInv
<1>5. /\ First.bytes \in Bytes /\ Length \in Nat /\ Length > 0 /\ Meant(First)
      /\ BeginsWith(Stream, First.bytes)
      /\ \A i \in 1..Length : After[i] = Parser!AfterByte(After[i - 1], First.bytes[i])
      /\ \A i \in 0..Length : Parser!Sound(After[i])
  BY <1>2, ClientFacts
<1>6. read \in Nat /\ Parser!Sound(req)
  BY DEF ReadInv, InStream
<1> HIDE DEF c, returns
<1>7. Parser!Sound(req')
  BY <1>4, <1>6, ByteExtends
<1>8. CASE call.when = "early"
  <2>1. EarlyParser /\ EarlyCall /\ Position < Length
    BY <1>4, <1>8 DEF ReadInv, EarlyParser
  <2>2. Position + 1 \in 1..Length /\ (Position + 1) - 1 = Position
    BY <1>4, <1>5, <2>1
  <2>3. c = First.bytes[Position + 1]
    BY <1>4, <1>5, <2>2 DEF BeginsWith, Length
  <2>4. req = After[Position]
    BY <2>1 DEF EarlyParser
  <2>5. req' = After[Position + 1]
    BY <1>4, <1>5, <2>2, <2>3, <2>4
  <2>6. ASSUME returns PROVE EarlyParser'
    <3>1. fragment' = <<>> /\ Position' = read /\ Position + 1 <= read
      BY <1>4, <1>6, <2>6
    <3>2. ASSUME Position + 1 < Length
          PROVE  \A j \in (Position + 1)..Length : After[j] = After[Position + 1]
      <4>1. Position + 1 \in 1..(Length - 1)
        BY <1>4, <1>5, <3>2
      <4>2. Parser!Returns(After[(Position + 1) - 1], First.bytes[Position + 1])
        BY <2>2, <2>3, <2>4, <2>6 DEF returns
      <4> QED
        BY <1>5, <4>1, <4>2, MeantFacts DEF Length, After
    <3>3. req' = After[IF read < Length THEN read ELSE Length]
      <4>1. CASE Position + 1 = Length
        BY <1>5, <1>6, <2>5, <3>1, <4>1
      <4>2. CASE Position + 1 # Length
        <5>1. Position + 1 < Length
          BY <1>5, <2>2, <4>2
        <5>2. (IF read < Length THEN read ELSE Length) \in (Position + 1)..Length
          BY <1>4, <1>5, <1>6, <3>1, <5>1
        <5> QED
          BY <2>5, <3>2, <5>1, <5>2
      <4> QED
        BY <4>1, <4>2
    <3> QED
      BY <1>1, <1>3, <3>1, <3>3 DEF EarlyParser
  <2>7. ASSUME ~returns PROVE EarlyParser'
    <3>1. Position' = Position + 1
      BY <1>4, <2>7
    <3>2. Position + 1 # Length
      <4> SUFFICES ASSUME Position + 1 = Length PROVE returns
        BY <2>7
      <4>1. Parser!Returns(After[Length - 1], First.bytes[Length])
        BY <1>5, MeantFacts DEF Length, After
      <4>2. Length - 1 = Position
        BY <1>4, <1>5
      <4> QED
        BY <2>3, <2>4, <4>1, <4>2 DEF returns
    <3>3. Position + 1 < Length
      BY <1>5, <2>2, <3>2
    <3> QED
      BY <1>1, <1>3, <2>5, <3>1, <3>3 DEF EarlyParser
  <2>8. EarlyParser'
    BY <2>6, <2>7
  <2>9. Position <= Position' /\ Position' \in Nat
    BY <1>4, <1>6
  <2>10. EarlyCall'
    <3>1. PICK i \in 0..(Length - 1) :
            /\ i <= Position
            /\ call.method = Parser!Method(After[i])
            /\ call.url = After[i].url /\ call.body = After[i].content
            /\ call = NoCall \/ call.route = Router!RouteOf(Routes, call.method, call.url)
      BY <2>1 DEF EarlyCall
    <3>2. i <= Position'
      BY <1>4, <1>5, <2>9, <3>1
    <3> QED
      BY <1>1, <1>3, <3>1, <3>2 DEF EarlyCall
  <2> QED
    BY <1>1, <1>4, <1>7, <1>8, <2>8, <2>10 DEF ReadInv, FirstRequestExact, LaterCallsRepeatFirst
<1>9. CASE call.when # "early"
  <2>1. LaterParser
    BY <1>9 DEF ReadInv
  <2>2. Seen(After[Length], req')
    <3>1. Parser!Sound(After[Length]) /\ Seen(After[Length], req)
      BY <1>5, <2>1 DEF LaterParser
    <3> QED
      BY <1>4, <1>6, <3>1, SeenAfterByte
  <2>3. After[Length].state \notin Parser!RequestLine
    BY <1>1, <2>1 DEF LaterParser
  <2>4. LaterParser'
    BY <1>1, <1>3, <2>1, <2>2, <2>3 DEF LaterParser
  <2>5. FirstRequestExact' /\ LaterCallsRepeatFirst' /\ (call.when = "later" => read > Length)'
    BY <1>1, <1>3 DEF ReadInv, FirstRequestExact, LaterCallsRepeatFirst
  <2> QED
    BY <1>1, <1>4, <1>7, <1>9, <2>4, <2>5 DEF ReadInv
<1> QED
  BY <1>8, <1>9

LEMMA HandleRequestReads ==
  ASSUME IInv, Parser!TypeOK, ReadInv, HandleRequest
  PROVE  ReadInv'
<1> DEFINE route == Router!RouteOf(Routes, Parser!Method(req), req.url)
<1>1. /\ req' = req /\ fragment' = fragment /\ unread' = unread /\ client' = client
      /\ read' = read /\ fragment = <<>> /\ phase = "parsing" /\ phase' = "waiting"
  BY DEF HandleRequest
<1>2. /\ call'.route = route /\ call'.method = Parser!Method(req)
      /\ call'.url = req.url /\ call'.body = req.content
      /\ call'.when = IF read < Len(First.bytes) THEN "early"
                      ELSE IF call.when = "early" THEN "first" ELSE "later"
  BY SameMethod DEF HandleRequest
<1> HIDE DEF route
<1>3. client \in DOMAIN Dialogues
  BY DEF IInv, TypeOK
<1>4. Length' = Length /\ After' = After /\ First' = First
  BY <1>1 DEF Length, After, First
<1>5. /\ First.bytes \in Bytes /\ Length \in Nat /\ Length > 0 /\ Meant(First)
      /\ After[Length].state \in Parser!RequestLine => Len(Stream) = Length
      /\ \A i \in 0..Length : Parser!Sound(After[i])
  BY <1>3, ClientFacts
<1>6. InStream' /\ Position' = read /\ Position = read /\ read \in Nat
  <2>1. Len(<<>>) = 0
    OBVIOUS
  <2>2. Len(fragment) = 0
    BY <1>1, <2>1
  <2>3. read \in Nat /\ Position = read - Len(fragment) /\ Position' = Position
    BY <1>1 DEF ReadInv, InStream, Position
  <2>4. Position = read
    BY <2>2, <2>3
  <2>5. InStream'
    BY <1>1, <2>3 DEF ReadInv, InStream, Stream
  <2> QED
    BY <2>3, <2>4, <2>5
<1>7. Parser!Sound(req')
  BY <1>1 DEF ReadInv
<1>8. /\ First.method = Parser!MethodNamed(After[Length].method, "All")
      /\ First.url = After[Length].url /\ First.body = After[Length].content
      /\ First.route = Router!RouteOf(Routes, First.method, First.url)
  BY <1>5, MeantFacts DEF Length, After
<1>9. CASE read < Length
  <2>1. call'.when = "early"
    BY <1>2, <1>9 DEF Length
  <2>2. call.when = "early" /\ EarlyParser
    BY <1>5, <1>6, <1>9 DEF ReadInv, LaterParser
  <2>3. req = After[read]
    BY <1>6, <1>9, <2>2 DEF EarlyParser
  <2>4. EarlyParser'
    BY <1>1, <1>4, <1>6, <1>9, <2>2, <2>3 DEF EarlyParser
  <2>5. EarlyCall'
    <3>1. read \in 0..(Length - 1) /\ read <= Position'
      BY <1>5, <1>6, <1>9
    <3> QED
      BY <1>2, <1>4, <2>3, <3>1 DEF EarlyCall, route
  <2> QED
    BY <1>6, <1>7, <2>1, <2>4, <2>5 DEF ReadInv, FirstRequestExact, LaterCallsRepeatFirst
<1>10. CASE ~(read < Length) /\ call.when = "early"
  <2>1. call'.when = "first"
    BY <1>2, <1>10 DEF Length
  <2>2. EarlyParser
    BY <1>10 DEF ReadInv
  <2>3. req = After[Length]
    BY <1>6, <1>10, <2>2 DEF EarlyParser
  <2>4. read >= Length
    BY <1>5, <1>6, <1>10
  <2>5. LaterParser'
    <3>1. Seen(After[Length], req)
      BY <1>5, <2>3, SeenItself
    <3>2. ASSUME After[Length].state \in Parser!RequestLine PROVE unread = <<>>
      <4>1. read + Len(unread) = Length
        BY <1>5, <3>2 DEF IInv, TypeOK, Stream
      <4>2. unread \in Bytes /\ Len(unread) \in Nat
        BY SameByte, LenProperties DEF Parser!TypeOK, Bytes
      <4>3. Len(unread) = 0
        BY <1>5, <1>6, <2>4, <4>1, <4>2
      <4> QED
        BY <4>2, <4>3, EmptySeq DEF Bytes
    <3> QED
      BY <1>1, <1>4, <2>4, <3>1, <3>2 DEF LaterParser
  <2>6. FirstRequestExact'
    <3>1. call'.method = First.method /\ call'.url = First.url /\ call'.body = First.body
      BY <1>2, <1>8, <2>3 DEF Parser!Method
    <3>2. call'.route = First.route
      BY <1>2, <1>8, <3>1 DEF route
    <3> QED
      BY <1>4, <3>1, <3>2 DEF FirstRequestExact
  <2> QED
    BY <1>6, <1>7, <2>1, <2>5, <2>6 DEF ReadInv, LaterCallsRepeatFirst
<1>11. CASE ~(read < Length) /\ call.when # "early"
  <2>1. call'.when = "later"
    BY <1>2, <1>11 DEF Length
  <2>2. LaterParser
    BY <1>11 DEF ReadInv
  <2>3. After[Length].state \notin Parser!RequestLine
    BY <1>1, <2>2 DEF LaterParser
  <2>4. LaterParser'
    BY <1>1, <1>4, <2>2, <2>3 DEF LaterParser
  <2>5. req.method = After[Length].method /\ req.url = After[Length].url
        /\ IsPrefix(After[Length].content, req.content)
    BY <2>2, <2>3 DEF LaterParser, Seen, MethodStates, Parser!RequestLine
  <2>6. call'.method = First.method /\ call'.url = First.url
    BY <1>2, <1>8, <2>5 DEF Parser!Method
  <2>7. call'.route = First.route
    BY <1>2, <1>8, <2>6 DEF route
  <2>8. IsPrefix(First.body, call'.body)
    BY <1>2, <1>8, <2>5
  <2>9. LaterCallsRepeatFirst'
    BY <1>4, <2>6, <2>7, <2>8 DEF LaterCallsRepeatFirst
  <2>10. read > Length
    BY <1>1, <2>2 DEF LaterParser
  <2> QED
    BY <1>1, <1>4, <1>6, <1>7, <2>1, <2>4, <2>9, <2>10 DEF ReadInv, FirstRequestExact
<1> QED
  BY <1>9, <1>10, <1>11

LEMMA NextReads == IInv /\ Parser!TypeOK /\ ReadInv /\ [Next]_vars => ReadInv'
<1> SUFFICES ASSUME IInv, Parser!TypeOK, ReadInv, [Next]_vars PROVE ReadInv'
  OBVIOUS
<1>1. CASE UNCHANGED vars
  BY <1>1 DEF vars, ReadInv, InStream, EarlyParser, EarlyCall, LaterParser,
    FirstRequestExact, LaterCallsRepeatFirst, Stream, Length, After, Position, First
<1> QED
  BY <1>1, ReadyReadReads, ParseReads, HandleRequestReads DEF Next

THEOREM ReadInvariance == Spec => []ReadInv
<1> QED
  BY InitReads, NextReads, Invariance, ParserTyped, PTL DEF Spec

(* The call made when the first request is complete, however it was cut    *)
(* into fragments, is for that request and nothing else.                   *)
THEOREM FirstRequestIsExact == Spec => []FirstRequestExact
<1>1. ReadInv => FirstRequestExact
  BY DEF ReadInv
<1> QED
  BY <1>1, ReadInvariance, PTL

(* From then on every call is for the first request again.                 *)
THEOREM LaterCallsAreForFirst == Spec => []LaterCallsRepeatFirst
<1>1. ReadInv => LaterCallsRepeatFirst
  BY DEF ReadInv
<1> QED
  BY <1>1, ReadInvariance, PTL

(* The names of the methods are all of the same length: one is not the     *)
(* beginning of another.                                                   *)
LEMMA NoNameExtendsAnother ==
  ASSUME NEW s \in Bytes, NEW t \in Bytes, IsPrefix(s, t),
         Parser!MethodNamed(s, "All") # "All"
  PROVE  s = t \/ Parser!MethodNamed(t, "All") = "All"
<1>1. \A m \in DOMAIN Parser!NameOf : Len(Parser!NameOf[m]) = 2
  BY DEF Parser!NameOf
<1>2. Len(s) = 2
  BY <1>1 DEF Parser!MethodNamed
<1>3. Parser!MethodNamed(t, "All") # "All" => Len(t) = 2
  BY <1>1 DEF Parser!MethodNamed
<1>4. Len(t) = 2 => s = t
  <2> SUFFICES ASSUME Len(t) = 2 PROVE s = t
    OBVIOUS
  <2>1. SubSeq(s, 1, 2) = SubSeq(t, 1, 2)
    BY <1>2 DEF IsPrefix
  <2>2. SubSeq(s, 1, 2) = s /\ SubSeq(t, 1, 2) = t
    BY <1>2, SubSeqFull DEF Bytes
  <2> QED
    BY <2>1, <2>2
<1> QED
  BY <1>3, <1>4

(* What a handler sees of a first request that has not been read to its    *)
(* end: a state of the parser from which the end of the request has yet to *)
(* be reached.                                                             *)
LEMMA EarlyFacts ==
  ASSUME NEW i \in 0..(Length - 1), client \in DOMAIN Dialogues
  PROVE  /\ Parser!Sound(After[i]) /\ Parser!Sound(After[Length])
         /\ Seen(After[i], After[Length])
         /\ After[i].state = "Post" => After[i].content # After[Length].content
<1>1. First.bytes \in Bytes /\ Length \in Nat /\ Length > 0
      /\ \A k \in 0..Length : Parser!Sound(After[k])
  BY ClientFacts
<1>2. i \in 0..Length /\ Length \in 0..Length /\ i <= Length /\ Length - i > 0
  BY <1>1
<1>3. /\ Seen(After[i], After[Length])
      /\ After[i].state = "Post" =>
           Len(After[Length].content) = Len(After[i].content) + (Length - i)
  BY <1>1, <1>2, ReadingIsSeen DEF Length, After
<1>4. Len(After[i].content) \in Nat
  BY <1>1, <1>2, SoundTypes, LenProperties DEF Bytes
<1>5. After[i].state = "Post" => Len(After[Length].content) # Len(After[i].content)
  BY <1>1, <1>2, <1>3, <1>4
<1> QED
  BY <1>1, <1>2, <1>3, <1>5

LEMMA EarlyCallIsPrefix == IInv /\ ReadInv => EarlyCallsArePrefixes
<1> SUFFICES ASSUME IInv, ReadInv, call.when = "early"
             PROVE  /\ \/ call.method = First.method
                       \/ call.url = <<>> /\ (call.method = "All" \/ First.method = "All")
                    /\ IsPrefix(call.url, First.url)
                    /\ IsPrefix(call.body, First.body)
                    /\ call.body # <<>> => call.method = First.method /\ call.url = First.url
                    /\ ~req.chunked => call.body = <<>> \/ call.body # First.body
  BY DEF EarlyCallsArePrefixes
<1>1. client \in DOMAIN Dialogues
  BY DEF IInv, TypeOK
<1>2. PICK i \in 0..(Length - 1) :
        /\ i <= Position
        /\ call.method = Parser!Method(After[i])
        /\ call.url = After[i].url /\ call.body = After[i].content
  BY DEF ReadInv, EarlyCall
<1> DEFINE r == After[i]
           q == After[Length]
<1>3. /\ Parser!Sound(r) /\ Parser!Sound(q) /\ Seen(r, q)
      /\ r.state = "Post" => r.content # q.content
  BY <1>1, EarlyFacts
<1>4. Meant(First) /\ First.bytes \in Bytes /\ Length \in Nat
  BY <1>1, ClientFacts
<1>5. /\ First.method = Parser!MethodNamed(q.method, "All")
      /\ First.url = q.url /\ First.body = q.content
  BY <1>4, MeantFacts DEF Length, After
<1>6. r.chunked => req.chunked
  <2> DEFINE p == IF Position < Length THEN Position ELSE Length
  <2>1. req = After[p] /\ Position \in Nat
    BY DEF ReadInv, EarlyParser, InStream, Position
  <2>2. i \in 0..Length /\ p \in 0..Length /\ i <= p
    BY <1>2, <1>4, <2>1
  <2>3. Seen(r, After[p])
    BY <1>4, <2>2, ReadingIsSeen DEF Length, After
  <2> QED
    BY <2>1, <2>3 DEF Seen
<1> HIDE DEF r, q
<1>7. call.method = Parser!MethodNamed(r.method, "All") /\ call.url = r.url
      /\ call.body = r.content
  BY <1>2 DEF r, Parser!Method
<1>8. r.state \notin MethodStates => call.method = First.method
  BY <1>3, <1>5, <1>7 DEF Seen
<1>9. \/ call.method = First.method
      \/ call.url = <<>> /\ (call.method = "All" \/ First.method = "All")
  <2> SUFFICES ASSUME r.state \in MethodStates, call.method # "All", First.method # "All"
               PROVE  call.method = First.method
    <3>1. r.state \in MethodStates => r.url = <<>>
      BY <1>3 DEF Parser!Sound, MethodStates, Parser!MethodStates
    <3> QED
      BY <1>7, <1>8, <3>1
  <2>1. r.method \in Bytes /\ q.method \in Bytes /\ IsPrefix(r.method, q.method)
    BY <1>3, SoundTypes DEF Seen
  <2> QED
    BY <1>5, <1>7, <2>1, NoNameExtendsAnother
<1>10. IsPrefix(call.url, First.url) /\ IsPrefix(call.body, First.body)
  BY <1>3, <1>5, <1>7 DEF Seen
<1>11. ASSUME call.body # <<>>
       PROVE  /\ call.method = First.method /\ call.url = First.url
              /\ req.chunked \/ r.state = "Post"
  <2>1. r.state \notin Parser!RequestLine \cup Parser!HeaderStates
    BY <1>3, <1>7, <1>11 DEF Parser!Sound
  <2>2. r.state \in Parser!ChunkStates => r.chunked
    BY <1>3 DEF Parser!Sound
  <2>3. r.state \in Parser!State /\ r.state # "MessageComplete"
    BY <1>3 DEF Parser!Sound, Parser!Requests
  <2>4. req.chunked \/ r.state = "Post"
    BY <1>6, <2>1, <2>2, <2>3 DEF Parser!State
  <2>5. r.state \notin MethodStates
    BY <2>1 DEF MethodStates, Parser!RequestLine
  <2> QED
    BY <1>3, <1>5, <1>7, <1>8, <2>1, <2>4, <2>5 DEF Seen
<1>12. ~req.chunked => call.body = <<>> \/ call.body # First.body
  BY <1>3, <1>5, <1>7, <1>11
<1> QED
  BY <1>9, <1>10, <1>11, <1>12

(* Until then a handler sees a beginning of the request: never all of a    *)
(* counted body, and no part of a body before all of the method and the    *)
(* url.                                                                    *)
THEOREM EarlyCallsAreEarly == Spec => []EarlyCallsArePrefixes
<1> QED
  BY EarlyCallIsPrefix, Invariance, ReadInvariance, PTL

-----------------------------------------------------------------------------
(* What those who compose a connection with its handlers need of it.       *)

LEMMA CallFacts ==
  ASSUME IInv, ReadInv
  PROVE  /\ call.when \in {"early", "first", "later"}
         /\ First.body \in Seq(Request!Byte) /\ call.body \in Seq(Request!Byte)
         /\ call.when # "early" => read >= Len(First.bytes)
         /\ call.when = "early" /\ call.body # <<>> =>
              /\ call.method = First.method /\ call.route = First.route
              /\ IsPrefix(call.body, First.body)
              /\ ~req.chunked => call.body # First.body
         /\ call.when = "first" =>
              /\ call.method = First.method /\ call.route = First.route
              /\ call.body = First.body
         /\ call.when = "later" =>
              /\ call.method = First.method /\ call.route = First.route
              /\ IsPrefix(First.body, call.body)
              /\ read > Len(First.bytes)
<1>1. EarlyCallsArePrefixes
  BY EarlyCallIsPrefix
<1>2. client \in DOMAIN Dialogues
  BY DEF IInv, TypeOK
<1>3. /\ First.body = After[Length].content
      /\ First.route = Router!RouteOf(Routes, First.method, First.url)
      /\ Parser!Sound(After[Length])
  BY <1>2, ClientFacts, MeantFacts DEF Length, After
<1>4. First.body \in Seq(Request!Byte)
  BY <1>3, SoundTypes DEF Bytes
<1>5. ASSUME call.when = "early", call.body # <<>>
      PROVE  call.route = First.route
  <2>1. call.method = First.method /\ call.url = First.url
    BY <1>1, <1>5 DEF EarlyCallsArePrefixes
  <2>2. call # NoCall
    BY <1>5 DEF NoCall
  <2>3. call.route = Router!RouteOf(Routes, call.method, call.url)
    BY <1>5, <2>2 DEF ReadInv, EarlyCall
  <2> QED
    BY <1>3, <2>1, <2>3
<1>6. call.body \in Seq(Request!Byte)
  BY DEF IInv
<1> QED
  BY <1>1, <1>4, <1>5, <1>6
     DEF EarlyCallsArePrefixes, ReadInv, LaterParser, FirstRequestExact, LaterCallsRepeatFirst, Length

LEMMA ChunkedStays ==
  ASSUME IInv, Parser!TypeOK, ReadInv, [Next]_vars, req.chunked
  PROVE  req'.chunked
<1>1. CASE Parse
  <2>1. /\ fragment[1] \in Request!Byte /\ Parser!Sound(req)
        /\ req' = Parser!AfterByte(req, fragment[1])
    BY <1>1, ParseByteReads DEF ReadInv
  <2> QED
    BY <2>1, ByteExtends DEF Parser!Extends
<1>2. CASE ReadyRead \/ HandleRequest \/ UNCHANGED vars
  BY <1>2 DEF ReadyRead, Request!ReadAll, HandleRequest, vars
<1> QED
  BY <1>1, <1>2 DEF Next

(* The whole of the invariant, on every connection.                        *)
ConnectionInv == Parser!TypeOK /\ IInv /\ ReadInv

THEOREM ConnectionInvariance == Spec => []ConnectionInv
<1>1. Parser!TypeOK /\ IInv /\ ReadInv => ConnectionInv
  BY DEF ConnectionInv
<1> QED
  BY <1>1, ParserTyped, Invariance, ReadInvariance, PTL

=============================================================================
