----------------------------- MODULE HttpReading -----------------------------
(***************************************************************************)
(* The switch of HttpRequest::parse as a function of the request and one   *)
(* byte, and so what the bytes of a message mean when they are read in one *)
(* go: the reference against which the calls of the handlers are held,     *)
(* which are made in the middle of it, wherever the network has cut it.    *)
(* That the actions of HttpRequest do what this function says is proved    *)
(* in HttpRequestProofs (ParsesByReading).                                 *)
(***************************************************************************)
EXTENDS HttpRequest

(* The transitions that do more than change `state'.                       *)
AfterData(r, c) ==
  LET s == r.state IN
  CASE s \in {"RequestMethodStart", "RequestMethod"} ->
         [r EXCEPT !.state = "RequestMethod", !.method = Append(@, c)]
    [] s = "RequestUrl" /\ c = "CR" -> [r EXCEPT !.major = 0, !.minor = 9]
    [] s \in {"RequestUrlStart", "RequestUrl"} /\ c # "CR" ->
         [r EXCEPT !.state = "RequestUrl", !.url = Append(@, c)]
    [] s = "RequestHttpVersion_slash" ->
         [r EXCEPT !.state = "RequestHttpVersion_majorStart", !.major = 0, !.minor = 0]
    [] s = "RequestHttpVersion_majorStart" ->
         [r EXCEPT !.state = "RequestHttpVersion_major", !.major = DigitValue(c)]
    [] s = "RequestHttpVersion_major" -> [r EXCEPT !.major = Shift(@, c)]
    [] s = "RequestHttpVersion_minorStart" ->
         [r EXCEPT !.state = "RequestHttpVersion_minor", !.minor = DigitValue(c)]
    [] s = "RequestHttpVersion_minor" -> [r EXCEPT !.minor = Shift(@, c)]
    [] s = "HeaderLineStart" ->
         LET stored == r.name # <<>> IN
         [r EXCEPT
           !.state = "HeaderName",
           !.headers = IF stored THEN WithHeader(@, r.name, r.value) ELSE @,
           !.name = <<c>>,
           !.value = IF stored THEN <<>> ELSE @]
    [] s = "HeaderName" -> [r EXCEPT !.name = Append(@, c)]
    [] s = "HeaderValue" /\ c = "CR" ->
         [r EXCEPT
           !.state = "ExpectingNewline_2",
           !.contentSize = IF Frames(r, "Content-Length") THEN Atoi(r.value) % SizeMod ELSE @,
           !.chunked = @ \/ (Frames(r, "Transfer-Encoding") /\ r.value = <<"chunked">>)]
    [] s \in {"HeaderLws", "HeaderValue"} /\ c # "CR" ->
         [r EXCEPT !.state = "HeaderValue", !.value = Append(@, c)]
    [] s = "ExpectingNewline_3" ->
         [r EXCEPT
           !.state = IF r.chunked THEN "ChunkSize" ELSE IF CountsBody(r) THEN "Post" ELSE @,
           !.keepAlive = KeepAlive(r)]
    [] s = "Post" -> [r EXCEPT !.contentSize = Decrement(@), !.content = Append(@, c)]
    [] s = "ChunkSize" -> [r EXCEPT !.chunkSizeStr = Append(@, c)]
    [] s = "ChunkSizeNewLine" ->
         LET size == Strtol16(r.chunkSizeStr) IN
         [r EXCEPT !.state = AfterSize(size), !.chunkSize = size, !.chunkSizeStr = <<>>]
    [] s = "ChunkData" ->
         LET left == Decrement(r.chunkSize) IN
         [r EXCEPT
           !.state = IF left = 0 THEN "ChunkDataNewLine_1" ELSE @,
           !.chunkSize = left,
           !.content = Append(@, c)]
    [] OTHER -> r

(* What a case makes of the request, and whether it ends with a return.    *)
AfterByte(r, c) ==
  LET moves == {m \in Moves : m[1] = r.state /\ m[2] = c} IN
  IF moves # {} THEN [r EXCEPT !.state = (CHOOSE m \in moves : TRUE)[3]]
  ELSE IF ContinuesHeader(r, c) THEN [r EXCEPT !.state = "HeaderLws"]
  ELSE IF Accepts(r, c) THEN AfterData(r, c)
  ELSE r

Returns(r, c) ==
  \/ ~Accepts(r, c)
  \/ r.state = "RequestUrl" /\ c = "CR"
  \/ r.state = "ExpectingNewline_3" /\ ~r.chunked /\ ~CountsBody(r)
  \/ r.state = "Post" /\ Decrement(r.contentSize) = 0
  \/ r.state = "ChunkSizeNewLine_3" /\ c = "LF"

(* The request after each of the bytes.                                    *)
Reading(bytes) ==
  LET after[i \in 0..Len(bytes)] ==
        IF i = 0 THEN Fresh ELSE AfterByte(after[i - 1], bytes[i])
  IN  after

=============================================================================
