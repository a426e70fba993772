---------------------------- MODULE HttpResponder ----------------------------
(***************************************************************************)
(* What an HttpResponder writes to the socket                              *)
(* (src/src/httpserver/http_response.{h,cpp}): a responder is made for one *)
(* call of a view handler and remembers whether a body has been started on *)
(* it.  The bytes written are a sequence of items, each a record: a status *)
(* line, a header, the empty line that ends the headers, or a body.        *)
(***************************************************************************)
EXTENDS Integers, Sequences

StatusCode == {"Continue", "Ok", "BadRequest", "InternalServerError", "Created",
               "Accepted", "NoContent", "NotFound", "Forbidden", "BadGateway"}

(* The numbers the compiler gives the enumerators: the last five count on  *)
(* from Created.                                                           *)
Number ==
  [Continue |-> 100, Ok |-> 200, BadRequest |-> 400, InternalServerError |-> 500,
   Created |-> 201, Accepted |-> 202, NoContent |-> 203,
   NotFound |-> 204, Forbidden |-> 205, BadGateway |-> 206]

(* The numbers HTTP_STATUS_MAP gives the statuses of the same names.       *)
StatusMap ==
  [Continue |-> 100, Ok |-> 200, BadRequest |-> 400, InternalServerError |-> 500,
   Created |-> 201, Accepted |-> 202, NoContent |-> 204,
   NotFound |-> 404, Forbidden |-> 403, BadGateway |-> 502]

StatusLine(status)  == [kind |-> "status", name |-> status, number |-> Number[status]]
HeaderLine(name)    == [kind |-> "header", name |-> name]
EmptyLine           == [kind |-> "empty"]
BodyOf(text)        == [kind |-> "body", text |-> text]

(* What may be written, the bodies taken from Texts.                       *)
Item(Texts) ==
  [kind : {"status"}, name : StatusCode, number : Nat]
    \cup [kind : {"header"}, name : {"Content-Type", "Content-Length"}]
    \cup [kind : {"empty"}]
    \cup [kind : {"body"}, text : Texts]

NewResponder == [written |-> <<>>, bodyStarted |-> FALSE]

WriteItem(responder, item) == [responder EXCEPT !.written = Append(@, item)]

(* writeBody: only the first body of a responder is set off from what      *)
(* precedes it.                                                            *)
WriteBody(responder, text) ==
  LET separated == IF responder.bodyStarted THEN responder
                   ELSE WriteItem(responder, EmptyLine) IN
  [WriteItem(separated, BodyOf(text)) EXCEPT !.bodyStarted = TRUE]

(* write(data, headers, status): the headers are not written.              *)
WriteData(responder, text, status) ==
  WriteBody(WriteItem(WriteItem(responder, StatusLine(status)),
                      HeaderLine("Content-Length")),
            text)

(* write(document, headers, status), for the one list of headers it is     *)
(* called with.                                                            *)
WriteJson(responder, text, status) ==
  WriteBody([responder EXCEPT
               !.written = @ \o <<StatusLine(status), HeaderLine("Content-Type"),
                                  HeaderLine("Content-Length"), HeaderLine("Content-Type")>>],
            text)

=============================================================================
