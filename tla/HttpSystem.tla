----------------------------- MODULE HttpSystem -----------------------------
(***************************************************************************)
(* The whole program as one of its clients meets it: the bytes of that     *)
(* client, cut into fragments by the network, through the parser and the   *)
(* router of HttpConnection to the view handlers of TableService, which    *)
(* other clients change the table through meanwhile.                       *)
(*                                                                         *)
(* A handler runs after every fragment, so the handlers of main.cpp may    *)
(* run several times for one request.  What keeps that from showing in the *)
(* table is that an incomplete JSON document does not parse and that their *)
(* effects, done twice, are those done once.                               *)
(***************************************************************************)
EXTENDS Integers, Sequences, SequencesExt

CONSTANTS
  Letter, Streams, SizeMod, ShortMod, HeaderHash(_), AtoiTable, HexTable,
  Registrations, Dialogues,            \* as in HttpConnection
  Value, Empty, Absent, Id, KeyMod, MaxLog,   \* as in TableService
  OtherDocuments, MaxOthers,   \* what the other clients send, and a bound on their changes
  JsonTable    \* the bodies that are JSON objects with an id or a value,
               \* as members of Document

VARIABLES
  req, fragment, unread, parsed, completed, client, phase, read, call,
  table, transactionLog, written,
  own,      \* history: how many log entries are due to this client,
  others,   \*          and to others;
  latest    \*          whom the last one is due to

Connection == INSTANCE HttpConnection
Service    == INSTANCE TableService

(* What HttpRequest, HttpConnection and TableService assume.               *)
ASSUME ConnectionAssumption ==
  /\ Connection!Request!Abbreviated \subseteq Letter
  /\ Letter \cap (Connection!Request!Digit \cup Connection!Request!Control
                   \cup Connection!Request!Special \cup Connection!Request!Octet
                   \cup {".", "-", "#"}) = {}
  /\ Streams = {Connection!BytesOf(Dialogues[c]) : c \in DOMAIN Dialogues}
  /\ Registrations \in
       Seq([pattern : Seq(Connection!Request!Byte), methods : SUBSET STRING])
  /\ Streams \subseteq Seq(Connection!Request!Byte)
  /\ SizeMod \in Nat \ {0} /\ ShortMod \in Nat \ {0}
  /\ AtoiTable \in [DOMAIN AtoiTable -> Int]
  /\ HexTable \in [DOMAIN HexTable -> 0..(SizeMod - 1)]
  /\ Connection!FirstMeant
ASSUME ServiceAssumption ==
  /\ Empty \in Value /\ Absent \notin Value
  /\ Id \subseteq Int /\ 0 \in Id
  /\ KeyMod \in Nat \ {0} /\ MaxLog \in Nat
ASSUME DocumentAssumption ==
  /\ JsonTable \in [DOMAIN JsonTable -> Service!Document]
  /\ OtherDocuments \subseteq Service!Document

(* Nothing is no document, and what may follow one is white space.         *)
ASSUME JsonAssumption ==
  /\ DOMAIN JsonTable \subseteq Seq(Connection!Request!Byte) \ {<<>>}
  /\ \A b, c \in DOMAIN JsonTable : IsPrefix(b, c) => JsonTable[b] = JsonTable[c]

vars == <<req, fragment, unread, parsed, completed, client, phase, read, call,
          table, transactionLog, written, own, others, latest>>

(* QJsonDocument::fromJson, of which the handlers look at two members.     *)
NoDocument ==
  [idKind |-> "missing", id |-> 0, valueKind |-> "missing", value |-> Empty]

\* Slip: what has been read of a document is enough.
FromJson_Partial(body) ==
  IF \E whole \in DOMAIN JsonTable : body # <<>> /\ IsPrefix(body, whole)
    THEN JsonTable[CHOOSE whole \in DOMAIN JsonTable : IsPrefix(body, whole)]
    ELSE NoDocument

FromJson(body) == IF body \in DOMAIN JsonTable THEN JsonTable[body] ELSE NoDocument

(* The view handler registered first is that of /api, the other /test's.   *)
Api(method, body) ==
  \/ method = "GET" /\ Service!GetApi
  \/ method = "POST" /\ Service!PostApi(FromJson(body))
  \/ method = "DELETE" /\ Service!DeleteApi(FromJson(body))
  \/ method = "PUT" /\ Service!PutApi(FromJson(body))
  \/ method = "All" /\ Service!OtherMethod

Init ==
  /\ Connection!Init /\ Service!Init
  /\ own = 0 /\ others = 0 /\ latest = "nobody"

Shared == <<table, transactionLog, written, own, others, latest>>

ReadyRead == Connection!ReadyRead /\ UNCHANGED Shared
Parse     == Connection!Parse /\ UNCHANGED Shared

(* The request as it has been parsed is routed, and the handler runs       *)
(* within the same call.                                                   *)
HandleRequest ==
  /\ Connection!HandleRequest
  /\ \/ call'.route = 1 /\ Api(call'.method, call'.body)
     \/ call'.route = 2 /\ Service!TestPage
     \/ call'.route = 0 /\ written' = <<>> /\ UNCHANGED <<table, transactionLog>>
  /\ own' = own + Len(transactionLog') - Len(transactionLog)
  /\ latest' = IF own' = own THEN latest ELSE "own"
  /\ UNCHANGED others

(* Between two slots of this connection the handler runs for another: its  *)
(* socket and its HttpRequest are its own, the table and the log are not.  *)
OtherRequest ==
  /\ phase = "waiting" /\ others < MaxOthers
  /\ \E doc \in OtherDocuments :
       Service!PostApi(doc) \/ Service!PutApi(doc) \/ Service!DeleteApi(doc)
  /\ others' = others + Len(transactionLog') - Len(transactionLog)
  /\ latest' = IF others' = others THEN latest ELSE "other"
  /\ UNCHANGED <<req, fragment, unread, parsed, completed, client, phase, read, call, own>>

Next == ReadyRead \/ Parse \/ HandleRequest \/ OtherRequest

Spec == Init /\ [][Next]_vars

FairSpec == Spec /\ WF_vars(ReadyRead) /\ WF_vars(Parse) /\ WF_vars(HandleRequest)

-----------------------------------------------------------------------------
First == Connection!First

(* The document a body is, or begins with: what comes behind one is white  *)
(* space, or spoils it for the parser, if the parser gets to see it.       *)
DocumentsIn ==
  [c \in DOMAIN Dialogues |->
     {b \in DOMAIN JsonTable : IsPrefix(b, Dialogues[c][1].body)}]
Documents == DocumentsIn[client]
Document  == IF Documents = {} THEN NoDocument
             ELSE JsonTable[CHOOSE b \in Documents : TRUE]
Trailing  == \E b \in Documents : b # First.body
Key       == Service!KeyOf(Service!ToInt(Document))

(* The change the first request asks for.                                  *)
Changes ==
  /\ First.route = 1
  /\ \/ First.method \in {"POST", "PUT"} /\ Service!HasId(Document) /\ Service!HasValue(Document)
     \/ First.method = "DELETE" /\ Service!HasId(Document)

DocumentRead == \E b \in Documents : IsPrefix(b, call.body)

(* However a request is cut and whatever others do meanwhile: nothing is   *)
(* changed before all of its document has been read, and nothing it did    *)
(* not ask for; when it is complete, what it asks for has been done, and   *)
(* done once.  Only if the body is chunked or has something behind its     *)
(* document the whole document may be there before the request is: then    *)
(* the handler may run on it more than once, or on one that turns out to   *)
(* be none.                                                                *)
AppliedOnce ==
  /\ call.when # "later" /\ own > 0 => Changes /\ DocumentRead
  /\ call.when = "first" /\ Changes /\ First.body \in DOMAIN JsonTable => own > 0
  /\ ~req.chunked /\ ~Trailing =>
       /\ call.when = "early" => own = 0
       /\ call.when = "first" => own <= 1

(* Handlers run again for the same request: for the rest of a chunked      *)
(* body, for white space behind its document, for the bytes of later       *)
(* requests.  What they do twice is what they did once: unless another     *)
(* client has come in between, a further run leaves the table as it is,    *)
(* though it is logged and answered again.                                 *)
RepeatsChangeNothing == [][latest = "own" /\ own' > own => table' = table]_vars

(* A body that is no document may become one with the bytes that follow    *)
(* the request: contentSize has wrapped and Post goes on.  What is changed *)
(* then is not what the request asked for.                                 *)
Unfinished == First.method \in {"POST", "PUT", "DELETE"} /\ Documents = {}

Store ==
  INSTANCE AtomicStore WITH
    Key <- Service!Key,
    request <- [method |-> IF Changes THEN First.method ELSE "none",
                key |-> Key, value |-> Service!ToString(Document)],
    store <- table, applied <- IF Unfinished THEN 0 ELSE own,
    repeatable <- req.chunked \/ Trailing \/ read > Len(First.bytes)

(* From the bytes to the table the program is an atomic store: however a   *)
(* request is cut, it is its method, its id and its value, all of them and *)
(* nothing else, that change the table, in one step and once; only a       *)
(* request that is chunked, has something behind its document or more      *)
(* bytes behind it, may be done again.                                     *)
IsAtomicStore == Store!Spec

(* A request that asks for a change with a whole document gets it.         *)
TakesEffect == <>(Changes /\ First.body \in DOMAIN JsonTable => own > 0)

=============================================================================
