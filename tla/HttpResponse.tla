---------------------------- MODULE HttpResponse ----------------------------
(***************************************************************************)
(* An HttpResponse: a body and a collection of headers that an application *)
(* builds up, and the answer that is made of them                          *)
(* (src/src/httpserver/http_response.{h,cpp}).                             *)
(*                                                                         *)
(* The headers are in an unordered_map.  Its hash folds the case of names, *)
(* its comparison does not, so names that differ in case are different     *)
(* keys; and being a map and no multimap it keeps what it has when a key   *)
(* is added that is there.  Its iteration order is not known, so the lines *)
(* of an answer are a set.  The status line is HttpResponder's.            *)
(***************************************************************************)
EXTENDS Integers, Sequences

CONSTANTS
  Name,      \* header names, among them "Content-Type" and "Content-Length"
  Value,     \* header values
  MimeType,  \* the content type a constructor is given or finds out
  Lengths,   \* of bodies
  Lists,     \* header lists: sequences of pairs of a name and a value
  MaxAsked   \* bound on the headers asked for in the life of a response

ASSUME HeaderAssumption ==
  /\ {"Content-Type", "Content-Length"} \subseteq Name
  /\ MimeType \in Value
  /\ Lists \subseteq Seq(Name \X Value)
ASSUME NumberAssumption == Lengths \subseteq Nat /\ MaxAsked \in Nat

VARIABLES
  headers,  \* _headers, a function on the names that are there
  size,     \* _data.size()
  answer,   \* the header lines written since the last change, or NoAnswer
  history   \* what has been asked for so far, in order

vars == <<headers, size, answer, history>>

NoAnswer == {}
NoHeaders == [n \in {} |-> MimeType]

Without(h, name) == [n \in DOMAIN h \ {name} |-> h[n]]

(* unordered_map::emplace, which is what addHeader does.                   *)
Emplace(h, name, value) ==
  [n \in DOMAIN h \cup {name} |-> IF n \in DOMAIN h THEN h[n] ELSE value]

\* Slip: the old value is not cleared.
SetHeader_Keeps(h, name, value) == Emplace(h, name, value)

SetHeader(h, name, value) == Emplace(Without(h, name), name, value)

Put(what, h, name, value) ==
  IF what = "set" THEN SetHeader(h, name, value) ELSE Emplace(h, name, value)

Asks(what, name, value) == [what |-> what, name |-> name, value |-> value]

Change(asked, result) ==
  /\ Len(history) + Len(asked) <= MaxAsked
  /\ history' = history \o asked
  /\ headers' = result
  /\ answer' = NoAnswer
  /\ UNCHANGED size

-----------------------------------------------------------------------------
(* The constructors.  All end in one of the four that take a mime type; of *)
(* those only the one with two rvalues sets the header.                    *)
Init ==
  /\ size \in Lengths
  /\ answer = NoAnswer
  /\ \/ headers = NoHeaders /\ history = <<>>
     \/ /\ headers = SetHeader(NoHeaders, "Content-Type", MimeType)
        /\ history = <<Asks("set", "Content-Type", MimeType)>>

(* addHeaders and setHeaders: a loop over a list.  addHeader and setHeader *)
(* are a list of one.                                                      *)
EachHeader(what, list) ==
  LET done[i \in 0..Len(list)] ==
        IF i = 0 THEN headers ELSE Put(what, done[i - 1], list[i][1], list[i][2])
  IN  Change([i \in DOMAIN list |-> Asks(what, list[i][1], list[i][2])], done[Len(list)])

AddHeaders(list) == EachHeader("add", list)
SetHeaders(list) == EachHeader("set", list)

ClearHeader(name) ==
  Change(<<Asks("clear", name, MimeType)>>, Without(headers, name))

ClearHeaders ==
  Change(<<Asks("clear all", "Content-Type", MimeType)>>, NoHeaders)

\* Slip: the value is left out.
Line_Bare(name, value) == <<name>>

Line(name, value) == <<name, value>>

(* write: every header, and the length of the body after them.  A socket   *)
(* that is not connected gets nothing.                                     *)
Write ==
  /\ \/ UNCHANGED answer
     \/ answer' = {Line(n, headers[n]) : n \in DOMAIN headers}
                    \cup {Line("Content-Length", size)}
  /\ UNCHANGED <<headers, size, history>>

Next ==
  \/ \E list \in Lists : AddHeaders(list) \/ SetHeaders(list)
  \/ \E name \in Name : ClearHeader(name)
  \/ ClearHeaders \/ Write

Spec == Init /\ [][Next]_vars

-----------------------------------------------------------------------------
TypeOK ==
  /\ DOMAIN headers \subseteq Name
  /\ \A n \in DOMAIN headers : headers[n] \in Value
  /\ size \in Lengths
  /\ answer \subseteq Name \X (Value \cup Lengths)
  /\ history \in Seq([what : {"add", "set", "clear", "clear all"}, name : Name, value : Value])

(* The i-th request decides about the header: since then none has set or   *)
(* cleared it, and it set it, or added it when it was not there.           *)
About(i, name) == history[i].name = name \/ history[i].what = "clear all"

Decides(i, name) ==
  /\ history[i].name = name /\ history[i].what \in {"set", "add"}
  /\ \A j \in DOMAIN history : j > i /\ About(j, name) => history[j].what = "add"
  /\ history[i].what = "add" =>
       \A j \in 1..(i - 1) : About(j, name) =>
         \E k \in j..(i - 1) : About(k, name) /\ history[k].what \in {"clear", "clear all"}

(* The lines of an answer, whatever has been done to the headers before    *)
(* and in whatever order: for each name at most one value, the one set     *)
(* last, or else the first that was added since the name was cleared; and  *)
(* the length of the body, once if the application has not asked for that  *)
(* header itself.                                                          *)
AnswerAsAsked ==
  answer # NoAnswer =>
    answer = {Line("Content-Length", size)} \cup
             {Line(history[i].name, history[i].value) :
                i \in {i \in DOMAIN history : Decides(i, history[i].name)}}

=============================================================================
