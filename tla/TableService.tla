---------------------------- MODULE TableService ----------------------------
(***************************************************************************)
(* The service of src/src/main.cpp: a table of values under 8-bit keys and *)
(* a log of what was done to it, both members of HttpServer, and the two   *)
(* view handlers that work on them.                                        *)
(*                                                                         *)
(* A handler runs in one step: none of them spins an event loop.  A body   *)
(* is a JSON document, of which the handlers look at the members id and    *)
(* value; one that does not parse has neither.                             *)
(***************************************************************************)
EXTENDS Integers, Sequences, HttpResponder

CONSTANTS
  Value,      \* the strings clients store
  Empty,      \* the empty string
  Absent,     \* marks a key that is not in the table
  Id,         \* the integers clients send as id
  KeyMod,     \* 2^w, w the width of quint8
  MaxLog      \* bound on the length of the log

ASSUME ValueAssumption == Empty \in Value /\ Absent \notin Value
ASSUME IdAssumption == Id \subseteq Int /\ 0 \in Id
ASSUME KeyModAssumption == KeyMod \in Nat \ {0}
ASSUME MaxLogAssumption == MaxLog \in Nat

VARIABLES
  table,           \* HttpServer::table
  transactionLog,  \* HttpServer::transactionLog
  written          \* what the last call of a handler wrote to its socket

vars == <<table, transactionLog, written>>

Key == 0..(KeyMod - 1)

Document ==
  [idKind : {"missing", "integer", "other"}, id : Id,
   valueKind : {"missing", "string", "other"}, value : Value]

HasId(doc)    == doc.idKind # "missing"
HasValue(doc) == doc.valueKind # "missing"

\* Slip: another default.
ToInt_MinusOne(doc) == IF doc.idKind = "integer" THEN doc.id ELSE -1

(* QJsonValue::toInt and toString, with their defaults.                    *)
ToInt(doc)    == IF doc.idKind = "integer" THEN doc.id ELSE 0
ToString(doc) == IF doc.valueKind = "string" THEN doc.value ELSE Empty

(* An int used as a key of QMap<quint8, QByteArray>.                       *)
KeyOf(id) == id % KeyMod

TableContains(id) == table[KeyOf(id)] # Absent

LogEntry == [what : {"added", "modified", "deleted"}, id : Id]
Log(what, id) == transactionLog' = Append(transactionLog, [what |-> what, id |-> id])

(* The bodies of the answers: a message, the table, or the test page.      *)
Message == {"refused", "already exists", "no such element", "location",
            "added", "modified", "deleted"}
Text(message, id) == [message |-> message, id |-> id]
Listing == {<<k, table[k]>> : k \in {k \in Key : table[k] # Absent}}
Page == [listing |-> Listing, log |-> transactionLog]
Listings == SUBSET (Key \X Value)
Texts == [message : Message, id : Id] \cup [listing : Listings]
           \cup [listing : Listings, log : Seq(LogEntry)]

\* Slip: the status of the other answers.
Refuse_Created ==
  /\ written' = WriteData(NewResponder, Text("refused", 0), "Created").written
  /\ UNCHANGED <<table, transactionLog>>

(* write("No ... provided!", {{ }}, NoContent): the handler returns.        *)
Refuse ==
  /\ written' = WriteData(NewResponder, Text("refused", 0), "NoContent").written
  /\ UNCHANGED <<table, transactionLog>>

-----------------------------------------------------------------------------
Init ==
  /\ table = [k \in Key |-> Absent]
  /\ transactionLog = <<>>
  /\ written = <<>>

GetApi ==
  /\ written' = WriteJson(NewResponder, [listing |-> Listing], "Ok").written
  /\ UNCHANGED <<table, transactionLog>>

RoomInLog == Len(transactionLog) < MaxLog

\* Slip: what is stored is replaced.
PostApi_Replaces(doc) ==
  /\ HasValue(doc) /\ HasId(doc) /\ RoomInLog
  /\ LET key == ToInt(doc) IN
     /\ table' = [table EXCEPT ![KeyOf(key)] = ToString(doc)]
     /\ Log("added", key)
     /\ written' = WriteData(NewResponder, Text("location", key), "Created").written

(* A taken key is answered twice: with Forbidden, and with Created.        *)
PostApi(doc) ==
  \/ /\ ~HasValue(doc) \/ ~HasId(doc)
     /\ Refuse
  \/ /\ HasValue(doc) /\ HasId(doc) /\ RoomInLog
     /\ LET key == ToInt(doc)
            responder == IF TableContains(key)
                           THEN WriteData(NewResponder, Text("already exists", key), "Forbidden")
                           ELSE NewResponder IN
        /\ table' = IF TableContains(key) THEN table
                    ELSE [table EXCEPT ![KeyOf(key)] = ToString(doc)]
        /\ Log("added", key)
        /\ written' = WriteData(responder, Text("location", key), "Created").written

\* Slip: nothing is removed.
DeleteApi_Keeps(doc) ==
  /\ HasId(doc) /\ RoomInLog
  /\ Log("deleted", ToInt(doc))
  /\ written' = WriteData(NewResponder, Text("deleted", ToInt(doc)), "Created").written
  /\ UNCHANGED table

DeleteApi(doc) ==
  \/ /\ ~HasId(doc)
     /\ Refuse
  \/ /\ HasId(doc) /\ RoomInLog
     /\ LET key == ToInt(doc)
            responder == IF TableContains(key) THEN NewResponder
                         ELSE WriteData(NewResponder, Text("no such element", key), "Created") IN
        /\ table' = [table EXCEPT ![KeyOf(key)] = Absent]
        /\ Log("deleted", key)
        /\ written' = WriteData(responder, Text("deleted", key), "Created").written

PutApi(doc) ==
  \/ /\ ~HasValue(doc) \/ ~HasId(doc)
     /\ Refuse
  \/ /\ HasValue(doc) /\ HasId(doc) /\ RoomInLog
     /\ LET key == ToInt(doc)
            done == IF TableContains(key) THEN "modified" ELSE "added" IN
        /\ table' = [table EXCEPT ![KeyOf(key)] = ToString(doc)]
        /\ Log(done, key)
        /\ written' = WriteData(NewResponder, Text(done, key), "Created").written

(* Any other method, and one that has not been read in full.               *)
OtherMethod ==
  /\ written' = <<>>
  /\ UNCHANGED <<table, transactionLog>>

(* /test, whatever the method: the table and the log as a page.            *)
TestPage ==
  /\ written' = WriteData(NewResponder, Page, "Ok").written
  /\ UNCHANGED <<table, transactionLog>>

Next ==
  \/ \E doc \in Document : PostApi(doc) \/ DeleteApi(doc) \/ PutApi(doc)
  \/ GetApi \/ OtherMethod \/ TestPage

Spec == Init /\ [][Next]_vars

-----------------------------------------------------------------------------
TypeOK ==
  /\ table \in [Key -> Value \cup {Absent}]
  /\ transactionLog \in Seq(LogEntry)
  /\ written \in Seq(Item(Texts))

(* The i-th entry is the last one about the key it names.                  *)
LastAbout(k, i) ==
  /\ KeyOf(transactionLog[i].id) = k
  /\ \A j \in DOMAIN transactionLog : j > i => KeyOf(transactionLog[j].id) # k

(* The log is a faithful account of which keys are in use, even where it   *)
(* tells of an addition that was refused or a deletion of nothing: a key   *)
(* is in the table exactly if the last entry about it, under any of the    *)
(* ids the key stands for, is not a deletion.                              *)
LogReflectsTable ==
  \A k \in Key :
    table[k] # Absent <=>
      \E i \in DOMAIN transactionLog :
        LastAbout(k, i) /\ transactionLog[i].what # "deleted"

(* A stored value is never replaced silently: not by a second POST, not    *)
(* through another id of the same key, not by a bad request.  When it      *)
(* changes, the step logs a modification of that key.                      *)
ChangesAreLogged ==
  [][\A k \in Key :
       table[k] # Absent /\ table'[k] \notin {Absent, table[k]} =>
         \E id \in Id :
           /\ KeyOf(id) = k
           /\ transactionLog' = Append(transactionLog, [what |-> "modified", id |-> id])]_vars

StatusLines == {i \in DOMAIN written : written[i].kind = "status"}

(* The answer and the log agree: a client that reads Created, be it after  *)
(* another answer to the same request, sent a request that is in the log,  *)
(* and a request answered otherwise is not.                                *)
AnswersAgreeWithLog ==
  [][(\E i \in StatusLines' : written'[i].name = "Created")
       <=> Len(transactionLog') > Len(transactionLog)]_<<written, transactionLog>>

(* Two answers to one request are no two messages: _bodyStarted is not     *)
(* reset, so the second has no empty line before its body                  *)
(* (http_response.cpp:228).  A client that goes by the first, up to its    *)
(* body, is told the truth: it is a refusal exactly if the set of keys in  *)
(* use is what it was.                                                     *)
FirstBody ==
  written[CHOOSE i \in DOMAIN written :
            written[i].kind = "body" /\ \A j \in 1..(i - 1) : written[j].kind # "body"]

FirstIsMessage ==
  /\ Len(written) >= 4
  /\ [i \in 1..4 |-> written[i].kind] = <<"status", "header", "empty", "body">>

InUse == {k \in Key : table[k] # Absent}

FirstAnswerTells ==
  [][\A what \in {"added", "deleted"}, id \in Id :
       transactionLog' = Append(transactionLog, [what |-> what, id |-> id]) =>
         /\ FirstIsMessage'
         /\ (FirstBody'.text.message \in {"already exists", "no such element"}
               <=> InUse' = InUse)]_vars

(* What the log says, "An element with id %1 has been added" and "An item  *)
(* with id(%1) deleted" (main.cpp:71 and :101), is what happened.          *)
LoggedWasDone ==
  [][\A id \in Id :
       /\ transactionLog' = Append(transactionLog, [what |-> "added", id |-> id])
            => KeyOf(id) \notin InUse /\ KeyOf(id) \in InUse'
       /\ transactionLog' = Append(transactionLog, [what |-> "deleted", id |-> id])
            => KeyOf(id) \in InUse /\ KeyOf(id) \notin InUse']_vars

(* A status line carries the number status_map.h gives the status it is    *)
(* named for ("XX(204, NO_CONTENT, No Content)", status_map.h:15).         *)
StatusMeansItsName ==
  \A i \in StatusLines : written[i].number = StatusMap[written[i].name]

=============================================================================
