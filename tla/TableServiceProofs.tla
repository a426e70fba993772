-------------------------- MODULE TableServiceProofs --------------------------
(***************************************************************************)
(* Proofs about TableService, for any stored strings, any ids and any      *)
(* number of keys.                                                         *)
(***************************************************************************)
EXTENDS TableService, SequenceTheorems, TLAPS

LEMMA KeyOfType ==
  ASSUME NEW id \in Id
  PROVE  KeyOf(id) \in Key
<1>1. id \in Int
  BY IdAssumption
<1> QED
  BY <1>1, KeyModAssumption DEF KeyOf, Key

LEMMA DocumentType ==
  ASSUME NEW doc \in Document
  PROVE  ToInt(doc) \in Id /\ ToString(doc) \in Value
BY IdAssumption, ValueAssumption DEF Document, ToInt, ToString

-----------------------------------------------------------------------------
(* What a responder writes is well typed.                                  *)

Responders == [written : Seq(Item(Texts)), bodyStarted : BOOLEAN]

LEMMA WriteItemType ==
  ASSUME NEW responder \in Responders, NEW item \in Item(Texts)
  PROVE  WriteItem(responder, item) \in Responders
BY AppendProperties DEF WriteItem, Responders

LEMMA ItemType ==
  /\ \A status \in StatusCode : StatusLine(status) \in Item(Texts)
  /\ \A name \in {"Content-Type", "Content-Length"} : HeaderLine(name) \in Item(Texts)
  /\ EmptyLine \in Item(Texts)
  /\ \A text \in Texts : BodyOf(text) \in Item(Texts)
<1>1. ASSUME NEW status \in StatusCode PROVE Number[status] \in Nat
  BY DEF StatusCode, Number
<1> QED
  BY <1>1 DEF Item, StatusLine, HeaderLine, EmptyLine, BodyOf

LEMMA WriteBodyType ==
  ASSUME NEW responder \in Responders, NEW text \in Texts
  PROVE  WriteBody(responder, text) \in Responders
<1> DEFINE separated == IF responder.bodyStarted THEN responder
                        ELSE WriteItem(responder, EmptyLine)
<1>1. separated \in Responders
  BY ItemType, WriteItemType
<1> HIDE DEF separated
<1>2. WriteItem(separated, BodyOf(text)) \in Responders
  BY <1>1, ItemType, WriteItemType
<1>3. [WriteItem(separated, BodyOf(text)) EXCEPT !.bodyStarted = TRUE] \in Responders
  BY <1>2 DEF Responders
<1> QED
  BY <1>3 DEF WriteBody, separated

LEMMA WriteDataType ==
  ASSUME NEW responder \in Responders, NEW text \in Texts, NEW status \in StatusCode
  PROVE  WriteData(responder, text, status) \in Responders
BY ItemType, WriteItemType, WriteBodyType DEF WriteData

LEMMA WriteJsonType ==
  ASSUME NEW responder \in Responders, NEW text \in Texts, NEW status \in StatusCode
  PROVE  WriteJson(responder, text, status) \in Responders
<1> DEFINE lines == <<StatusLine(status), HeaderLine("Content-Type"),
                      HeaderLine("Content-Length"), HeaderLine("Content-Type")>>
<1>1. lines \in Seq(Item(Texts))
  BY ItemType
<1> HIDE DEF lines
<1>2. [responder EXCEPT !.written = @ \o lines] \in Responders
  BY <1>1, ConcatProperties DEF Responders
<1> QED
  BY <1>2, WriteBodyType DEF WriteJson, lines

LEMMA NewResponderType == NewResponder \in Responders
BY EmptySeq DEF NewResponder, Responders

LEMMA TextType ==
  ASSUME NEW message \in Message, NEW id \in Id
  PROVE  Text(message, id) \in Texts
BY DEF Text, Texts

-----------------------------------------------------------------------------
(* An entry appended to the log is the last about its key, and leaves the  *)
(* last entries about the others what they were.                           *)
LEMMA LogAppended ==
  ASSUME TypeOK, LogReflectsTable, NEW e \in LogEntry,
         transactionLog' = Append(transactionLog, e),
         \A k \in Key : k # KeyOf(e.id) => table'[k] = table[k],
         table'[KeyOf(e.id)] # Absent <=> e.what # "deleted"
  PROVE  LogReflectsTable'
<1> PICK n \in Nat : n = Len(transactionLog)
  BY LenProperties DEF TypeOK
<1>1. /\ n \in Nat
      /\ DOMAIN transactionLog = 1..n
      /\ DOMAIN transactionLog' = 1..(n + 1)
      /\ \A i \in 1..n : transactionLog'[i] = transactionLog[i]
      /\ transactionLog'[n + 1] = e
  BY AppendProperties, LenProperties DEF TypeOK
<1> SUFFICES ASSUME NEW k \in Key
             PROVE  table'[k] # Absent <=>
                      \E i \in DOMAIN transactionLog' :
                        LastAbout(k, i)' /\ transactionLog'[i].what # "deleted"
  BY DEF LogReflectsTable
<1>2. CASE k = KeyOf(e.id)
  <2>1. LastAbout(k, n + 1)'
    BY <1>1, <1>2 DEF LastAbout
  <2>2. ASSUME NEW i \in DOMAIN transactionLog', LastAbout(k, i)'
        PROVE  i = n + 1
    BY <1>1, <1>2, <2>2 DEF LastAbout
  <2> QED
    BY <1>1, <1>2, <2>1, <2>2
<1>3. CASE k # KeyOf(e.id)
  <2>1. ~LastAbout(k, n + 1)'
    BY <1>1, <1>3 DEF LastAbout
  <2>2. ASSUME NEW i \in 1..n
        PROVE  LastAbout(k, i)' <=> LastAbout(k, i)
    BY <1>1, <1>3 DEF LastAbout
  <2>3. table'[k] = table[k]
    BY <1>3
  <2>4. (\E i \in DOMAIN transactionLog' :
           LastAbout(k, i)' /\ transactionLog'[i].what # "deleted")
        <=> (\E i \in DOMAIN transactionLog :
               LastAbout(k, i) /\ transactionLog[i].what # "deleted")
    BY <1>1, <2>1, <2>2
  <2> QED
    BY <2>3, <2>4 DEF LogReflectsTable
<1> QED
  BY <1>2, <1>3

(* A step of the service logs at most one entry, and changes the table at  *)
(* most at the key of that entry.                                          *)
Logged(what, id, value) ==
  /\ transactionLog' = Append(transactionLog, [what |-> what, id |-> id])
  /\ table' = [table EXCEPT ![KeyOf(id)] = value]

LEMMA StepIsLogged ==
  ASSUME TypeOK, Next
  PROVE  \/ UNCHANGED <<table, transactionLog>>
         \/ \E id \in Id : Logged("deleted", id, Absent)
         \/ \E id \in Id, value \in Value :
              \/ Logged("added", id, value) /\ table[KeyOf(id)] \in {Absent, value}
              \/ Logged("modified", id, value) /\ table[KeyOf(id)] # Absent
<1>1. ASSUME NEW doc \in Document, PostApi(doc)
      PROVE  \/ UNCHANGED <<table, transactionLog>>
             \/ \E id \in Id, value \in Value :
                  Logged("added", id, value) /\ table[KeyOf(id)] \in {Absent, value}
  <2> DEFINE key == ToInt(doc)
  <2>1. key \in Id /\ ToString(doc) \in Value /\ KeyOf(key) \in Key
    BY DocumentType, KeyOfType
  <2>2. CASE Refuse
    BY <2>2 DEF Refuse
  <2>3. CASE TableContains(key) /\ table' = table /\ Log("added", key)
    <3>1. table[KeyOf(key)] \in Value
      BY <2>1, <2>3 DEF TypeOK, TableContains
    <3>2. table' = [table EXCEPT ![KeyOf(key)] = table[KeyOf(key)]]
      BY <2>1, <2>3 DEF TypeOK
    <3> QED
      BY <2>1, <2>3, <3>1, <3>2 DEF Logged, Log
  <2>4. CASE /\ ~TableContains(key)
             /\ table' = [table EXCEPT ![KeyOf(key)] = ToString(doc)]
             /\ Log("added", key)
    BY <2>1, <2>4 DEF Logged, Log, TableContains
  <2> QED
    BY <1>1, <2>2, <2>3, <2>4 DEF PostApi
<1>2. ASSUME NEW doc \in Document, DeleteApi(doc)
      PROVE  \/ UNCHANGED <<table, transactionLog>>
             \/ \E id \in Id : Logged("deleted", id, Absent)
  BY <1>2, DocumentType DEF DeleteApi, Refuse, Logged, Log
<1>3. ASSUME NEW doc \in Document, PutApi(doc)
      PROVE  \/ UNCHANGED <<table, transactionLog>>
             \/ \E id \in Id, value \in Value :
                  \/ Logged("added", id, value) /\ table[KeyOf(id)] \in {Absent, value}
                  \/ Logged("modified", id, value) /\ table[KeyOf(id)] # Absent
  BY <1>3, DocumentType DEF PutApi, Refuse, Logged, Log, TableContains
<1>4. CASE GetApi \/ OtherMethod \/ TestPage
  BY <1>4 DEF GetApi, OtherMethod, TestPage
<1> QED
  BY <1>1, <1>2, <1>3, <1>4 DEF Next

-----------------------------------------------------------------------------
LEMMA WrittenType ==
  ASSUME TypeOK, Next
  PROVE  written' \in Seq(Item(Texts))
<1>1. /\ "NoContent" \in StatusCode /\ "Created" \in StatusCode
      /\ "Forbidden" \in StatusCode /\ "Ok" \in StatusCode
  BY DEF StatusCode
<1>2. \A responder \in Responders : responder.written \in Seq(Item(Texts))
  BY DEF Responders
<1>3. \A message \in Message, id \in Id, status \in StatusCode, responder \in Responders :
        WriteData(responder, Text(message, id), status) \in Responders
  BY WriteDataType, TextType
<1>4. Listing \in Listings
  BY DEF Listing, Listings, TypeOK
<1>5. CASE Refuse
  BY <1>1, <1>2, <1>3, <1>5, NewResponderType, IdAssumption DEF Refuse, Message
<1>6. ASSUME NEW doc \in Document, PostApi(doc), ~Refuse
      PROVE  written' \in Seq(Item(Texts))
  <2> DEFINE key == ToInt(doc)
             responder == IF TableContains(key)
                            THEN WriteData(NewResponder, Text("already exists", key), "Forbidden")
                            ELSE NewResponder
  <2>1. key \in Id
    BY DocumentType
  <2>2. responder \in Responders
    BY <1>1, <1>3, <2>1, NewResponderType DEF Message
  <2>3. written' = WriteData(responder, Text("location", key), "Created").written
    BY <1>6 DEF PostApi
  <2> HIDE DEF key, responder
  <2> QED
    BY <1>1, <1>2, <1>3, <2>1, <2>2, <2>3 DEF Message
<1>7. ASSUME NEW doc \in Document, DeleteApi(doc), ~Refuse
      PROVE  written' \in Seq(Item(Texts))
  <2> DEFINE key == ToInt(doc)
             responder == IF TableContains(key) THEN NewResponder
                          ELSE WriteData(NewResponder, Text("no such element", key), "Created")
  <2>1. key \in Id
    BY DocumentType
  <2>2. responder \in Responders
    BY <1>1, <1>3, <2>1, NewResponderType DEF Message
  <2>3. written' = WriteData(responder, Text("deleted", key), "Created").written
    BY <1>7 DEF DeleteApi
  <2> HIDE DEF key, responder
  <2> QED
    BY <1>1, <1>2, <1>3, <2>1, <2>2, <2>3 DEF Message
<1>8. ASSUME NEW doc \in Document, PutApi(doc), ~Refuse
      PROVE  written' \in Seq(Item(Texts))
  <2> DEFINE key == ToInt(doc)
             done == IF TableContains(key) THEN "modified" ELSE "added"
  <2>1. key \in Id /\ done \in Message
    BY DocumentType DEF Message
  <2>2. written' = WriteData(NewResponder, Text(done, key), "Created").written
    BY <1>8 DEF PutApi
  <2> HIDE DEF key, done
  <2> QED
    BY <1>1, <1>2, <1>3, <2>1, <2>2, NewResponderType
<1>9. CASE GetApi
  <2>1. [listing |-> Listing] \in Texts
    BY <1>4 DEF Texts
  <2> QED
    BY <1>1, <1>2, <1>9, <2>1, NewResponderType, WriteJsonType DEF GetApi
<1>10. CASE TestPage
  <2>1. Page \in Texts
    BY <1>4 DEF Texts, Page, TypeOK
  <2> QED
    BY <1>1, <1>2, <1>10, <2>1, NewResponderType, WriteDataType DEF TestPage
<1>11. CASE OtherMethod
  BY <1>11, EmptySeq DEF OtherMethod
<1> QED
  BY <1>5, <1>6, <1>7, <1>8, <1>9, <1>10, <1>11 DEF Next

LEMMA InitType == Init => TypeOK
BY EmptySeq DEF Init, TypeOK

LEMMA NextType == TypeOK /\ [Next]_vars => TypeOK'
<1> SUFFICES ASSUME TypeOK, [Next]_vars PROVE TypeOK'
  OBVIOUS
<1>1. ASSUME NEW what \in {"added", "modified", "deleted"}, NEW id \in Id,
             NEW value \in Value \cup {Absent}, Logged(what, id, value)
      PROVE  table' \in [Key -> Value \cup {Absent}] /\ transactionLog' \in Seq(LogEntry)
  <2>1. [what |-> what, id |-> id] \in LogEntry
    BY DEF LogEntry
  <2> QED
    BY <1>1, <2>1, KeyOfType, AppendProperties DEF Logged, TypeOK
<1>2. CASE Next
  <2>1. table' \in [Key -> Value \cup {Absent}] /\ transactionLog' \in Seq(LogEntry)
    <3>1. CASE UNCHANGED <<table, transactionLog>>
      BY <3>1 DEF TypeOK
    <3>2. CASE \E id \in Id : Logged("deleted", id, Absent)
      BY <1>1, <3>2
    <3>3. CASE \E id \in Id, value \in Value :
                 Logged("added", id, value) \/ Logged("modified", id, value)
      BY <1>1, <3>3
    <3> QED
      BY <1>2, <3>1, <3>2, <3>3, StepIsLogged
  <2> QED
    BY <1>2, <2>1, WrittenType DEF TypeOK
<1>3. CASE UNCHANGED vars
  BY <1>3 DEF vars, TypeOK
<1> QED
  BY <1>2, <1>3

(* Type correctness: every id, in range or not, is stored under an 8-bit   *)
(* key.                                                                    *)
THEOREM TypeCorrect == Spec => []TypeOK
BY InitType, NextType, PTL DEF Spec

LEMMA NextReflects == TypeOK /\ LogReflectsTable /\ [Next]_vars => LogReflectsTable'
<1> SUFFICES ASSUME TypeOK, LogReflectsTable, [Next]_vars PROVE LogReflectsTable'
  OBVIOUS
<1>1. CASE UNCHANGED <<table, transactionLog>>
  BY <1>1 DEF LogReflectsTable, LastAbout
<1>2. ASSUME NEW what \in {"added", "modified", "deleted"}, NEW id \in Id, NEW value,
             Logged(what, id, value), value # Absent <=> what # "deleted"
      PROVE  LogReflectsTable'
  <2> DEFINE e == [what |-> what, id |-> id]
  <2>1. e \in LogEntry /\ e.id = id /\ e.what = what
    BY DEF LogEntry
  <2>2. transactionLog' = Append(transactionLog, e)
    BY <1>2 DEF Logged
  <2>3. /\ table'[KeyOf(id)] = value
        /\ \A k \in Key : k # KeyOf(id) => table'[k] = table[k]
    BY <1>2, KeyOfType DEF Logged, TypeOK
  <2> HIDE DEF e
  <2> QED
    BY <1>2, <2>1, <2>2, <2>3, LogAppended
<1>3. CASE \E id \in Id : Logged("deleted", id, Absent)
  BY <1>2, <1>3
<1>4. CASE \E id \in Id, value \in Value :
             Logged("added", id, value) \/ Logged("modified", id, value)
  BY <1>2, <1>4, ValueAssumption
<1>5. CASE UNCHANGED vars
  BY <1>1, <1>5 DEF vars
<1> QED
  BY <1>1, <1>3, <1>4, <1>5, StepIsLogged

(* The log tells which keys are in use, for any sequence of requests.      *)
THEOREM LogIsFaithful == Spec => []LogReflectsTable
<1>1. Init => LogReflectsTable
  BY DEF Init, LogReflectsTable
<1> QED
  BY <1>1, TypeCorrect, NextReflects, PTL DEF Spec

(* No stored value is replaced without an entry that says so.              *)
THEOREM NothingIsReplacedSilently == Spec => ChangesAreLogged
<1> DEFINE Changes == \A k \in Key :
             table[k] # Absent /\ table'[k] \notin {Absent, table[k]} =>
               \E id \in Id :
                 /\ KeyOf(id) = k
                 /\ transactionLog' = Append(transactionLog, [what |-> "modified", id |-> id])
<1>1. TypeOK /\ [Next]_vars => [Changes]_vars
  <2> SUFFICES ASSUME TypeOK, Next, NEW k \in Key,
                      table[k] # Absent, table'[k] \notin {Absent, table[k]}
               PROVE  \E id \in Id :
                        /\ KeyOf(id) = k
                        /\ transactionLog' = Append(transactionLog,
                                                    [what |-> "modified", id |-> id])
    OBVIOUS
  <2>1. ASSUME NEW id \in Id, NEW value \in Value \cup {Absent}, NEW what,
               Logged(what, id, value)
        PROVE  KeyOf(id) = k /\ table'[k] = value
    BY <2>1, KeyOfType DEF Logged, TypeOK
  <2>2. ~UNCHANGED <<table, transactionLog>>
    OBVIOUS
  <2>3. ~\E id \in Id : Logged("deleted", id, Absent)
    BY <2>1
  <2>4. ~\E id \in Id, value \in Value :
           Logged("added", id, value) /\ table[KeyOf(id)] \in {Absent, value}
    BY <2>1
  <2> QED
    BY <2>1, <2>2, <2>3, <2>4, StepIsLogged DEF Logged
<1> QED
  BY <1>1, TypeCorrect, PTL DEF Spec, ChangesAreLogged

-----------------------------------------------------------------------------
(* What an answer looks like: the first on a responder is a status line, a *)
(* header, the empty line and the body; the next goes on after it.         *)

LEMMA ThreeAppended ==
  ASSUME NEW S, NEW s \in Seq(S), NEW a \in S, NEW b \in S, NEW c \in S
  PROVE  LET q == Append(Append(Append(s, a), b), c)
             n == Len(s) IN
         /\ q \in Seq(S) /\ n \in Nat /\ Len(q) = n + 3
         /\ \A i \in 1..n : q[i] = s[i]
         /\ q[n + 1] = a /\ q[n + 2] = b /\ q[n + 3] = c
<1> DEFINE p == Append(s, a)
           r == Append(p, b)
           q == Append(r, c)
           n == Len(s)
<1>0. n \in Nat
  BY LenProperties
<1>1. /\ p \in Seq(S) /\ Len(p) = n + 1
      /\ \A i \in 1..n : p[i] = s[i]
      /\ p[n + 1] = a
  BY AppendProperties
<1> HIDE DEF n, p
<1>2. /\ r \in Seq(S) /\ Len(r) = n + 2
      /\ \A i \in 1..(n + 1) : r[i] = p[i]
      /\ r[n + 2] = b
  <2>1. (n + 1) + 1 = n + 2
    BY <1>0
  <2> QED
    BY <1>1, <2>1, AppendProperties
<1> HIDE DEF r
<1>3. /\ q \in Seq(S) /\ Len(q) = n + 3
      /\ \A i \in 1..(n + 2) : q[i] = r[i]
      /\ q[n + 3] = c
  <2>1. (n + 2) + 1 = n + 3
    BY <1>0
  <2> QED
    BY <1>2, <2>1, AppendProperties
<1> HIDE DEF q
<1>4. /\ \A i \in 1..n : q[i] = s[i]
      /\ q[n + 1] = a /\ q[n + 2] = b
  BY <1>0, <1>1, <1>2, <1>3
<1> QED
  BY <1>0, <1>3, <1>4 DEF n, p, q, r

LEMMA FourAppended ==
  ASSUME NEW S, NEW a \in S, NEW b \in S, NEW c \in S, NEW d \in S
  PROVE  LET q == Append(Append(Append(Append(<<>>, a), b), c), d) IN
         /\ q \in Seq(S) /\ Len(q) = 4
         /\ q[1] = a /\ q[2] = b /\ q[3] = c /\ q[4] = d
<1> DEFINE p == Append(Append(Append(<<>>, a), b), c)
<1>1. /\ p \in Seq(S) /\ Len(p) = 3
      /\ p[1] = a /\ p[2] = b /\ p[3] = c
  BY EmptySeq, ThreeAppended
<1> HIDE DEF p
<1>2. p \in Seq(S) /\ d \in S
  BY <1>1
<1>3. /\ Append(p, d) \in Seq(S)
      /\ Len(Append(p, d)) = Len(p) + 1
      /\ \A i \in 1..Len(p) : Append(p, d)[i] = p[i]
      /\ Append(p, d)[Len(p) + 1] = d
  BY <1>2, AppendProperties
<1> QED
  BY <1>1, <1>3 DEF p

LEMMA ItemWritten ==
  ASSUME NEW r \in Responders, NEW item \in Item(Texts)
  PROVE  /\ WriteItem(r, item) \in Responders
         /\ WriteItem(r, item).written = Append(r.written, item)
         /\ WriteItem(r, item).bodyStarted = r.bodyStarted
<1>1. Append(r.written, item) \in Seq(Item(Texts))
  BY AppendProperties DEF Responders
<1> QED
  BY <1>1 DEF WriteItem, Responders

LEMMA FirstAnswer ==
  ASSUME NEW text \in Texts, NEW status \in StatusCode
  PROVE  LET r == WriteData(NewResponder, text, status) IN
         /\ r \in Responders /\ r.bodyStarted
         /\ Len(r.written) = 4
         /\ r.written[1] = StatusLine(status)
         /\ r.written[2] = HeaderLine("Content-Length")
         /\ r.written[3] = EmptyLine
         /\ r.written[4] = BodyOf(text)
<1> DEFINE a == StatusLine(status)
           b == HeaderLine("Content-Length")
           c == BodyOf(text)
           q1 == WriteItem(NewResponder, a)
           q2 == WriteItem(q1, b)
           q3 == WriteItem(q2, EmptyLine)
           q4 == WriteItem(q3, c)
<1>1. a \in Item(Texts) /\ b \in Item(Texts) /\ EmptyLine \in Item(Texts) /\ c \in Item(Texts)
  BY ItemType
<1>2. /\ NewResponder \in Responders
      /\ NewResponder.written = <<>> /\ ~NewResponder.bodyStarted
  BY NewResponderType DEF NewResponder
<1>3. WriteData(NewResponder, text, status) = WriteBody(q2, text)
  BY DEF WriteData
<1> HIDE DEF a, b, c
<1>4. q1 \in Responders /\ q1.written = Append(<<>>, a) /\ ~q1.bodyStarted
  BY <1>1, <1>2, ItemWritten
<1> HIDE DEF q1
<1>5. q2 \in Responders /\ q2.written = Append(Append(<<>>, a), b) /\ ~q2.bodyStarted
  BY <1>1, <1>4, ItemWritten
<1> HIDE DEF q2
<1>6. q3 \in Responders /\ q3.written = Append(Append(Append(<<>>, a), b), EmptyLine)
  BY <1>1, <1>5, ItemWritten
<1> HIDE DEF q3
<1>7. /\ q4 \in Responders
      /\ q4.written = Append(Append(Append(Append(<<>>, a), b), EmptyLine), c)
  BY <1>1, <1>6, ItemWritten
<1>8. WriteBody(q2, text) = [q4 EXCEPT !.bodyStarted = TRUE]
  BY <1>5 DEF WriteBody, q3, c
<1> HIDE DEF q4
<1>9. /\ Len(q4.written) = 4
      /\ q4.written[1] = a /\ q4.written[2] = b
      /\ q4.written[3] = EmptyLine /\ q4.written[4] = c
  BY <1>1, <1>7, FourAppended
<1>10. [q4 EXCEPT !.bodyStarted = TRUE] \in Responders
  BY <1>7 DEF Responders
<1>11. /\ [q4 EXCEPT !.bodyStarted = TRUE].written = q4.written
       /\ [q4 EXCEPT !.bodyStarted = TRUE].bodyStarted
  BY <1>7 DEF Responders
<1> QED
  BY <1>3, <1>8, <1>9, <1>10, <1>11 DEF a, b, c

LEMMA NextAnswer ==
  ASSUME NEW r \in Responders, r.bodyStarted, NEW text \in Texts, NEW status \in StatusCode
  PROVE  LET q == WriteData(r, text, status)
             n == Len(r.written) IN
         /\ n \in Nat /\ Len(q.written) = n + 3
         /\ \A i \in 1..n : q.written[i] = r.written[i]
         /\ q.written[n + 1] = StatusLine(status)
<1> DEFINE a == StatusLine(status)
           b == HeaderLine("Content-Length")
           c == BodyOf(text)
           lines == Append(Append(Append(r.written, a), b), c)
<1>1. a \in Item(Texts) /\ b \in Item(Texts) /\ c \in Item(Texts)
  BY ItemType
<1>2. r.written \in Seq(Item(Texts))
  BY DEF Responders
<1>3. WriteData(r, text, status).written = lines
  BY DEF WriteData, WriteBody, WriteItem, Responders
<1> HIDE DEF a, b, c
<1>4. LET n == Len(r.written) IN
      /\ n \in Nat /\ Len(lines) = n + 3
      /\ \A i \in 1..n : lines[i] = r.written[i]
      /\ lines[n + 1] = a
  BY <1>1, <1>2, ThreeAppended
<1> QED
  BY <1>3, <1>4 DEF a

LEMMA JsonAnswer ==
  ASSUME NEW text \in Texts, NEW status \in StatusCode,
         NEW i \in DOMAIN WriteJson(NewResponder, text, status).written,
         WriteJson(NewResponder, text, status).written[i].kind = "status"
  PROVE  WriteJson(NewResponder, text, status).written[i].name = status
<1> DEFINE lines == <<StatusLine(status), HeaderLine("Content-Type"),
                      HeaderLine("Content-Length"), HeaderLine("Content-Type")>>
           q == [NewResponder EXCEPT !.written = @ \o lines]
           r == WriteItem(q, EmptyLine)
           p == WriteItem(r, BodyOf(text))
<1>1. /\ lines \in Seq(Item(Texts)) /\ Len(lines) = 4
      /\ lines[1].name = status
      /\ \A j \in 2..4 : lines[j].kind = "header"
  BY ItemType DEF StatusLine, HeaderLine
<1>2. EmptyLine \in Item(Texts) /\ BodyOf(text) \in Item(Texts)
  BY ItemType
<1> HIDE DEF lines
<1>3. q \in Responders /\ q.written = lines /\ ~q.bodyStarted
  BY <1>1, ConcatEmptySeq DEF NewResponder, Responders
<1>4. WriteJson(NewResponder, text, status) = WriteBody(q, text)
  BY DEF WriteJson, lines
<1> HIDE DEF q
<1>5. r \in Responders /\ r.written = Append(lines, EmptyLine)
  BY <1>2, <1>3, ItemWritten
<1>6. WriteBody(q, text) = [p EXCEPT !.bodyStarted = TRUE]
  BY <1>3 DEF WriteBody
<1> HIDE DEF r
<1>7. p \in Responders /\ p.written = Append(Append(lines, EmptyLine), BodyOf(text))
  BY <1>2, <1>5, ItemWritten
<1> HIDE DEF p
<1>8. /\ Append(lines, EmptyLine) \in Seq(Item(Texts))
      /\ Len(Append(lines, EmptyLine)) = 5
      /\ \A j \in 1..4 : Append(lines, EmptyLine)[j] = lines[j]
      /\ Append(lines, EmptyLine)[5] = EmptyLine
  <2>1. lines \in Seq(Item(Texts)) /\ EmptyLine \in Item(Texts)
    BY <1>1, <1>2
  <2>2. /\ Append(lines, EmptyLine) \in Seq(Item(Texts))
        /\ Len(Append(lines, EmptyLine)) = Len(lines) + 1
        /\ \A j \in 1..Len(lines) : Append(lines, EmptyLine)[j] = lines[j]
        /\ Append(lines, EmptyLine)[Len(lines) + 1] = EmptyLine
    BY <2>1, AppendProperties
  <2> QED
    BY <1>1, <2>2
<1> DEFINE w == Append(Append(lines, EmptyLine), BodyOf(text))
<1>9. /\ w \in Seq(Item(Texts)) /\ DOMAIN w = 1..6
      /\ \A j \in 1..5 : w[j] = Append(lines, EmptyLine)[j]
      /\ w[6] = BodyOf(text)
  <2>1. 5 + 1 = 6
    OBVIOUS
  <2> QED
    BY <1>2, <1>8, <2>1, AppendProperties, LenProperties
<1>10. WriteJson(NewResponder, text, status).written = w
  BY <1>4, <1>6, <1>7 DEF Responders
<1> HIDE DEF w
<1>11. EmptyLine.kind = "empty" /\ BodyOf(text).kind = "body"
  BY DEF EmptyLine, BodyOf
<1>12. i \in 1..6 /\ w[i].kind = "status"
  BY <1>9, <1>10
<1>13. i = 1
  BY <1>1, <1>8, <1>9, <1>11, <1>12
<1> QED
  BY <1>1, <1>8, <1>9, <1>10, <1>13

(* w begins with a complete answer.                                        *)
Begins(w, text, status) ==
  /\ w \in Seq(Item(Texts)) /\ Len(w) >= 4
  /\ w[1] = StatusLine(status) /\ w[2] = HeaderLine("Content-Length")
  /\ w[3] = EmptyLine /\ w[4] = BodyOf(text)

LEMMA OneAnswer ==
  ASSUME NEW text \in Texts, NEW status \in StatusCode,
         written' = WriteData(NewResponder, text, status).written
  PROVE  /\ Begins(written', text, status)
         /\ \A i \in StatusLines' : written'[i].name = status
         /\ 1 \in StatusLines' /\ written'[1].name = status
<1>1. /\ written' \in Seq(Item(Texts)) /\ Len(written') = 4
      /\ Begins(written', text, status)
  BY FirstAnswer DEF Begins, Responders
<1>2. DOMAIN written' = 1..4
  BY <1>1, LenProperties
<1>3. /\ StatusLine(status).kind = "status" /\ StatusLine(status).name = status
      /\ HeaderLine("Content-Length").kind = "header"
      /\ EmptyLine.kind = "empty" /\ BodyOf(text).kind = "body"
  BY DEF StatusLine, HeaderLine, EmptyLine, BodyOf
<1> QED
  BY <1>1, <1>2, <1>3 DEF Begins, StatusLines

LEMMA TwoAnswers ==
  ASSUME NEW text \in Texts, NEW status \in StatusCode,
         NEW again \in Texts,
         written' = WriteData(WriteData(NewResponder, text, status), again, "Created").written
  PROVE  /\ Begins(written', text, status)
         /\ 5 \in StatusLines' /\ written'[5].name = "Created"
<1> DEFINE r == WriteData(NewResponder, text, status)
<1>1. /\ r \in Responders /\ r.bodyStarted
      /\ r.written \in Seq(Item(Texts)) /\ Len(r.written) = 4
      /\ Begins(r.written, text, status)
  BY FirstAnswer DEF Begins, Responders
<1>2. "Created" \in StatusCode
  BY DEF StatusCode
<1> HIDE DEF r
<1> DEFINE q == WriteData(r, again, "Created")
<1>3. /\ written' \in Seq(Item(Texts)) /\ Len(written') = 4 + 3
      /\ \A i \in 1..4 : written'[i] = r.written[i]
      /\ written'[4 + 1] = StatusLine("Created")
  <2>1. q \in Responders
    BY <1>1, <1>2, WriteDataType
  <2>2. written' = q.written
    BY DEF r
  <2>3. r \in Responders /\ r.bodyStarted /\ "Created" \in StatusCode
    BY <1>1, <1>2
  <2>4. /\ Len(q.written) = Len(r.written) + 3
        /\ \A i \in 1..Len(r.written) : q.written[i] = r.written[i]
        /\ q.written[Len(r.written) + 1] = StatusLine("Created")
    BY <2>3, NextAnswer
  <2> QED
    BY <1>1, <2>1, <2>2, <2>4 DEF Responders
<1>4. DOMAIN written' = 1..7
  BY <1>3, LenProperties
<1>5. Begins(written', text, status)
  BY <1>1, <1>3 DEF Begins
<1> QED
  BY <1>3, <1>4, <1>5 DEF StatusLines, StatusLine

LEMMA FirstBodyOfAnswer ==
  ASSUME NEW text \in Texts, NEW status \in StatusCode, Begins(written', text, status)
  PROVE  FirstIsMessage' /\ FirstBody'.text = text
<1>1. /\ StatusLine(status).kind = "status" /\ HeaderLine("Content-Length").kind = "header"
      /\ EmptyLine.kind = "empty"
      /\ BodyOf(text).kind = "body" /\ BodyOf(text).text = text
  BY DEF StatusLine, HeaderLine, EmptyLine, BodyOf
<1>2. /\ Len(written') >= 4 /\ DOMAIN written' = 1..Len(written') /\ Len(written') \in Nat
      /\ written'[1].kind = "status" /\ written'[2].kind = "header"
      /\ written'[3].kind = "empty" /\ written'[4].kind = "body"
  BY <1>1, LenProperties DEF Begins
<1>3. FirstIsMessage'
  BY <1>2 DEF FirstIsMessage
<1> DEFINE IsFirst(i) == written'[i].kind = "body" /\ \A j \in 1..(i - 1) : written'[j].kind # "body"
<1>4. ASSUME NEW i \in DOMAIN written' PROVE IsFirst(i) <=> i = 4
  <2>1. IsFirst(i) => i >= 4
    BY <1>2
  <2>2. IsFirst(i) => i <= 4
    BY <1>2
  <2>3. IsFirst(4)
    BY <1>2
  <2> QED
    BY <1>2, <2>1, <2>2, <2>3
<1>5. 4 \in DOMAIN written'
  BY <1>2
<1>6. (CHOOSE i \in DOMAIN written' : IsFirst(i)) = 4
  BY <1>4, <1>5
<1>7. FirstBody' = written'[4]
  BY <1>6 DEF FirstBody
<1> QED
  BY <1>1, <1>3, <1>7 DEF Begins

-----------------------------------------------------------------------------
(* What a step answers: without an entry in the log, never Created; with   *)
(* one Created, and first a message that tells whether the keys in use     *)
(* have changed.                                                           *)

Silent ==
  /\ UNCHANGED transactionLog
  /\ \A i \in StatusLines' : written'[i].name # "Created"

Told(what, id) ==
  /\ transactionLog' = Append(transactionLog, [what |-> what, id |-> id])
  /\ \E i \in StatusLines' : written'[i].name = "Created"
  /\ what # "modified" =>
       \E message \in Message, status \in StatusCode :
         /\ Begins(written', Text(message, id), status)
         /\ message \in {"already exists", "no such element"} <=> InUse' = InUse

LEMMA RefuseIsSilent == Refuse => Silent
<1> SUFFICES ASSUME Refuse PROVE Silent
  OBVIOUS
<1>1. Text("refused", 0) \in Texts /\ "NoContent" \in StatusCode
  BY TextType, IdAssumption DEF Message, StatusCode
<1>2. written' = WriteData(NewResponder, Text("refused", 0), "NoContent").written
  BY DEF Refuse
<1>3. \A i \in StatusLines' : written'[i].name = "NoContent"
  BY <1>1, <1>2, OneAnswer
<1> QED
  BY <1>3 DEF Refuse, Silent

LEMMA StepAnswers ==
  ASSUME TypeOK, Next
  PROVE  Silent \/ \E what \in {"added", "modified", "deleted"}, id \in Id : Told(what, id)
<1>1. /\ "Created" \in StatusCode /\ "Forbidden" \in StatusCode /\ "Ok" \in StatusCode
      /\ Absent \notin Value
  BY ValueAssumption DEF StatusCode
<1>2. \A message \in Message, id \in Id : Text(message, id) \in Texts
  BY TextType
<1>3. ASSUME NEW doc \in Document, PostApi(doc), ~Refuse
      PROVE  Told("added", ToInt(doc))
  <2> DEFINE id == ToInt(doc)
  <2>1. id \in Id /\ ToString(doc) \in Value /\ KeyOf(id) \in Key
    BY DocumentType, KeyOfType
  <2>2. Text("already exists", id) \in Texts /\ Text("location", id) \in Texts
    BY <1>2, <2>1 DEF Message
  <2>3. CASE TableContains(id)
    <3>1. written' = WriteData(WriteData(NewResponder, Text("already exists", id), "Forbidden"),
                               Text("location", id), "Created").written
      BY <1>3, <2>3 DEF PostApi
    <3>2. /\ Begins(written', Text("already exists", id), "Forbidden")
          /\ \E i \in StatusLines' : written'[i].name = "Created"
      BY <1>1, <2>2, <3>1, TwoAnswers
    <3>3. InUse' = InUse
      BY <1>3, <2>3 DEF PostApi, InUse
    <3>4. "already exists" \in Message
      BY DEF Message
    <3> QED
      BY <1>1, <1>3, <3>2, <3>3, <3>4 DEF PostApi, Told, Log
  <2>4. CASE ~TableContains(id)
    <3>1. written' = WriteData(NewResponder, Text("location", id), "Created").written
      BY <1>3, <2>4 DEF PostApi
    <3>2. /\ Begins(written', Text("location", id), "Created")
          /\ \E i \in StatusLines' : written'[i].name = "Created"
      BY <1>1, <2>2, <3>1, OneAnswer
    <3>3. KeyOf(id) \in InUse' /\ KeyOf(id) \notin InUse
      BY <1>1, <1>3, <2>1, <2>4 DEF PostApi, InUse, TableContains, TypeOK
    <3>4. "location" \in Message
      BY DEF Message
    <3> QED
      BY <1>1, <1>3, <3>2, <3>3, <3>4 DEF PostApi, Told, Log
  <2> QED
    BY <2>3, <2>4
<1>4. ASSUME NEW doc \in Document, DeleteApi(doc), ~Refuse
      PROVE  Told("deleted", ToInt(doc))
  <2> DEFINE id == ToInt(doc)
  <2>1. id \in Id /\ KeyOf(id) \in Key
    BY DocumentType, KeyOfType
  <2>2. Text("no such element", id) \in Texts /\ Text("deleted", id) \in Texts
    BY <1>2, <2>1 DEF Message
  <2>3. CASE TableContains(id)
    <3>1. written' = WriteData(NewResponder, Text("deleted", id), "Created").written
      BY <1>4, <2>3 DEF DeleteApi
    <3>2. /\ Begins(written', Text("deleted", id), "Created")
          /\ \E i \in StatusLines' : written'[i].name = "Created"
      BY <1>1, <2>2, <3>1, OneAnswer
    <3>3. KeyOf(id) \notin InUse' /\ KeyOf(id) \in InUse
      BY <1>4, <2>1, <2>3 DEF DeleteApi, InUse, TableContains, TypeOK
    <3>4. "deleted" \in Message
      BY DEF Message
    <3> QED
      BY <1>1, <1>4, <3>2, <3>3, <3>4 DEF DeleteApi, Told, Log
  <2>4. CASE ~TableContains(id)
    <3>1. written' = WriteData(WriteData(NewResponder, Text("no such element", id), "Created"),
                               Text("deleted", id), "Created").written
      BY <1>4, <2>4 DEF DeleteApi
    <3>2. /\ Begins(written', Text("no such element", id), "Created")
          /\ \E i \in StatusLines' : written'[i].name = "Created"
      BY <1>1, <2>2, <3>1, TwoAnswers
    <3>3. InUse' = InUse
      BY <1>4, <2>4 DEF DeleteApi, InUse, TableContains, TypeOK
    <3>4. "no such element" \in Message
      BY DEF Message
    <3> QED
      BY <1>1, <1>4, <3>2, <3>3, <3>4 DEF DeleteApi, Told, Log
  <2> QED
    BY <2>3, <2>4
<1>5. ASSUME NEW doc \in Document, PutApi(doc), ~Refuse
      PROVE  Told("added", ToInt(doc)) \/ Told("modified", ToInt(doc))
  <2> DEFINE id == ToInt(doc)
             done == IF TableContains(id) THEN "modified" ELSE "added"
  <2>1. /\ id \in Id /\ ToString(doc) \in Value /\ KeyOf(id) \in Key
        /\ done \in Message
    BY DocumentType, KeyOfType DEF Message
  <2>2. /\ written' = WriteData(NewResponder, Text(done, id), "Created").written
        /\ transactionLog' = Append(transactionLog, [what |-> done, id |-> id])
        /\ table' = [table EXCEPT ![KeyOf(id)] = ToString(doc)]
    BY <1>5 DEF PutApi, Log
  <2>3. Text(done, id) \in Texts
    BY <1>2, <2>1
  <2>4. /\ Begins(written', Text(done, id), "Created")
        /\ \E i \in StatusLines' : written'[i].name = "Created"
    BY <1>1, <2>2, <2>3, OneAnswer
  <2>5. ~TableContains(id) => InUse' # InUse
    BY <1>1, <2>1, <2>2 DEF InUse, TableContains, TypeOK
  <2> QED
    BY <1>1, <2>1, <2>2, <2>4, <2>5 DEF Told
<1>6. CASE GetApi
  <2>1. [listing |-> Listing] \in Texts
    BY DEF Texts, Listings, Listing, TypeOK
  <2>2. \A i \in StatusLines' : written'[i].name = "Ok"
    BY <1>1, <1>6, <2>1, JsonAnswer DEF GetApi, StatusLines
  <2> QED
    BY <1>6, <2>2 DEF GetApi, Silent
<1>7. CASE TestPage
  <2>1. Page \in Texts
    BY DEF Texts, Page, Listings, Listing, TypeOK
  <2>2. written' = WriteData(NewResponder, Page, "Ok").written
    BY <1>7 DEF TestPage
  <2>3. \A i \in StatusLines' : written'[i].name = "Ok"
    BY <1>1, <2>1, <2>2, OneAnswer
  <2> QED
    BY <1>7, <2>3 DEF TestPage, Silent
<1>8. CASE OtherMethod
  <2>1. StatusLines' = {}
    BY <1>8 DEF OtherMethod, StatusLines
  <2> QED
    BY <1>8, <2>1 DEF OtherMethod, Silent
<1> QED
  BY <1>3, <1>4, <1>5, <1>6, <1>7, <1>8, RefuseIsSilent, DocumentType DEF Next

LEMMA LogGrows ==
  ASSUME TypeOK, NEW e \in LogEntry, transactionLog' = Append(transactionLog, e)
  PROVE  Len(transactionLog) \in Nat /\ Len(transactionLog') = Len(transactionLog) + 1
BY AppendProperties, LenProperties DEF TypeOK

(* A client that reads Created has an entry in the log, and only such a    *)
(* client, for any sequence of requests.                                   *)
THEOREM AnswersAndLogAgree == Spec => AnswersAgreeWithLog
<1> DEFINE Agree == (\E i \in StatusLines' : written'[i].name = "Created")
                      <=> Len(transactionLog') > Len(transactionLog)
<1>1. ASSUME TypeOK, Next PROVE Agree
  <2>1. CASE Silent
    <3>1. Len(transactionLog') = Len(transactionLog) /\ Len(transactionLog) \in Nat
      BY <1>1, <2>1, LenProperties DEF Silent, TypeOK
    <3> QED
      BY <2>1, <3>1 DEF Silent
  <2>2. ASSUME NEW what \in {"added", "modified", "deleted"}, NEW id \in Id, Told(what, id)
        PROVE  Agree
    <3>1. [what |-> what, id |-> id] \in LogEntry
      BY DEF LogEntry
    <3>2. /\ transactionLog' = Append(transactionLog, [what |-> what, id |-> id])
          /\ \E i \in StatusLines' : written'[i].name = "Created"
      BY <2>2 DEF Told
    <3>3. Len(transactionLog) \in Nat /\ Len(transactionLog') = Len(transactionLog) + 1
      BY <1>1, <3>1, <3>2, LogGrows
    <3> QED
      BY <3>2, <3>3
  <2> QED
    BY <1>1, <2>1, <2>2, StepAnswers
<1>2. TypeOK /\ [Next]_vars => [Agree]_<<written, transactionLog>>
  BY <1>1 DEF vars
<1> QED
  BY <1>2, TypeCorrect, PTL DEF Spec, AnswersAgreeWithLog

(* Of the answers to one request the first is true, for any requests.      *)
THEOREM FirstAnswerIsTrue == Spec => FirstAnswerTells
<1> DEFINE Tells ==
      \A what \in {"added", "deleted"}, id \in Id :
        transactionLog' = Append(transactionLog, [what |-> what, id |-> id]) =>
          /\ FirstIsMessage'
          /\ (FirstBody'.text.message \in {"already exists", "no such element"}
                <=> InUse' = InUse)
<1>1. ASSUME TypeOK, Next,
             NEW what \in {"added", "deleted"}, NEW id \in Id,
             transactionLog' = Append(transactionLog, [what |-> what, id |-> id])
      PROVE  /\ FirstIsMessage'
             /\ (FirstBody'.text.message \in {"already exists", "no such element"}
                   <=> InUse' = InUse)
  <2>1. /\ [what |-> what, id |-> id] \in LogEntry
        /\ transactionLog \in Seq(LogEntry)
    BY <1>1 DEF LogEntry, TypeOK
  <2>2. ~Silent
    BY <1>1, <2>1, LogGrows DEF Silent
  <2>3. PICK w \in {"added", "modified", "deleted"}, d \in Id : Told(w, d)
    BY <1>1, <2>2, StepAnswers
  <2> DEFINE e == [what |-> what, id |-> id]
             f == [what |-> w, id |-> d]
  <2>4. f \in LogEntry
    BY DEF LogEntry
  <2>4a. Append(transactionLog, e) = Append(transactionLog, f)
    BY <1>1, <2>3 DEF Told
  <2>5. e = f
    <3>1. e \in LogEntry /\ transactionLog \in Seq(LogEntry)
      BY <2>1
    <3> HIDE DEF e, f
    <3> QED
      BY <2>4, <2>4a, <3>1, AppendInjective
  <2>6. w = what /\ d = id
    BY <2>5
  <2>7. PICK message \in Message, status \in StatusCode :
          /\ Begins(written', Text(message, id), status)
          /\ message \in {"already exists", "no such element"} <=> InUse' = InUse
    BY <1>1, <2>3, <2>6 DEF Told
  <2>8. FirstIsMessage' /\ FirstBody'.text = Text(message, id)
    BY <2>7, TextType, FirstBodyOfAnswer
  <2>9. FirstBody'.text.message = message
    BY <2>8 DEF Text
  <2> QED
    BY <2>7, <2>8, <2>9
<1>2. ASSUME TypeOK, UNCHANGED vars PROVE Tells
  <2> SUFFICES ASSUME NEW what \in {"added", "deleted"}, NEW id \in Id,
                      transactionLog' = Append(transactionLog, [what |-> what, id |-> id])
               PROVE  FALSE
    OBVIOUS
  <2>1. [what |-> what, id |-> id] \in LogEntry
    BY DEF LogEntry
  <2> QED
    BY <1>2, <2>1, LogGrows DEF vars
<1>3. TypeOK /\ [Next]_vars => [Tells]_vars
  BY <1>1
<1> QED
  BY <1>3, TypeCorrect, PTL DEF Spec, FirstAnswerTells

=============================================================================
