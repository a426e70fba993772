------------------------- MODULE HttpResponseProofs -------------------------
(***************************************************************************)
(* Proofs about HttpResponse, for any names, values and lists of headers   *)
(* and any number of requests.                                             *)
(***************************************************************************)
EXTENDS HttpResponse, SequenceTheorems, NumberLemmas, TLAPS

(* What a loop over a list computes: the headers after each of its rounds. *)
Computes(f, what, h, list, n) ==
  /\ f = [i \in 0..n |-> f[i]]
  /\ \A i \in 0..n :
       f[i] = IF i = 0 THEN h ELSE Put(what, f[i - 1], list[i][1], list[i][2])

(* The recursive function that models the loop exists.                     *)
LEMMA Loop ==
  ASSUME NEW what, NEW h, NEW list, NEW n \in Nat
  PROVE  \E f : Computes(f, what, h, list, n)
<1> DEFINE S == {m \in Nat : \E done : done = [i \in 0..m |->
                   IF i = 0 THEN h ELSE Put(what, done[i - 1], list[i][1], list[i][2])]}
<1>1. 0 \in S
  <2> DEFINE g == [i \in 0..0 |-> h]
  <2>1. g = [i \in 0..0 |-> IF i = 0 THEN h ELSE Put(what, g[i - 1], list[i][1], list[i][2])]
    OBVIOUS
  <2> QED
    BY <2>1
<1>2. ASSUME NEW m \in Nat, m \in S PROVE m + 1 \in S
  <2>1. PICK f : f = [i \in 0..m |->
                   IF i = 0 THEN h ELSE Put(what, f[i - 1], list[i][1], list[i][2])]
    BY <1>2
  <2> DEFINE last == Put(what, f[m], list[m + 1][1], list[m + 1][2])
             g == [i \in 0..(m + 1) |-> IF i = m + 1 THEN last ELSE f[i]]
  <2>2. ASSUME NEW i \in 0..(m + 1)
        PROVE  g[i] = IF i = 0 THEN h ELSE Put(what, g[i - 1], list[i][1], list[i][2])
    <3>1. CASE i = m + 1
      <4>1. g[i] = last /\ g[i - 1] = f[m] /\ i # 0
        BY <3>1
      <4> QED
        BY <3>1, <4>1
    <3>2. CASE i = 0
      <4>1. g[0] = f[0] /\ f[0] = h
        BY <2>1
      <4> QED
        BY <3>2, <4>1
    <3>3. CASE i \in 1..m
      <4>1. g[i] = f[i] /\ g[i - 1] = f[i - 1] /\ i # 0
        BY <3>3
      <4>2. f[i] = Put(what, f[i - 1], list[i][1], list[i][2])
        BY <2>1, <3>3
      <4> QED
        BY <4>1, <4>2
    <3> QED
      BY <3>1, <3>2, <3>3
  <2>3. DOMAIN g = 0..(m + 1) /\ g = [i \in 0..(m + 1) |-> g[i]]
    OBVIOUS
  <2> HIDE DEF g
  <2>4. g = [i \in 0..(m + 1) |->
               IF i = 0 THEN h ELSE Put(what, g[i - 1], list[i][1], list[i][2])]
    BY <2>2, <2>3
  <2> QED
    BY <2>4
<1>3. Nat \subseteq S
  <2> HIDE DEF S
  <2> QED
    BY <1>1, <1>2, Induction
<1>4. PICK f : f = [i \in 0..n |->
                   IF i = 0 THEN h ELSE Put(what, f[i - 1], list[i][1], list[i][2])]
  BY <1>3
<1>5. f = [i \in 0..n |-> f[i]]
  BY <1>4
<1>6. \A i \in 0..n : f[i] =
         IF i = 0 THEN h ELSE Put(what, f[i - 1], list[i][1], list[i][2])
  BY <1>4
<1> QED
  BY <1>5, <1>6 DEF Computes

(* What EachHeader computes.                                               *)
LEMMA EachHeaderLoop ==
  ASSUME NEW what, NEW list \in Seq(Name \X Value), EachHeader(what, list)
  PROVE  \E done :
           /\ Computes(done, what, headers, list, Len(list))
           /\ Change([i \in DOMAIN list |-> Asks(what, list[i][1], list[i][2])],
                     done[Len(list)])
<1> DEFINE n == Len(list)
           F(g) == g = [i \in 0..n |->
                      IF i = 0 THEN headers ELSE Put(what, g[i - 1], list[i][1], list[i][2])]
           done == CHOOSE g : F(g)
<1>1. n \in Nat
  BY LenProperties
<1>2. \E g : F(g)
  <2> HIDE DEF n
  <2>1. PICK g : Computes(g, what, headers, list, n)
    BY <1>1, Loop
  <2>2. g = [i \in 0..n |-> IF i = 0 THEN headers
                             ELSE Put(what, g[i - 1], list[i][1], list[i][2])]
    BY <2>1 DEF Computes
  <2> QED
    BY <2>2
<1>3. F(done)
  <2> HIDE DEF F
  <2> QED
    BY <1>2
<1>4. Change([i \in DOMAIN list |-> Asks(what, list[i][1], list[i][2])], done[n])
  BY DEF EachHeader
<1> HIDE DEF done, n
<1>5. Computes(done, what, headers, list, n)
  <2>1. done = [i \in 0..n |-> done[i]]
    BY <1>3
  <2>2. \A i \in 0..n : done[i] =
           IF i = 0 THEN headers ELSE Put(what, done[i - 1], list[i][1], list[i][2])
    BY <1>3
  <2> QED
    BY <2>1, <2>2 DEF Computes
<1> QED
  BY <1>4, <1>5 DEF n

-----------------------------------------------------------------------------
(* What the first n requests of w say of the headers.                      *)

AboutIn(w, j, m) == w[j].name = m \/ w[j].what = "clear all"

Clears(w, j) == w[j].what \in {"clear", "clear all"}

(* Nothing has asked for m since it was cleared last.                      *)
Absent(w, n, m) ==
  \A j \in 1..n : AboutIn(w, j, m) => \E k \in j..n : AboutIn(w, k, m) /\ Clears(w, k)

(* Decides, of the first n of w.                                           *)
DecidesIn(w, n, i, m) ==
  /\ w[i].name = m /\ w[i].what \in {"set", "add"}
  /\ \A j \in 1..n : j > i /\ AboutIn(w, j, m) => w[j].what = "add"
  /\ w[i].what = "add" => Absent(w, i - 1, m)

(* The headers are what the first n requests of w make them.               *)
Agrees(h, w, n) ==
  /\ DOMAIN h \subseteq Name
  /\ \A m \in Name \ DOMAIN h : Absent(w, n, m)
  /\ \A m \in DOMAIN h : \E i \in 1..n : DecidesIn(w, n, i, m) /\ h[m] = w[i].value

(* A header is not both there and not there, and one request decides.      *)
LEMMA AbsentIsUndecided ==
  ASSUME NEW w, NEW n \in Nat, NEW i \in 1..n, NEW m,
         DecidesIn(w, n, i, m), Absent(w, n, m)
  PROVE  FALSE
<1>1. PICK k \in i..n : AboutIn(w, k, m) /\ Clears(w, k)
  BY DEF DecidesIn, Absent, AboutIn
<1>2. CASE k = i
  BY <1>1, <1>2 DEF DecidesIn, Clears
<1>3. CASE k > i
  <2>1. k \in 1..n
    OBVIOUS
  <2>2. w[k].what = "add"
    BY <1>1, <1>3, <2>1 DEF DecidesIn
  <2> QED
    BY <1>1, <2>2 DEF Clears
<1> QED
  BY <1>1, <1>2, <1>3

LEMMA NoLaterDecision ==
  ASSUME NEW w, NEW n \in Nat, NEW i \in 1..n, NEW k \in 1..n, NEW m,
         DecidesIn(w, n, i, m), DecidesIn(w, n, k, m), i < k
  PROVE  FALSE
<1>1. AboutIn(w, k, m) /\ w[k].what = "add"
  BY DEF DecidesIn, AboutIn
<1>2. Absent(w, k - 1, m)
  BY <1>1 DEF DecidesIn
<1>3. k - 1 \in Nat /\ i \in 1..(k - 1)
  OBVIOUS
<1>4. DecidesIn(w, k - 1, i, m)
  BY DEF DecidesIn
<1> QED
  BY <1>2, <1>3, <1>4, AbsentIsUndecided

LEMMA OneDecides ==
  ASSUME NEW w, NEW n \in Nat, NEW i \in 1..n, NEW k \in 1..n, NEW m,
         DecidesIn(w, n, i, m), DecidesIn(w, n, k, m)
  PROVE  i = k
<1>1. ~ i < k /\ ~ k < i
  BY NoLaterDecision
<1> QED
  BY <1>1

(* What the first n requests say does not depend on the others.            *)
LEMMA SamePrefix ==
  ASSUME NEW h, NEW w, NEW v, NEW n \in Nat, \A i \in 1..n : w[i] = v[i], Agrees(h, w, n)
  PROVE  Agrees(h, v, n)
<1>1. ASSUME NEW m, NEW k \in 0..n, Absent(w, k, m) PROVE Absent(v, k, m)
  <2>1. \A i \in 1..k : w[i] = v[i]
    OBVIOUS
  <2> SUFFICES ASSUME NEW j \in 1..k, AboutIn(v, j, m)
               PROVE  \E l \in j..k : AboutIn(v, l, m) /\ Clears(v, l)
    BY DEF Absent
  <2>2. AboutIn(w, j, m)
    BY <2>1 DEF AboutIn
  <2>3. PICK l \in j..k : AboutIn(w, l, m) /\ Clears(w, l)
    BY <1>1, <2>2 DEF Absent
  <2>4. w[l] = v[l]
    BY <2>1
  <2> QED
    BY <2>3, <2>4 DEF AboutIn, Clears
<1>2. ASSUME NEW m, NEW i \in 1..n, DecidesIn(w, n, i, m) PROVE DecidesIn(v, n, i, m)
  <2>1. i - 1 \in 0..n
    OBVIOUS
  <2>2. w[i].what = "add" => Absent(v, i - 1, m)
    BY <1>1, <1>2, <2>1 DEF DecidesIn
  <2>3. \A j \in 1..n : j > i /\ AboutIn(v, j, m) => v[j].what = "add"
    BY <1>2 DEF DecidesIn, AboutIn
  <2>4. w[i] = v[i] /\ w[i].name = m /\ w[i].what \in {"set", "add"}
    BY <1>2 DEF DecidesIn
  <2> QED
    BY <2>2, <2>3, <2>4 DEF DecidesIn
<1>3. \A m \in Name \ DOMAIN h : Absent(v, n, m)
  <2>1. n \in 0..n
    OBVIOUS
  <2> QED
    BY <1>1, <2>1 DEF Agrees
<1>4. ASSUME NEW m \in DOMAIN h
      PROVE  \E i \in 1..n : DecidesIn(v, n, i, m) /\ h[m] = v[i].value
  <2>1. PICK i \in 1..n : DecidesIn(w, n, i, m) /\ h[m] = w[i].value
    BY <1>4 DEF Agrees
  <2>2. h[m] = v[i].value
    BY <2>1
  <2> QED
    BY <1>2, <2>1, <2>2
<1> QED
  BY <1>3, <1>4 DEF Agrees

(* What one more request changes.                                          *)
LEMMA NotAbout ==
  ASSUME NEW w, NEW n \in Nat, NEW m, ~AboutIn(w, n + 1, m)
  PROVE  /\ Absent(w, n, m) => Absent(w, n + 1, m)
         /\ \A i \in 1..n : DecidesIn(w, n, i, m) => DecidesIn(w, n + 1, i, m)
<1>1. \A j \in 1..(n + 1) : j \in 1..n \/ j = n + 1
  OBVIOUS
<1>2. ASSUME Absent(w, n, m), NEW j \in 1..(n + 1), AboutIn(w, j, m)
      PROVE  \E k \in j..(n + 1) : AboutIn(w, k, m) /\ Clears(w, k)
  <2>1. j \in 1..n
    BY <1>1, <1>2
  <2>2. PICK k \in j..n : AboutIn(w, k, m) /\ Clears(w, k)
    BY <1>2, <2>1 DEF Absent
  <2> QED
    BY <2>2
<1>3. ASSUME NEW i \in 1..n, DecidesIn(w, n, i, m) PROVE DecidesIn(w, n + 1, i, m)
  BY <1>1, <1>3 DEF DecidesIn
<1> QED
  BY <1>2, <1>3 DEF Absent

LEMMA Cleared ==
  ASSUME NEW w, NEW n \in Nat, NEW m, AboutIn(w, n + 1, m), Clears(w, n + 1)
  PROVE  Absent(w, n + 1, m)
<1> SUFFICES ASSUME NEW j \in 1..(n + 1), AboutIn(w, j, m)
             PROVE  \E k \in j..(n + 1) : AboutIn(w, k, m) /\ Clears(w, k)
  BY DEF Absent
<1>1. n + 1 \in j..(n + 1)
  OBVIOUS
<1> QED
  BY <1>1

LEMMA Decided ==
  ASSUME NEW w, NEW n \in Nat, NEW m, w[n + 1].name = m,
         \/ w[n + 1].what = "set"
         \/ w[n + 1].what = "add" /\ Absent(w, n, m)
  PROVE  DecidesIn(w, n + 1, n + 1, m)
<1>1. (n + 1) - 1 = n /\ \A j \in 1..(n + 1) : ~ j > n + 1
  OBVIOUS
<1> QED
  BY <1>1 DEF DecidesIn

LEMMA StillDecided ==
  ASSUME NEW w, NEW n \in Nat, NEW i \in 1..n, NEW m, w[n + 1].what = "add",
         DecidesIn(w, n, i, m)
  PROVE  DecidesIn(w, n + 1, i, m)
<1>1. \A j \in 1..(n + 1) : j \in 1..n \/ j = n + 1
  OBVIOUS
<1> QED
  BY <1>1 DEF DecidesIn

-----------------------------------------------------------------------------
(* Each operation does to the headers what its request says.               *)

LEMMA EmplaceAgrees ==
  ASSUME NEW h, NEW w, NEW n \in Nat, NEW name \in Name, NEW value,
         Agrees(h, w, n), w[n + 1] = Asks("add", name, value)
  PROVE  Agrees(Emplace(h, name, value), w, n + 1)
<1> DEFINE g == Emplace(h, name, value)
<1>1. DOMAIN g = DOMAIN h \cup {name} /\ n + 1 \in 1..(n + 1)
  BY DEF Emplace
<1>2. \A m \in DOMAIN h : g[m] = h[m]
  BY DEF Emplace
<1>3. name \notin DOMAIN h => g[name] = value
  BY DEF Emplace
<1> HIDE DEF g
<1>4. w[n + 1].what = "add" /\ w[n + 1].name = name /\ w[n + 1].value = value
  BY DEF Asks
<1>5. DOMAIN g \subseteq Name
  BY <1>1 DEF Agrees
<1>6. ASSUME NEW m \in Name \ DOMAIN g PROVE Absent(w, n + 1, m)
  <2>1. Absent(w, n, m) /\ ~AboutIn(w, n + 1, m)
    BY <1>1, <1>4, <1>6 DEF Agrees, AboutIn
  <2> QED
    BY <2>1, NotAbout
<1>7. ASSUME NEW m \in DOMAIN g
      PROVE  \E i \in 1..(n + 1) : DecidesIn(w, n + 1, i, m) /\ g[m] = w[i].value
  <2>1. CASE m \in DOMAIN h
    <3>1. PICK i \in 1..n : DecidesIn(w, n, i, m) /\ h[m] = w[i].value
      BY <2>1 DEF Agrees
    <3>2. DecidesIn(w, n + 1, i, m)
      BY <1>4, <3>1, StillDecided
    <3>3. i \in 1..(n + 1)
      OBVIOUS
    <3> QED
      BY <1>2, <2>1, <3>1, <3>2, <3>3
  <2>2. CASE m \notin DOMAIN h
    <3>1. m = name
      BY <1>1, <2>2
    <3>2. Absent(w, n, m)
      BY <2>2, <3>1 DEF Agrees
    <3>3. DecidesIn(w, n + 1, n + 1, m)
      BY <1>4, <3>1, <3>2, Decided
    <3> QED
      BY <1>1, <1>3, <1>4, <2>2, <3>1, <3>3
  <2> QED
    BY <2>1, <2>2
<1> QED
  BY <1>5, <1>6, <1>7 DEF Agrees, g

LEMMA SetHeaderAgrees ==
  ASSUME NEW h, NEW w, NEW n \in Nat, NEW name \in Name, NEW value,
         Agrees(h, w, n), w[n + 1] = Asks("set", name, value)
  PROVE  Agrees(SetHeader(h, name, value), w, n + 1)
<1> DEFINE g == SetHeader(h, name, value)
<1>1. DOMAIN g = DOMAIN h \cup {name} /\ n + 1 \in 1..(n + 1)
  BY DEF SetHeader, Emplace, Without
<1>2. \A m \in DOMAIN h : m # name => g[m] = h[m]
  BY DEF SetHeader, Emplace, Without
<1>3. g[name] = value
  BY DEF SetHeader, Emplace, Without
<1> HIDE DEF g
<1>4. w[n + 1].what = "set" /\ w[n + 1].name = name /\ w[n + 1].value = value
  BY DEF Asks
<1>5. \A m : m # name => ~AboutIn(w, n + 1, m)
  BY <1>4 DEF AboutIn
<1>6. DOMAIN g \subseteq Name
  BY <1>1 DEF Agrees
<1>7. ASSUME NEW m \in Name \ DOMAIN g PROVE Absent(w, n + 1, m)
  <2>1. Absent(w, n, m) /\ ~AboutIn(w, n + 1, m)
    BY <1>1, <1>5, <1>7 DEF Agrees
  <2> QED
    BY <2>1, NotAbout
<1>8. ASSUME NEW m \in DOMAIN g
      PROVE  \E i \in 1..(n + 1) : DecidesIn(w, n + 1, i, m) /\ g[m] = w[i].value
  <2>1. CASE m # name
    <3>1. m \in DOMAIN h
      BY <1>1, <2>1
    <3>2. PICK i \in 1..n : DecidesIn(w, n, i, m) /\ h[m] = w[i].value
      BY <3>1 DEF Agrees
    <3>3. DecidesIn(w, n + 1, i, m)
      BY <1>5, <2>1, <3>2, NotAbout
    <3>4. i \in 1..(n + 1)
      OBVIOUS
    <3> QED
      BY <1>2, <2>1, <3>1, <3>2, <3>3, <3>4
  <2>2. CASE m = name
    <3>1. DecidesIn(w, n + 1, n + 1, m)
      BY <1>4, <2>2, Decided
    <3> QED
      BY <1>1, <1>3, <1>4, <2>2, <3>1
  <2> QED
    BY <2>1, <2>2
<1> QED
  BY <1>6, <1>7, <1>8 DEF Agrees, g

LEMMA ClearHeaderAgrees ==
  ASSUME NEW h, NEW w, NEW n \in Nat, NEW name \in Name, NEW value,
         Agrees(h, w, n), w[n + 1] = Asks("clear", name, value)
  PROVE  Agrees(Without(h, name), w, n + 1)
<1> DEFINE g == Without(h, name)
<1>1. DOMAIN g = DOMAIN h \ {name}
  BY DEF Without
<1>2. \A m \in DOMAIN g : g[m] = h[m]
  BY DEF Without
<1> HIDE DEF g
<1>3. w[n + 1].what = "clear" /\ w[n + 1].name = name
  BY DEF Asks
<1>4. \A m : m # name => ~AboutIn(w, n + 1, m)
  BY <1>3 DEF AboutIn
<1>5. DOMAIN g \subseteq Name
  BY <1>1 DEF Agrees
<1>6. ASSUME NEW m \in Name \ DOMAIN g PROVE Absent(w, n + 1, m)
  <2>1. CASE m # name
    <3>1. Absent(w, n, m) /\ ~AboutIn(w, n + 1, m)
      BY <1>1, <1>4, <1>6, <2>1 DEF Agrees
    <3> QED
      BY <3>1, NotAbout
  <2>2. CASE m = name
    <3>1. AboutIn(w, n + 1, m) /\ Clears(w, n + 1)
      BY <1>3, <2>2 DEF AboutIn, Clears
    <3> QED
      BY <3>1, Cleared
  <2> QED
    BY <2>1, <2>2
<1>7. ASSUME NEW m \in DOMAIN g
      PROVE  \E i \in 1..(n + 1) : DecidesIn(w, n + 1, i, m) /\ g[m] = w[i].value
  <2>1. m \in DOMAIN h /\ m # name
    BY <1>1
  <2>2. PICK i \in 1..n : DecidesIn(w, n, i, m) /\ h[m] = w[i].value
    BY <2>1 DEF Agrees
  <2>3. DecidesIn(w, n + 1, i, m)
    BY <1>4, <2>1, <2>2, NotAbout
  <2>4. i \in 1..(n + 1)
    OBVIOUS
  <2> QED
    BY <1>2, <2>2, <2>3, <2>4
<1> QED
  BY <1>5, <1>6, <1>7 DEF Agrees, g

LEMMA ClearHeadersAgrees ==
  ASSUME NEW h, NEW w, NEW n \in Nat, w[n + 1].what = "clear all"
  PROVE  Agrees(NoHeaders, w, n + 1)
<1>1. DOMAIN NoHeaders = {}
  BY DEF NoHeaders
<1>2. ASSUME NEW m PROVE Absent(w, n + 1, m)
  <2>1. AboutIn(w, n + 1, m) /\ Clears(w, n + 1)
    BY DEF AboutIn, Clears
  <2> QED
    BY <2>1, Cleared
<1> QED
  BY <1>1, <1>2 DEF Agrees

LEMMA EachHeaderAgrees ==
  ASSUME NEW what \in {"add", "set"}, NEW list \in Seq(Name \X Value),
         NEW done, NEW h, NEW w, NEW n \in Nat, Agrees(h, w, n),
         Computes(done, what, h, list, Len(list)),
         \A i \in 1..Len(list) : w[n + i] = Asks(what, list[i][1], list[i][2])
  PROVE  Agrees(done[Len(list)], w, n + Len(list))
<1> DEFINE len == Len(list)
           S == {k \in Nat : k <= len => Agrees(done[k], w, n + k)}
<1>1. len \in Nat /\ \A i \in 1..len : list[i][1] \in Name
  <2>1. \A i \in 1..len : list[i] \in Name \X Value
    BY ElementOfSeq
  <2> QED
    BY <2>1, LenProperties
<1>2. \A i \in 0..len :
        done[i] = IF i = 0 THEN h ELSE Put(what, done[i - 1], list[i][1], list[i][2])
  BY DEF Computes
<1>3. \A i \in 1..len : w[n + i] = Asks(what, list[i][1], list[i][2])
  OBVIOUS
<1> HIDE DEF len
<1>4. 0 \in S
  <2>1. 0 \in 0..len /\ n + 0 = n
    BY <1>1
  <2>2. done[0] = h
    BY <1>2, <2>1
  <2> QED
    BY <2>1, <2>2
<1>5. ASSUME NEW k \in Nat, k \in S PROVE k + 1 \in S
  <2> SUFFICES ASSUME k + 1 <= len PROVE Agrees(done[k + 1], w, n + (k + 1))
    OBVIOUS
  <2> DEFINE name == list[k + 1][1]
             value == list[k + 1][2]
  <2>1. Agrees(done[k], w, n + k)
    BY <1>1, <1>5
  <2>2. k + 1 \in 1..len /\ n + k \in Nat /\ n + (k + 1) = (n + k) + 1 /\ (k + 1) - 1 = k
    BY <1>1
  <2>3. name \in Name /\ w[(n + k) + 1] = Asks(what, name, value)
    BY <1>1, <1>3, <2>2
  <2>4. done[k + 1] = Put(what, done[k], name, value)
    BY <1>2, <2>2
  <2> HIDE DEF name, value
  <2>5. CASE what = "add"
    <3>1. done[k + 1] = Emplace(done[k], name, value)
      BY <2>4, <2>5 DEF Put
    <3>2. Agrees(Emplace(done[k], name, value), w, (n + k) + 1)
      BY <2>1, <2>2, <2>3, <2>5, EmplaceAgrees
    <3> QED
      BY <2>2, <3>1, <3>2
  <2>6. CASE what = "set"
    <3>1. done[k + 1] = SetHeader(done[k], name, value)
      BY <2>4, <2>6 DEF Put
    <3>2. Agrees(SetHeader(done[k], name, value), w, (n + k) + 1)
      BY <2>1, <2>2, <2>3, <2>6, SetHeaderAgrees
    <3> QED
      BY <2>2, <3>1, <3>2
  <2> QED
    BY <2>5, <2>6
<1>6. Nat \subseteq S
  <2> HIDE DEF S
  <2> QED
    BY <1>4, <1>5, Induction
<1>7. Agrees(done[len], w, n + len)
  BY <1>1, <1>6
<1> QED
  BY <1>7 DEF len

-----------------------------------------------------------------------------
(* The inductive invariant: the headers are what the requests so far make  *)
(* them, and an answer has been made of these headers.                     *)

AllLines ==
  {Line(n, headers[n]) : n \in DOMAIN headers} \cup {Line("Content-Length", size)}

IInv ==
  /\ TypeOK
  /\ Agrees(headers, history, Len(history))
  /\ answer \in {NoAnswer, AllLines}

Requests ==
  [what : {"add", "set", "clear", "clear all"}, name : Name, value : Value]

LEMMA Appended ==
  ASSUME NEW v \in Seq(Requests), NEW asked \in Seq(Requests), NEW w, w = v \o asked
  PROVE  /\ w \in Seq(Requests) /\ Len(w) = Len(v) + Len(asked)
         /\ \A i \in 1..Len(v) : v[i] = w[i]
         /\ \A i \in 1..Len(asked) : w[Len(v) + i] = asked[i]
<1>1. w \in Seq(Requests) /\ Len(w) = Len(v) + Len(asked)
  BY ConcatProperties
<1>2. Len(v) \in Nat /\ Len(asked) \in Nat
  BY LenProperties
<1>3. \A i \in 1..(Len(v) + Len(asked)) :
         w[i] = IF i <= Len(v) THEN v[i] ELSE asked[i - Len(v)]
  BY ConcatProperties
<1>4. \A i \in 1..Len(v) : v[i] = w[i]
  BY <1>2, <1>3
<1>5. ASSUME NEW i \in 1..Len(asked) PROVE w[Len(v) + i] = asked[i]
  <2> DEFINE k == Len(v) + i
  <2>1. k \in 1..(Len(v) + Len(asked)) /\ ~ k <= Len(v) /\ k - Len(v) = i
    BY <1>2
  <2> HIDE DEF k
  <2>2. w[k] = asked[i]
    BY <1>3, <2>1
  <2> QED
    BY <2>2 DEF k
<1> QED
  BY <1>1, <1>4, <1>5

(* The type of the headers follows from the type of the requests.          *)
LEMMA HeadersTyped ==
  ASSUME NEW h, NEW w \in Seq(Requests), Agrees(h, w, Len(w))
  PROVE  DOMAIN h \subseteq Name /\ \A n \in DOMAIN h : h[n] \in Value
<1>1. ASSUME NEW n \in DOMAIN h PROVE h[n] \in Value
  <2>1. PICK i \in 1..Len(w) : h[n] = w[i].value
    BY DEF Agrees
  <2>2. w[i] \in Requests
    BY ElementOfSeq
  <2> QED
    BY <2>1, <2>2 DEF Requests
<1> QED
  BY <1>1 DEF Agrees

(* A change whose result agrees with the requests keeps the invariant.     *)
LEMMA ChangeStep ==
  ASSUME IInv, NEW asked \in Seq(Requests), NEW result, Change(asked, result),
         Agrees(headers, history', Len(history)) =>
           Agrees(result, history', Len(history) + Len(asked))
  PROVE  IInv'
<1>1. history \in Seq(Requests) /\ history' = history \o asked /\ size \in Lengths
  BY DEF IInv, TypeOK, Requests, Change
<1>2. /\ history' \in Seq(Requests) /\ Len(history') = Len(history) + Len(asked)
      /\ \A i \in 1..Len(history) : history[i] = history'[i]
  BY <1>1, Appended
<1>3. Agrees(headers, history', Len(history))
  <2>1. Len(history) \in Nat /\ Agrees(headers, history, Len(history))
    BY <1>1, LenProperties DEF IInv
  <2> QED
    BY <1>2, <2>1, SamePrefix
<1>4. Agrees(headers', history', Len(history'))
  BY <1>2, <1>3 DEF Change
<1>5. DOMAIN headers' \subseteq Name /\ \A n \in DOMAIN headers' : headers'[n] \in Value
  BY <1>2, <1>4, HeadersTyped
<1>6. answer' = NoAnswer /\ size' \in Lengths
  BY <1>1 DEF Change
<1>7. answer' \subseteq Name \X (Value \cup Lengths)
  BY <1>6 DEF NoAnswer
<1>8. TypeOK'
  BY <1>2, <1>5, <1>6, <1>7 DEF TypeOK, Requests
<1> QED
  BY <1>4, <1>6, <1>8 DEF IInv, NoAnswer

LEMMA InitInv == Init => IInv
<1> SUFFICES ASSUME Init PROVE IInv
  OBVIOUS
<1>1. size \in Lengths /\ answer = NoAnswer
  BY DEF Init
<1>2. answer \subseteq Name \X (Value \cup Lengths)
  BY <1>1 DEF NoAnswer
<1>3. history \in Seq(Requests) /\ Agrees(headers, history, Len(history))
  <2>1. Agrees(NoHeaders, history, 0)
    BY DEF Agrees, NoHeaders, Absent
  <2>2. CASE headers = NoHeaders /\ history = <<>>
    BY <2>1, <2>2
  <2>3. CASE /\ headers = SetHeader(NoHeaders, "Content-Type", MimeType)
             /\ history = <<Asks("set", "Content-Type", MimeType)>>
    <3>1. Asks("set", "Content-Type", MimeType) \in Requests
      BY HeaderAssumption DEF Asks, Requests
    <3>2. /\ history \in Seq(Requests) /\ Len(history) = 0 + 1
          /\ history[0 + 1] = Asks("set", "Content-Type", MimeType)
      BY <2>3, <3>1
    <3>3. Agrees(headers, history, 0 + 1)
      <4>1. 0 \in Nat /\ "Content-Type" \in Name
        BY HeaderAssumption
      <4> QED
        BY <2>1, <2>3, <3>2, <4>1, SetHeaderAgrees
    <3> QED
      BY <3>2, <3>3
  <2> QED
    BY <2>2, <2>3 DEF Init
<1>4. TypeOK
  BY <1>1, <1>2, <1>3, HeadersTyped DEF TypeOK, Requests
<1> QED
  BY <1>1, <1>3, <1>4 DEF IInv

LEMMA EachHeaderInv ==
  ASSUME IInv, NEW what \in {"add", "set"}, NEW list \in Lists, EachHeader(what, list)
  PROVE  IInv'
<1>1. list \in Seq(Name \X Value)
  BY HeaderAssumption
<1> DEFINE asked == [i \in DOMAIN list |-> Asks(what, list[i][1], list[i][2])]
<1>2. PICK done : /\ Computes(done, what, headers, list, Len(list))
                  /\ Change(asked, done[Len(list)])
  BY <1>1, EachHeaderLoop
<1>3. Len(list) \in Nat /\ DOMAIN list = 1..Len(list)
  BY <1>1, LenProperties
<1>4. \A i \in 1..Len(list) : Asks(what, list[i][1], list[i][2]) \in Requests
  <2>1. \A i \in 1..Len(list) : list[i] \in Name \X Value
    BY <1>1, ElementOfSeq
  <2> QED
    BY <2>1 DEF Asks, Requests
<1>5. /\ asked \in Seq(Requests) /\ Len(asked) = Len(list)
      /\ \A i \in 1..Len(list) : asked[i] = Asks(what, list[i][1], list[i][2])
  <2>1. asked = [i \in 1..Len(list) |-> Asks(what, list[i][1], list[i][2])]
    BY <1>3
  <2>2. \A i \in 1..Len(list) : asked[i] = Asks(what, list[i][1], list[i][2])
    BY <2>1
  <2>3. asked \in [1..Len(list) -> Requests]
    BY <1>4, <2>1
  <2> HIDE DEF asked
  <2>4. asked \in Seq(Requests) /\ Len(asked) = Len(list)
    BY <1>3, <2>3, SeqDef
  <2> QED
    BY <2>2, <2>4
<1> HIDE DEF asked
<1>6. history \in Seq(Requests) /\ history' = history \o asked /\ Len(history) \in Nat
  BY <1>2, LenProperties DEF IInv, TypeOK, Requests, Change
<1>7. \A i \in 1..Len(list) :
         history'[Len(history) + i] = Asks(what, list[i][1], list[i][2])
  BY <1>5, <1>6, Appended
<1>8. Agrees(headers, history', Len(history)) =>
        Agrees(done[Len(list)], history', Len(history) + Len(list))
  <2> DEFINE w == history'
             h == headers
             n == Len(history)
  <2> HIDE DEF w, h, n
  <2>1. /\ n \in Nat /\ Computes(done, what, h, list, Len(list))
        /\ \A i \in 1..Len(list) : w[n + i] = Asks(what, list[i][1], list[i][2])
    BY <1>2, <1>6, <1>7 DEF w, h, n
  <2>2. Agrees(h, w, n) => Agrees(done[Len(list)], w, n + Len(list))
    BY <1>1, <2>1, EachHeaderAgrees
  <2> QED
    BY <2>2 DEF w, h, n
<1> QED
  BY <1>2, <1>5, <1>8, ChangeStep

(* A request of its own.                                                   *)
LEMMA OneAppended ==
  ASSUME NEW v \in Seq(Requests), NEW r \in Requests, NEW w, w = v \o <<r>>
  PROVE  /\ <<r>> \in Seq(Requests) /\ Len(<<r>>) = 1
         /\ Len(v) \in Nat /\ w[Len(v) + 1] = r
<1>1. <<r>> \in Seq(Requests) /\ Len(<<r>>) = 1 /\ <<r>>[1] = r /\ 1 \in 1..1
  OBVIOUS
<1>2. w[Len(v) + 1] = <<r>>[1]
  BY <1>1, Appended
<1> QED
  BY <1>1, <1>2, LenProperties

LEMMA ClearHeaderInv ==
  ASSUME IInv, NEW name \in Name, ClearHeader(name)
  PROVE  IInv'
<1> DEFINE r == Asks("clear", name, MimeType)
<1>1. r \in Requests
  BY HeaderAssumption DEF Asks, Requests
<1>2. Change(<<r>>, Without(headers, name))
  BY DEF ClearHeader
<1> HIDE DEF r
<1>3. history \in Seq(Requests) /\ history' = history \o <<r>>
  BY <1>2 DEF IInv, TypeOK, Requests, Change
<1>4. /\ <<r>> \in Seq(Requests) /\ Len(<<r>>) = 1
      /\ Len(history) \in Nat /\ history'[Len(history) + 1] = r
  BY <1>1, <1>3, OneAppended
<1>5. Agrees(headers, history', Len(history)) =>
        Agrees(Without(headers, name), history', Len(history) + 1)
  BY <1>4, ClearHeaderAgrees DEF r
<1> QED
  BY <1>2, <1>4, <1>5, ChangeStep

LEMMA ClearHeadersInv == ASSUME IInv, ClearHeaders PROVE IInv'
<1> DEFINE r == Asks("clear all", "Content-Type", MimeType)
<1>1. r \in Requests /\ r.what = "clear all"
  BY HeaderAssumption DEF Asks, Requests
<1>2. Change(<<r>>, NoHeaders)
  BY DEF ClearHeaders
<1> HIDE DEF r
<1>3. history \in Seq(Requests) /\ history' = history \o <<r>>
  BY <1>2 DEF IInv, TypeOK, Requests, Change
<1>4. /\ <<r>> \in Seq(Requests) /\ Len(<<r>>) = 1
      /\ Len(history) \in Nat /\ history'[Len(history) + 1] = r
  BY <1>1, <1>3, OneAppended
<1>5. Agrees(headers, history', Len(history)) =>
        Agrees(NoHeaders, history', Len(history) + 1)
  BY <1>1, <1>4, ClearHeadersAgrees
<1> QED
  BY <1>2, <1>4, <1>5, ChangeStep

LEMMA WriteInv == ASSUME IInv, Write PROVE IInv'
<1>1. /\ headers' = headers /\ size' = size /\ history' = history
      /\ answer' \in {answer, AllLines}
  BY DEF Write, AllLines
<1>2. answer' \in {NoAnswer, AllLines} /\ AllLines' = AllLines
  BY <1>1 DEF IInv, AllLines, NoAnswer
<1>3. AllLines \subseteq Name \X (Value \cup Lengths)
  <2>1. /\ DOMAIN headers \subseteq Name /\ \A n \in DOMAIN headers : headers[n] \in Value
        /\ size \in Lengths /\ "Content-Length" \in Name
    BY HeaderAssumption DEF IInv, TypeOK
  <2>2. \A n \in DOMAIN headers : Line(n, headers[n]) \in Name \X (Value \cup Lengths)
    BY <2>1 DEF Line
  <2>3. Line("Content-Length", size) \in Name \X (Value \cup Lengths)
    BY <2>1 DEF Line
  <2> QED
    BY <2>2, <2>3 DEF AllLines
<1>4. answer' \subseteq Name \X (Value \cup Lengths)
  BY <1>1, <1>3 DEF IInv, TypeOK
<1>5. TypeOK'
  BY <1>1, <1>4 DEF IInv, TypeOK
<1>6. Agrees(headers, history, Len(history))'
  BY <1>1 DEF IInv
<1> QED
  BY <1>2, <1>5, <1>6 DEF IInv, NoAnswer

LEMMA NextInv == IInv /\ [Next]_vars => IInv'
<1> SUFFICES ASSUME IInv, [Next]_vars PROVE IInv'
  OBVIOUS
<1>1. ASSUME NEW list \in Lists, AddHeaders(list) PROVE IInv'
  BY <1>1, EachHeaderInv DEF AddHeaders
<1>2. ASSUME NEW list \in Lists, SetHeaders(list) PROVE IInv'
  BY <1>2, EachHeaderInv DEF SetHeaders
<1>3. ASSUME NEW name \in Name, ClearHeader(name) PROVE IInv'
  BY <1>3, ClearHeaderInv
<1>4. CASE ClearHeaders
  BY <1>4, ClearHeadersInv
<1>5. CASE Write
  BY <1>5, WriteInv
<1>6. CASE UNCHANGED vars
  BY <1>6 DEF vars, IInv, TypeOK, AllLines, NoAnswer
<1> QED
  BY <1>1, <1>2, <1>3, <1>4, <1>5, <1>6 DEF Next

(* The inductive invariant holds, whatever is asked for and how often.     *)
THEOREM Invariance == Spec => []IInv
<1> QED
  BY InitInv, NextInv, PTL DEF Spec

(* The headers are named and valued as the application may, and so are the *)
(* lines of an answer.                                                     *)
THEOREM TypeCorrect == Spec => []TypeOK
<1>1. IInv => TypeOK
  BY DEF IInv
<1> QED
  BY <1>1, Invariance, PTL

(* An answer has what was asked for and nothing else: for each name the    *)
(* value set last, or the first added since the name was cleared.          *)
LEMMA InvImpliesAsked == IInv => AnswerAsAsked
<1> SUFFICES ASSUME IInv, answer # NoAnswer
             PROVE  answer = {Line("Content-Length", size)} \cup
                      {Line(history[i].name, history[i].value) :
                         i \in {i \in DOMAIN history : Decides(i, history[i].name)}}
  BY DEF AnswerAsAsked
<1> DEFINE n == Len(history)
<1>1. history \in Seq(Requests)
  BY DEF IInv, TypeOK, Requests
<1>2. n \in Nat /\ DOMAIN history = 1..n
  BY <1>1, LenProperties
<1> HIDE DEF n
<1>3. ASSUME NEW i \in 1..n, NEW m
      PROVE  Decides(i, m) <=> DecidesIn(history, n, i, m)
  BY <1>2 DEF Decides, DecidesIn, About, AboutIn, Absent, Clears
<1>4. /\ DOMAIN headers \subseteq Name
      /\ \A m \in Name \ DOMAIN headers : Absent(history, n, m)
      /\ \A m \in DOMAIN headers :
           \E i \in 1..n : DecidesIn(history, n, i, m) /\ headers[m] = history[i].value
  BY DEF IInv, Agrees, n
<1>5. ASSUME NEW m \in DOMAIN headers
      PROVE  \E i \in 1..n : /\ Decides(i, history[i].name)
                             /\ Line(m, headers[m]) = Line(history[i].name, history[i].value)
  <2>1. PICK i \in 1..n : DecidesIn(history, n, i, m) /\ headers[m] = history[i].value
    BY <1>4
  <2>2. history[i].name = m
    BY <2>1 DEF DecidesIn
  <2> QED
    BY <1>3, <2>1, <2>2
<1>6. ASSUME NEW i \in 1..n, Decides(i, history[i].name)
      PROVE  \E m \in DOMAIN headers :
               Line(history[i].name, history[i].value) = Line(m, headers[m])
  <2> DEFINE m == history[i].name
  <2>1. m \in Name
    <3>1. history[i] \in Requests
      BY <1>1, ElementOfSeq DEF n
    <3> QED
      BY <3>1 DEF Requests
  <2>2. DecidesIn(history, n, i, m)
    BY <1>3, <1>6
  <2> HIDE DEF m
  <2>3. m \in DOMAIN headers
    BY <1>2, <1>4, <2>1, <2>2, AbsentIsUndecided
  <2>4. PICK k \in 1..n : DecidesIn(history, n, k, m) /\ headers[m] = history[k].value
    BY <1>4, <2>3
  <2>5. k = i
    BY <1>2, <2>2, <2>4, OneDecides
  <2> QED
    BY <2>3, <2>4, <2>5 DEF m
<1>7. {Line(m, headers[m]) : m \in DOMAIN headers} =
      {Line(history[i].name, history[i].value) :
         i \in {i \in DOMAIN history : Decides(i, history[i].name)}}
  BY <1>2, <1>5, <1>6
<1>8. answer = {Line(m, headers[m]) : m \in DOMAIN headers} \cup {Line("Content-Length", size)}
  BY DEF IInv, AllLines
<1> QED
  BY <1>7, <1>8

THEOREM AnswersWhatWasAsked == Spec => []AnswerAsAsked
<1> QED
  BY InvImpliesAsked, Invariance, PTL
=============================================================================
