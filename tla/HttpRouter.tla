----------------------------- MODULE HttpRouter -----------------------------
(***************************************************************************)
(* The routing table: HttpRouter and HttpRoute                             *)
(* (src/src/httpserver/http_router.cpp).  A route is a record of a pattern *)
(* and the set of methods it serves; the table is filled before the server *)
(* listens and never changes afterwards, so there is no state here.        *)
(*                                                                         *)
(* A pattern is compiled as a regular expression and searched for anywhere *)
(* in the path.  Patterns are literal here, as the two the program         *)
(* registers are; QRegularExpression itself is Qt's.                       *)
(***************************************************************************)
EXTENDS Integers, Sequences, SequencesExt

AllMethods == {"GET", "PUT", "DELETE", "POST"}

(* HttpRequest::Method: each method has two names, and All is one, too.    *)
MethodFlags ==
  [Get |-> {"GET"}, Put |-> {"PUT"}, Delete |-> {"DELETE"}, Post |-> {"POST"},
   GET |-> {"GET"}, PUT |-> {"PUT"}, DELETE |-> {"DELETE"}, POST |-> {"POST"},
   All |-> AllMethods]

(* QMetaEnum::keysToValue: the flags named, and none at all when a name is *)
(* unknown.                                                                *)
StrToMethods(names) ==
  IF names \subseteq DOMAIN MethodFlags THEN UNION {MethodFlags[n] : n \in names} ELSE {}

HasValidMethods(methods) == methods \cap AllMethods # {}

(* A route without methods is dropped with a warning; the others are kept  *)
(* in the order of their registration.                                     *)
AddRoute(routes, route) ==
  LET methods == StrToMethods(route.methods) IN
  IF HasValidMethods(methods)
    THEN Append(routes, [route EXCEPT !.methods = methods])
    ELSE routes

RouteTable(registrations) ==
  LET table[i \in 0..Len(registrations)] ==
        IF i = 0 THEN <<>> ELSE AddRoute(table[i - 1], registrations[i])
  IN  table[Len(registrations)]

(* The methods a request counts as: Method::All has every bit set.         *)
MethodBits(method) == IF method = "All" THEN AllMethods ELSE {method}

(* QUrl::path(): what comes before the query and the fragment, without the *)
(* authority of a url that begins with two slashes.  (Of an absolute url   *)
(* the scheme and the authority stay.)                                     *)
Path(url) ==
  LET end   == SelectInSeq(url, LAMBDA byte : byte \in {"?", "#"})
      whole == IF end = 0 THEN url ELSE SubSeq(url, 1, end - 1)
      root  == SelectInSeq(SubSeq(whole, 3, Len(whole)), LAMBDA byte : byte = "/") IN
  IF ~IsPrefix(<<"/", "/">>, whole) THEN whole
  ELSE IF root = 0 THEN <<>> ELSE SubSeq(whole, root + 2, Len(whole))

Matches(route, method, url) ==
  /\ route.methods \cap MethodBits(method) # {}
  /\ route.pattern \in SubSeqs(Path(url))

(* The first route that matches is the only one whose handler runs; 0 when *)
(* none does.                                                              *)
RouteOf(routes, method, url) ==
  SelectInSeq(routes, LAMBDA route : Matches(route, method, url))

(* What handleRequest tells the server: handled, whether or not a route    *)
(* matched.                                                                *)
Handled(route) == TRUE

=============================================================================
