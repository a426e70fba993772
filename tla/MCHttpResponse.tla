--------------------------- MODULE MCHttpResponse ---------------------------
(* Model checking of HttpResponse: three names, two of them alike but for   *)
(* their case, and every order of up to four requests to add, set or clear. *)
EXTENDS HttpResponse

CONSTANTS html, text

MCName == {"Content-Type", "content-type", "Content-Length"}
MCValue == {html, text}
Single == {<<<<n, v>>>> : n \in MCName, v \in MCValue}
MCLists == Single \cup {
  <<<<"Content-Type", html>>, <<"Content-Type", text>>>>,
  <<<<"Content-Type", text>>, <<"content-type", html>>>> }
=============================================================================
