---------------------------- MODULE MCHttpServer ----------------------------
(* Model checking of HttpServer: three connections are enough for a handler *)
(* nested in a handler nested in a handler, with deletions posted at each   *)
(* depth.                                                                   *)
EXTENDS HttpServer
=============================================================================
