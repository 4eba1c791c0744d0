---------------------------- MODULE MCHttpServer ----------------------------
(* Instances of HttpServer for TLC: the peers are model values.              *)
EXTENDS HttpServer, TLC
=============================================================================
