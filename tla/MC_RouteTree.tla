---------------------------- MODULE MC_RouteTree ----------------------------
(* Parameter values: an ordinary name and two that equal static segments  *)
(* of the tree, so that a database named "schemas" is tried.              *)
EXTENDS RouteTree

MCValues == {"mydb", "schemas", "tables"}
=============================================================================
