------------------------------- MODULE MCQueue -------------------------------
(***************************************************************************)
(* HttpsqsQueue on seven rows, the second and third and the last three of  *)
(* them in one event each.                                                 *)
(***************************************************************************)
EXTENDS HttpsqsQueue

Events == <<1, 3, 3, 4, 7, 7, 7>>
=============================================================================
