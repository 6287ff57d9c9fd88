---------------------------- MODULE MCIbkrRouter ----------------------------
(* Two broker orders under one client order id, sent before and after a     *)
(* disconnect, so that the first Trade's closure fires into the second's    *)
(* entry of the book.                                                       *)
EXTENDS IbkrRouter
=============================================================================
