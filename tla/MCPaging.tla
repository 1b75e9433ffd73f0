------------------------------ MODULE MCPaging ------------------------------
(* PagingApi for model checking: every constant has its value in the .cfg. *)
EXTENDS PagingApi
=============================================================================
