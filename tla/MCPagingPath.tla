---------------------------- MODULE MCPagingPath ----------------------------
(* Instances of PagingPath: two threads, up to three paging files.          *)
EXTENDS PagingPath
=============================================================================
