---------------------------- MODULE MCLspFilePass ----------------------------
(***************************************************************************)
(* LspFilePass with four files and two workers. The first file has three   *)
(* hover jobs, two of them on one call-site key (two identical calls on a  *)
(* line); the second is not in fileContents; the third has one job and the *)
(* last none.                                                              *)
(***************************************************************************)
EXTENDS LspFilePass

MCJobKeys == << <<"a", "a", "b">>, <<"c">>, <<"d">>, <<>> >>
MCUnread == {2}
MCReply(f, j) ==
    IF j = 0 THEN {"t1", "timeout", "error", "throw"}
    ELSE IF f = 1 THEN {"t1", "t2", "memberNotFound", "timeout", "throw"}
    ELSE {"t1", "unparseableHover", "ownerClassNotFound", "error"}
=============================================================================
