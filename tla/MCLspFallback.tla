---------------------------- MODULE MCLspFallback ----------------------------
(***************************************************************************)
(* Two identical files, given identical responses: every didOpen is        *)
(* written, documentSymbol answers, the server answers the hovers of jobs  *)
(* 1, 2 and 4 with an error and that of job 3 with a type. The thresholds  *)
(* are DEFAULT_FALLBACK_CONFIG's. The server stays up and no budget is     *)
(* spent, so only the order in which the two workers settle is left open:  *)
(* an error may come back before the slower answer to an earlier request.  *)
(***************************************************************************)
EXTENDS LspFilePass

MCJobKeys == << <<"a", "b", "c", "d">>, <<"e", "f", "g", "h">> >>
MCReply(f, j) == IF j \in {1, 2, 4} THEN {"error"} ELSE {"t1"}

QuietInit == Init /\ ~disposed
QuietNext ==
    \/ FileLoop /\ (step = "open" => step' = "symbols")
    \/ \E w \in Workers : Worker(w)
QuietSpec == QuietInit /\ [][QuietNext]_vars

\* docs/design/lsp-enrichment.md 10.6: "Given identical `serverResponses`, identical files
\* will fall back and identical files will succeed."
IdenticalFilesFallBackAlike == Len(closed) = 2 => closed[1] = closed[2]
=============================================================================
