---------------------------- MODULE MCActionRun ------------------------------
(***************************************************************************)
(* Two runs of one pull request. Pages of two comments, so that an         *)
(* account's comment can be on the second one and a deletion can move it   *)
(* behind a listing. The history: base branch b0, b1, b2; the pull         *)
(* request p1, which then merged b1 (p2); GitHub's merges of either, and   *)
(* one into a branch x that is not the base. Each merge ref has a first    *)
(* parent no older than what the head had merged, as GitHub computes them. *)
(***************************************************************************)
EXTENDS ActionRun

MCCommits == {"b0", "b1", "b2", "x", "p1", "p2", "m1", "m2", "mx"}
MCParents ==
    [c \in MCCommits |->
       CASE c = "b0" -> <<>>
         [] c = "b1" -> <<"b0">>
         [] c = "b2" -> <<"b1">>
         [] c = "x" -> <<"b0">>
         [] c = "p1" -> <<"b0">>
         [] c = "p2" -> <<"p1", "b1">>
         [] c = "m1" -> <<"b1", "p1">>
         [] c = "m2" -> <<"b2", "p2">>
         [] c = "mx" -> <<"x", "p2">>]
MCReport == [r \in {1, 2} |-> IF r = 1 THEN "first" ELSE "second"]

\* An object the clone reaches is one it has.
Consistent(c) ==
    c.base \in History[c.checkout] \cup (IF c.tracking = Missing THEN {} ELSE History[c.tracking])
      => c.cloned

MCClones ==
    LET plain == {c \in [input : {""}, event : {"pull_request"}, payload : {"full"},
                         checkout : {"p1", "p2", "m1", "m2", "mx", "b1"}, head : {"p1", "p2"},
                         base : {"b0", "b1", "b2"}, cloned : BOOLEAN,
                         tracking : {"b0", "b1", "b2", Missing}, trackingReads : BOOLEAN,
                         shallow : {FALSE}] : Consistent(c)}
        usual == CHOOSE c \in plain : c.checkout = "m2" /\ c.head = "p2" /\ c.tracking = "b2"
    IN plain \cup {[usual EXCEPT !.input = "given"], [usual EXCEPT !.input = "lines"],
                   [usual EXCEPT !.event = "issue_comment"], [usual EXCEPT !.payload = "malformed"],
                   [usual EXCEPT !.checkout = Missing], [usual EXCEPT !.shallow = TRUE]}

Chat(id) == Comment(id, "a person", FALSE, "theirs", TRUE)
MCTheirs == {Chat(0), Comment(0, "a person", TRUE, "theirs", TRUE),
             Comment(0, "a bot", TRUE, "theirs", TRUE),
             Comment(0, "the poster", TRUE, "theirs", FALSE)}

MCStarts ==
    {<<>>,
     <<Chat(1), Chat(2), Comment(3, "the poster", TRUE, "earlier", TRUE)>>,
     <<Comment(1, "a person", TRUE, "theirs", TRUE), Comment(2, "a bot", TRUE, "theirs", TRUE),
       Comment(3, "the poster", TRUE, "first", TRUE)>>,
     <<Comment(1, "the poster", TRUE, "earlier", FALSE), Chat(2)>>}
=============================================================================
