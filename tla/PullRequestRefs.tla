--------------------------- MODULE PullRequestRefs ---------------------------
(***************************************************************************)
(* The two trees a pull request's report compares, as the action's         *)
(* resolver reads them from the checkout                                   *)
(* (packages/github-action/scripts/resolve-refspec.mjs). A history is a    *)
(* constant graph of commits; what git answers about it is defined here    *)
(* over ancestor sets. A clone is what one checkout holds of it.           *)
(***************************************************************************)
EXTENDS Integers, Sequences, FiniteSets

CONSTANTS
    Commits,     \* every commit of the repository
    Parents,     \* [Commits -> Seq(Commits)], a merge's first parent first
    Missing      \* no commit: a ref or an object a clone does not have

ParentsOf(c) == {Parents[c][i] : i \in DOMAIN Parents[c]}

\* A commit, its parents and theirs: what every set of commits holds that holds the commit and the
\* parents of what it holds.
History ==
    LET closed == {set \in SUBSET Commits : \A c \in set : ParentsOf(c) \subseteq set}
    IN [c \in Commits |-> {d \in Commits : \A set \in closed : c \in set => d \in set}]

\* What the resolver's input, the event's payload and the clone can be.
Clones == [input : {"", "given", "lines"},
           event : {"pull_request", "pull_request_target", "issue_comment"},
           payload : {"full", "malformed"},
           checkout : Commits \cup {Missing},      \* Missing: HEAD cannot be read
           head : Commits,                         \* pull_request.head.sha
           base : Commits,                         \* pull_request.base.sha
           cloned : BOOLEAN,                       \* base.sha is an object of the clone
           tracking : Commits \cup {Missing},      \* refs/remotes/origin/<base.ref>
           trackingReads : BOOLEAN,
           shallow : BOOLEAN]

Refused == [base |-> Missing, head |-> Missing]
Given == [base |-> Missing, head |-> "given"]
Spec2(base, head) == [base |-> base, head |-> head]

IsAncestor(a, d) == a \in History[d]

\* merge-base A B C: common to A and a merge of B and C, and no ancestor of another such commit.
MergeBases(a, others) ==
    LET common == History[a] \cap UNION {History[o] : o \in others}
    IN {c \in common : \A d \in common : IsAncestor(c, d) => d = c}

\* refs/remotes/origin/<base.ref> that is there and cannot be read fails the step.
TrackingFails(clone) == clone.tracking # Missing /\ ~clone.trackingReads

\* Not the code: the event's base.sha, where the clone has it, and not the branch as fetched.
HeadAndBaseSha(clone) ==
    IF TrackingFails(clone) \/ ~clone.cloned \/ MergeBases(clone.head, {clone.base}) = {}
    THEN {Refused}
    ELSE {Spec2(b, clone.head) : b \in MergeBases(clone.head, {clone.base})}

HeadAndMergeBase(clone) ==
    LET bases == ({clone.tracking} \ {Missing})
                   \cup (IF clone.cloned THEN {clone.base} ELSE {})
    IN IF TrackingFails(clone) \/ MergeBases(clone.head, bases) = {}
       THEN {Refused}
       ELSE {Spec2(b, clone.head) : b \in MergeBases(clone.head, bases)}

MergeAndFirstParent(clone, first) ==
    IF \/ TrackingFails(clone)
       \/ clone.tracking # Missing /\ ~IsAncestor(first, clone.tracking)
    THEN {Refused}
    ELSE {Spec2(first, clone.checkout)}

SecondParent(c) == IF Len(Parents[c]) < 2 THEN Missing ELSE Parents[c][2]

\* The specs the step can answer with; git names one of several merge bases, the caller cannot say which.
Resolved(clone) ==
    IF clone.input = "given" THEN {Given}
    ELSE IF \/ clone.input = "lines"
            \/ clone.event \notin {"pull_request", "pull_request_target"}
            \/ clone.payload = "malformed"
            \/ clone.checkout = Missing
            \/ clone.shallow THEN {Refused}
    ELSE IF clone.checkout = clone.head THEN HeadAndMergeBase(clone)
    ELSE IF SecondParent(clone.checkout) = clone.head
         THEN MergeAndFirstParent(clone, Parents[clone.checkout][1])
    ELSE {Refused}

=============================================================================
