----------------------------- MODULE ActionRun -------------------------------
(***************************************************************************)
(* Runs of the GitHub Action (packages/github-action/action.yml) on one    *)
(* pull request, side by side: each checks its inputs, resolves the refs,  *)
(* runs the diff, rewrites the pull request's comment                      *)
(* (scripts/upsert-comment.mjs) and passes an exit code on. The comments   *)
(* are the server's, listed a page at a time as they stand at each         *)
(* request, while people, other bots and the other runs post and delete.   *)
(* What a diff leaves in its output directory is in Commands.              *)
(***************************************************************************)
EXTENDS PullRequestRefs, SequencesExt

CONSTANTS
    Runs,           \* runs of the action: the first is followed from its inputs on,
    FirstRun,       \* the others from the comment of a report whose diff passed
    Report,         \* [Runs -> the text of the report its diff writes]
    SomeClones,     \* the clones that run may find
    Starts,         \* the comments the pull request may have at first
    PER_PAGE,
    Theirs,         \* the comments others may post meanwhile, whatever their id
    Meddlings       \* bound: comments others post or delete

Authors == {"a person", "a bot", "the poster"}     \* the poster: the account the token posts as

CommentType == [id : Nat, by : Authors, marked : BOOLEAN,
                text : {"theirs", "earlier"} \cup Range(Report), reads : BOOLEAN]

\* The server numbers the comments in the order they are posted.
ASSUME ActionRunAssumption ==
    /\ FirstRun \in Runs
    /\ DOMAIN Report = Runs
    /\ Meddlings \in Nat
    /\ PER_PAGE \in Nat \ {0}
    /\ SomeClones \subseteq Clones
    /\ Theirs \subseteq CommentType
    /\ \A start \in Starts : /\ start \in Seq(CommentType)
                             /\ \A i \in DOMAIN start : start[i].id = i

VARIABLES
    comments,   \* the pull request's comments, oldest first
    ids,        \* comments ever posted
    meddled,    \* comments others posted or deleted
    token,      \* "personal" or "installation": what GET /user says to the runs' token
    step,       \* the step each run is at
    clone,      \* the checkout the first run resolves its refs from, and
    spec,       \* the ref spec it resolved, until the diff is through
    wants,      \* the caller asked for the comment
    diff,       \* the recorded cli-exit-code of the diff step, and of the steps that stop before it
    early,
    failed,     \* a step failed: the composite action fails
    page,       \* the next page to ask for
    self,       \* whose comments are the run's own, once asked
    skipped,    \* rows without an id, a body, a url or an author
    existing,   \* the comment found, as the listing gave it
    code,       \* the cli-exit-code output
    said,       \* history: texts a comment of the runs' own account has held
    disturbed,  \* history: what a run had listed, or found missing, changed behind it
    clean       \* history: comments created by runs that nothing disturbed

upsert == <<page, self, skipped, existing>>
action == <<wants, diff, early, failed, code>>
refs == <<clone, spec>>
server == <<comments, ids, meddled>>
history == <<said, disturbed, clean>>
vars == <<server, token, step, refs, action, upsert, history>>

Gone == Refused     \* no checkout at hand
None == "none"      \* a code not recorded, a comment not found, a token's user not asked for
SUCCESS == "0"
RUNTIME == "1"
INPUT == "2"
GATE == "3"

IsBot(author) == author = "a bot" \/ (author = "the poster" /\ token = "installation")

Comment(id, by, marked, text, reads) ==
    [id |-> id, by |-> by, marked |-> marked, text |-> text, reads |-> reads]

NoComment == Comment(0, "a person", FALSE, None, FALSE)

PageOf(p) == SubSeq(comments, (p - 1) * PER_PAGE + 1,
                    IF p * PER_PAGE < Len(comments) THEN p * PER_PAGE ELSE Len(comments))
ReadSoFar(r) == IF step[r] = "list" THEN (page[r] - 1) * PER_PAGE ELSE 0

\* Not the code: any comment that opens with the marker.
IsOwnCommentOfAnyone(c, who) == c.marked

IsOwnComment(c, who) ==
    c.marked /\ IF who = "refused" THEN IsBot(c.by) ELSE c.by = who

\* A comment the runs' token may rewrite, whatever a run makes of it.
Mine(c) ==
    /\ c.reads /\ c.marked
    /\ c.by = "the poster" \/ (token = "installation" /\ c.by = "a bot")

Init ==
    /\ token \in {"personal", "installation"}
    /\ comments \in Starts
    /\ ids = Len(comments)
    /\ meddled = 0
    /\ step = [r \in Runs |-> IF r = FirstRun THEN "validate" ELSE "read"]
    /\ clone = Gone
    /\ spec = Refused
    /\ wants = [r \in Runs |-> TRUE]
    /\ diff = [r \in Runs |-> IF r = FirstRun THEN None ELSE SUCCESS]
    /\ early = [r \in Runs |-> None]
    /\ failed = [r \in Runs |-> FALSE]
    /\ page = [r \in Runs |-> 1]
    /\ self = [r \in Runs |-> None]
    /\ skipped = [r \in Runs |-> FALSE]
    /\ existing = [r \in Runs |-> NoComment]
    /\ code = [r \in Runs |-> None]
    /\ said = {c.text : c \in {c \in Range(comments) : Mine(c)}}
    /\ disturbed = [r \in Runs |-> FALSE]
    /\ clean = {}

-----------------------------------------------------------------------------
(* The steps before the diff. One that fails skips to the last, which always runs.              *)
Fail(r) == failed' = [failed EXCEPT ![r] = TRUE]
Stop(r) == Fail(r) /\ step' = [step EXCEPT ![r] = "exit code"]
Turn(r, next) == step' = [step EXCEPT ![r] = next]

Validate(r) ==
    /\ step[r] = "validate"
    /\ \E comment, json, wellFormed \in BOOLEAN :
         IF (comment /\ json) \/ ~wellFormed
         THEN /\ Stop(r)
              /\ early' = [early EXCEPT ![r] = INPUT]
              /\ UNCHANGED wants
         ELSE /\ Turn(r, "setup")
              /\ wants' = [wants EXCEPT ![r] = comment]
              /\ UNCHANGED <<early, failed>>
    /\ UNCHANGED <<server, token, refs, diff, code, upsert, history>>

\* pnpm and Node, which record no code of their own.
Setup(r) ==
    /\ step[r] = "setup"
    /\ \/ Turn(r, "refspec") /\ UNCHANGED failed
       \/ Stop(r)
    /\ UNCHANGED <<server, token, refs, wants, diff, early, code, upsert, history>>

ResolveRefspec(r) ==
    /\ step[r] = "refspec"
    /\ \E c \in SomeClones : \E answer \in Resolved(c) :
         IF answer = Refused
         THEN /\ Stop(r)
              /\ early' = [early EXCEPT ![r] = INPUT]
              /\ UNCHANGED refs
         ELSE /\ Turn(r, "diff")
              /\ clone' = c
              /\ spec' = answer
              /\ UNCHANGED <<early, failed>>
    /\ UNCHANGED <<server, token, wants, diff, code, upsert, history>>

Compared(r) ==
    IF r = FirstRun THEN clone' = Gone /\ spec' = Refused ELSE UNCHANGED refs

\* A CLI that cannot be found and a size the probe refuses stop the step with a code, before the CLI.
NoCli(r) ==
    /\ step[r] = "diff"
    /\ Stop(r)
    /\ diff' = [diff EXCEPT ![r] = INPUT]
    /\ Compared(r)
    /\ UNCHANGED <<server, token, wants, early, code, upsert, history>>

\* The CLI's code is recorded and the step goes on; the paths are of what the CLI left.
Diff(r) ==
    /\ step[r] = "diff"
    /\ \E exit \in {SUCCESS, RUNTIME, INPUT, GATE}, paths \in BOOLEAN, written \in BOOLEAN :
         /\ exit = SUCCESS => written
         /\ diff' = [diff EXCEPT ![r] = exit]
         /\ \/ ~paths /\ Stop(r)
            \/ /\ paths
               /\ Turn(r, IF wants[r] /\ written /\ exit \in {SUCCESS, GATE}
                          THEN "read" ELSE "exit code")
               /\ UNCHANGED failed
    /\ Compared(r)
    /\ UNCHANGED <<server, token, wants, early, code, upsert, history>>

-----------------------------------------------------------------------------
(* upsert-comment.mjs *)

\* The inputs, the report file and its size; an unusable one ends the script before any request.
ReadReport(r) ==
    /\ step[r] = "read"
    /\ \/ Turn(r, "list") /\ UNCHANGED failed
       \/ Stop(r)
    /\ UNCHANGED <<server, token, refs, wants, diff, early, code, upsert, history>>

\* GET /user: a login, or the refusal an installation token gets.
Poster == IF token = "personal" THEN "the poster" ELSE "refused"

\* The rows a page is read to: through the first that is the run's own.
RowsRead(rows, who) ==
    {i \in DOMAIN rows : \A j \in 1..(i - 1) : ~(rows[j].reads /\ IsOwnComment(rows[j], who))}

FirstOwn(rows, who) ==
    LET own == {i \in RowsRead(rows, who) : rows[i].reads /\ IsOwnComment(rows[i], who)}
    IN IF own = {} THEN NoComment ELSE rows[CHOOSE i \in own : TRUE]

\* Not the code: a full page taken for the last.
LastPageWhenFull(rows) == Len(rows) <= PER_PAGE

LastPage(rows) == Len(rows) < PER_PAGE

\* One page: its rows in order, the token's user asked for at the first marker.
ListPage(r) ==
    /\ step[r] = "list"
    /\ LET rows == PageOf(page[r])
           asks == self[r] = None /\ \E c \in Range(rows) : c.reads /\ c.marked
           who == IF asks THEN Poster ELSE self[r]
           own == FirstOwn(rows, who)
       IN /\ self' = [self EXCEPT ![r] = who]
          /\ skipped' = [skipped EXCEPT ![r] = @ \/ \E i \in RowsRead(rows, who) : ~rows[i].reads]
          /\ existing' = [existing EXCEPT ![r] = own]
          /\ IF own = NoComment /\ ~LastPage(rows)
             THEN page' = [page EXCEPT ![r] = @ + 1] /\ UNCHANGED step
             ELSE /\ Turn(r, IF own = NoComment THEN "create" ELSE "update")
                  /\ UNCHANGED page
    /\ UNCHANGED <<server, token, refs, action, history>>

\* The script ends, and what it had read with it.
Forget(r) ==
    /\ page' = [page EXCEPT ![r] = 1]
    /\ self' = [self EXCEPT ![r] = None]
    /\ skipped' = [skipped EXCEPT ![r] = FALSE]
    /\ existing' = [existing EXCEPT ![r] = NoComment]

Same(r) ==
    /\ step[r] = "update"
    /\ existing[r].text = Report[r]
    /\ Turn(r, "exit code")
    /\ Forget(r)
    /\ UNCHANGED <<server, token, refs, action, history>>

\* The write's answer can be lost, or unreadable, after the server did it.
Answer(r) ==
    \/ Turn(r, "exit code") /\ UNCHANGED failed
    \/ Stop(r)

Update(r) ==
    /\ step[r] = "update"
    /\ existing[r].text # Report[r]
    /\ \E i \in DOMAIN comments :
         /\ comments[i].id = existing[r].id
         /\ comments' = [comments EXCEPT ![i].text = Report[r]]
    /\ said' = said \cup {Report[r]}
    /\ Answer(r)
    /\ Forget(r)
    /\ UNCHANGED <<ids, meddled, token, refs, wants, diff, early, code, disturbed, clean>>

\* Not the code: a comment deleted since is nothing to fail on.
UpdateGoneQuietly(r) ==
    /\ step[r] = "update"
    /\ existing[r].text # Report[r]
    /\ \A i \in DOMAIN comments : comments[i].id # existing[r].id
    /\ Turn(r, "exit code")
    /\ Forget(r)
    /\ UNCHANGED <<server, token, refs, action, history>>

\* The comment is gone: a PATCH of it is a 404.
UpdateGone(r) ==
    /\ step[r] = "update"
    /\ existing[r].text # Report[r]
    /\ \A i \in DOMAIN comments : comments[i].id # existing[r].id
    /\ Stop(r)
    /\ Forget(r)
    /\ UNCHANGED <<server, token, refs, wants, diff, early, code, history>>

\* A comment the runs would take for their own goes unseen by a run that has read the last page.
Posts(c) ==
    /\ ids' = ids + 1
    /\ c.id = ids'
    /\ comments' = Append(comments, c)
    /\ disturbed' = [r \in Runs |-> disturbed[r] \/ (Mine(c) /\ step[r] = "create")]
    /\ said' = IF Mine(c) THEN said \cup {c.text} ELSE said

Create(r) ==
    /\ step[r] = "create"
    /\ Posts(Comment(ids + 1, "the poster", TRUE, Report[r], TRUE))
    /\ clean' = IF disturbed[r] \/ skipped[r] THEN clean ELSE clean \cup {ids'}
    /\ Answer(r)
    /\ Forget(r)
    /\ UNCHANGED <<meddled, token, refs, wants, diff, early, code>>

\* A request refused, or never answered: a failed listing, GET /user, PATCH or POST.
RequestFails(r) ==
    /\ step[r] \in {"list", "update", "create"}
    /\ step[r] = "update" => existing[r].text # Report[r]
    /\ Stop(r)
    /\ Forget(r)
    /\ UNCHANGED <<server, token, refs, wants, diff, early, code, history>>

-----------------------------------------------------------------------------
\* exit-code-step.sh: the diff's code, else the stopping step's, else 1.
CodeOf(r) ==
    IF diff[r] # None THEN diff[r] ELSE IF early[r] # None THEN early[r] ELSE RUNTIME

ExitCode(r) ==
    /\ step[r] = "exit code"
    /\ code' = [code EXCEPT ![r] = CodeOf(r)]
    /\ failed' = [failed EXCEPT ![r] = @ \/ CodeOf(r) # SUCCESS]
    /\ Turn(r, "done")
    /\ UNCHANGED <<server, token, refs, wants, diff, early, upsert, history>>

Someone ==
    /\ meddled < Meddlings
    /\ meddled' = meddled + 1
    /\ \/ \E c \in Theirs : Posts([c EXCEPT !.id = ids + 1])
       \/ \E i \in DOMAIN comments :
             /\ comments' = RemoveAt(comments, i)
             /\ disturbed' = [r \in Runs |-> disturbed[r] \/ i <= ReadSoFar(r)]
             /\ UNCHANGED <<ids, said>>
    /\ UNCHANGED <<token, step, refs, action, upsert, clean>>

\* A run's steps on its own runner read and change nothing the others or the server see: taken
\* before those that do, they leave out no order of the requests.
OnRunner(r) ==
    Validate(r) \/ Setup(r) \/ ResolveRefspec(r) \/ NoCli(r) \/ Diff(r) \/ ReadReport(r) \/ ExitCode(r)

Request(r) ==
    ListPage(r) \/ Same(r) \/ Update(r) \/ UpdateGone(r) \/ Create(r) \/ RequestFails(r)

BeforeRequests == {"validate", "setup", "refspec", "diff", "read", "exit code"}

Next ==
    \/ \E r \in Runs : OnRunner(r)
    \/ /\ \A r \in Runs : step[r] \notin BeforeRequests
       /\ \E r \in Runs : step[r] # "done"
       /\ Someone \/ \E r \in Runs : Request(r)

Spec == Init /\ [][Next]_vars

-----------------------------------------------------------------------------
Steps == {"validate", "setup", "refspec", "diff", "read", "list", "create", "update", "exit code",
          "done"}
Codes == {SUCCESS, RUNTIME, INPUT, GATE}

\* Types of the state: comments stand in the order of their ids, and a code is out once a run is done.
ServerType ==
    /\ comments \in Seq(CommentType)
    /\ ids \in Nat /\ meddled \in 0..Meddlings
    /\ \A i \in DOMAIN comments : comments[i].id \in 1..ids
    /\ \A i, j \in DOMAIN comments : i < j => comments[i].id < comments[j].id
RunType ==
    /\ token \in {"personal", "installation"}
    /\ step \in [Runs -> Steps]
    /\ clone = Gone \/ clone \in SomeClones
    /\ diff \in [Runs -> Codes \cup {None}] /\ early \in [Runs -> {INPUT, None}]
    /\ code \in [Runs -> Codes \cup {None}] /\ \A r \in Runs : code[r] # None <=> step[r] = "done"
UpsertType ==
    /\ page \in [Runs -> Nat \ {0}]
    /\ self \in [Runs -> {None, "the poster", "refused"}]
    /\ existing \in [Runs -> CommentType \cup {NoComment}]
FlagType ==
    /\ wants \in [Runs -> BOOLEAN] /\ failed \in [Runs -> BOOLEAN]
    /\ skipped \in [Runs -> BOOLEAN] /\ disturbed \in [Runs -> BOOLEAN]
TypeOK == ServerType /\ RunType /\ UpsertType /\ FlagType

\* "One comment per pull request" (docs/design/github-action.md section 5): a run posts a second
\* one only when a comment was deleted behind its listing, when another of its account appeared
\* after its last page, or when a row could not be read. A comment that a run posted otherwise has
\* no older one of the account beside it.
OneComment ==
    \A c, d \in Range(comments) : c.id \in clean /\ d.id < c.id => ~Mine(d)

\* "A person's comment is never rewritten": the text of a comment changes only where the
\* account a run posts as wrote it, or, under an installation token, a bot did.
OthersUntouched ==
    \A c \in Range(comments), d \in Range(comments') :
        c.id = d.id /\ c # d => Mine(c) /\ d = [c EXCEPT !.text = d.text]

\* Whatever a run does, what is the account's stays one comment and what is not stays as it was.
OneOwnComment == [][TypeOK' /\ OneComment' /\ OthersUntouched]_vars

\* A run that was asked to comment and ends green had its diff pass and its report on the pull
\* request: no refusal, lost answer or deleted comment on the way reads as a pass.
GreenHasSaidIt ==
    \A r \in Runs :
        step[r] = "done" /\ ~failed[r] => diff[r] = SUCCESS /\ (wants[r] => Report[r] \in said)

\* The resolved spec names the checkout as its head, with the pull request's commits in it, and
\* leaves out every commit of the base branch as the clone has it, which would otherwise be
\* reported as the pull request's own (docs/design/github-action.md section 2.1).
RefspecIsThePullRequest ==
    spec \notin {Refused, Given} =>
      LET reported == History[spec.head] \ History[spec.base]
          branch == ({clone.tracking} \ {Missing})
                      \cup (IF clone.cloned /\ clone.checkout = clone.head THEN {clone.base} ELSE {})
      IN /\ spec.head = clone.checkout
         /\ IsAncestor(clone.head, spec.head) /\ IsAncestor(spec.base, spec.head)
         /\ \A b \in branch : reported \cap History[b] = {}

=============================================================================
