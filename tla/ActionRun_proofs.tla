---------------------------- MODULE ActionRun_proofs ----------------------------
(***************************************************************************)
(* Proofs about ActionRun, for any runs, comments, page size and meddling: *)
(* a green run has said what it found, and the runs keep to one comment of *)
(* their own. The inductive invariant says, run by run, what its listing   *)
(* has established so far of comments that change behind it.               *)
(***************************************************************************)
EXTENDS ActionRun, SequenceTheorems, WellFoundedInduction, TLAPS

\* The token's user is asked once, and the answer is the token's.
AskedBy(r) == self[r] \in {None, Poster}

\* An undisturbed run that could read every row has passed none it may rewrite, and posts over none.
UnseenBy(r) ==
    \A i \in DOMAIN comments :
        /\ ~disturbed[r] /\ ~skipped[r]
        /\ step[r] = "create" \/ i <= ReadSoFar(r)
        => ~Mine(comments[i])

\* It has asked for no page past the end.
InStepWith(r) == ~disturbed[r] => ReadSoFar(r) <= Len(comments)

\* The comment a run is about to rewrite is one it may, whatever became of it since.
FoundBy(r) ==
    step[r] = "update" =>
        /\ existing[r].id \in 1..ids /\ existing[r].text \in said
        /\ \A i \in DOMAIN comments : comments[i].id = existing[r].id => Mine(comments[i])

FreshFor(r) == step[r] \notin {"list", "create", "update"} => page[r] = 1

\* A run nothing stopped had a diff, and one that was to comment on a pass has said what it found.
UnstoppedIs(r) ==
    /\ step[r] \in {"read", "list", "create", "update"} => diff[r] \in {SUCCESS, GATE}
    /\ step[r] \in {"exit code", "done"} /\ ~failed[r] =>
         diff[r] # None /\ (diff[r] = SUCCESS /\ wants[r] => Report[r] \in said)
    /\ step[r] = "done" /\ ~failed[r] => diff[r] = SUCCESS

RunInv(r) ==
    /\ AskedBy(r) /\ UnseenBy(r) /\ InStepWith(r)
    /\ FoundBy(r) /\ FreshFor(r) /\ UnstoppedIs(r)

SaidIsKept == \A i \in DOMAIN comments : Mine(comments[i]) => comments[i].text \in said
CleanIsPosted == clean \subseteq 1..ids

ActionInv ==
    /\ TypeOK /\ SaidIsKept /\ CleanIsPosted /\ OneComment
    /\ \A r \in Runs : RunInv(r)

-----------------------------------------------------------------------------
(* Sequences, pages and the comments on them *)

LEMMA Least ==
    ASSUME NEW T \in SUBSET Nat, T # {}
    PROVE  \E n \in T : \A m \in T : n <= m
<1>1. PICK less : less = OpToRel(<, Nat)
  OBVIOUS
<1>2. \E n \in T : \A m \in T : <<m, n>> \notin less
  BY <1>1, NatLessThanWellFounded, WFMin
<1>3. \A m, n \in Nat : m < n => <<m, n>> \in less
  BY <1>1 DEF OpToRel
<1>4. PICK n \in T : \A m \in T : <<m, n>> \notin less
  BY <1>2
<1>5. \A m \in T : ~(m < n)
  BY <1>3, <1>4
<1>6. n \in Nat /\ \A m \in T : m \in Nat
  OBVIOUS
<1> QED
  BY <1>5, <1>6

LEMMA Rest ==
    ASSUME NEW S, NEW s \in Seq(S), NEW i \in DOMAIN s
    PROVE  /\ RemoveAt(s, i) \in Seq(S) /\ DOMAIN RemoveAt(s, i) = 1..Len(s) - 1
           /\ \A j \in DOMAIN RemoveAt(s, i) :
                /\ j < i => j \in DOMAIN s /\ RemoveAt(s, i)[j] = s[j]
                /\ j >= i => j + 1 \in DOMAIN s /\ RemoveAt(s, i)[j] = s[j + 1]
<1>1. PICK k : k = Len(s)
  OBVIOUS
<1>2. i \in 1..k /\ k \in Nat /\ DOMAIN s = 1..k /\ \A j \in 1..k : s[j] \in S
  BY <1>1, LenProperties, ElementOfSeq
<1>3. PICK before : before = SubSeq(s, 1, i - 1)
  OBVIOUS
<1>4. PICK after : after = SubSeq(s, i + 1, k)
  OBVIOUS
<1>5. /\ before \in Seq(S) /\ Len(before) = i - 1
      /\ \A j \in 1..i - 1 : before[j] = s[j]
  <2>1. 1 \in Int /\ i - 1 \in Int /\ \A j \in 1..i - 1 : s[j] \in S
    BY <1>2
  <2>2. /\ before \in Seq(S) /\ Len(before) = IF 1 <= i - 1 THEN i - 1 - 1 + 1 ELSE 0
        /\ \A j \in 1..i - 1 - 1 + 1 : before[j] = s[1 + j - 1]
    BY <1>3, <2>1, SubSeqProperties
  <2>3. Len(before) = i - 1 /\ i - 1 - 1 + 1 = i - 1
    BY <1>2, <2>2
  <2>4. ASSUME NEW j \in 1..i - 1
        PROVE  before[j] = s[j]
    <3>1. 1 + j - 1 = j
      OBVIOUS
    <3> QED
      BY <2>2, <2>3, <3>1
  <2> QED
    BY <2>2, <2>3, <2>4
<1>6. /\ after \in Seq(S) /\ Len(after) = k - i
      /\ \A j \in 1..k - i : after[j] = s[i + j]
  <2>1. i + 1 \in Int /\ k \in Int /\ \A j \in i + 1..k : s[j] \in S
    BY <1>2
  <2>2. /\ after \in Seq(S) /\ Len(after) = IF i + 1 <= k THEN k - (i + 1) + 1 ELSE 0
        /\ \A j \in 1..k - (i + 1) + 1 : after[j] = s[i + 1 + j - 1]
    BY <1>4, <2>1, SubSeqProperties
  <2>3. Len(after) = k - i /\ k - (i + 1) + 1 = k - i
    BY <1>2, <2>2
  <2>4. ASSUME NEW j \in 1..k - i
        PROVE  after[j] = s[i + j]
    <3>1. i + 1 + j - 1 = i + j
      BY <1>2
    <3> QED
      BY <2>2, <2>3, <3>1
  <2> QED
    BY <2>2, <2>3, <2>4
<1>7. PICK rest : rest = before \o after
  OBVIOUS
<1>8. /\ rest \in Seq(S) /\ Len(rest) = Len(before) + Len(after)
      /\ \A j \in 1..Len(before) + Len(after) :
           rest[j] = IF j <= Len(before) THEN before[j] ELSE after[j - Len(before)]
  BY <1>5, <1>6, <1>7, ConcatProperties
<1>9. RemoveAt(s, i) = rest
  BY <1>1, <1>3, <1>4, <1>7 DEF RemoveAt
<1>10. Len(before) + Len(after) = k - 1
  BY <1>2, <1>5, <1>6
<1>11. DOMAIN rest = 1..k - 1
  BY <1>8, <1>10, LenProperties
<1>12. ASSUME NEW j \in DOMAIN rest
       PROVE  /\ j < i => j \in DOMAIN s /\ rest[j] = s[j]
              /\ j >= i => j + 1 \in DOMAIN s /\ rest[j] = s[j + 1]
  <2>1. j \in 1..k - 1 /\ rest[j] = IF j <= i - 1 THEN before[j] ELSE after[j - (i - 1)]
    BY <1>5, <1>8, <1>10, <1>11
  <2>2. CASE j < i
    <3>1. j \in 1..i - 1 /\ j \in 1..k
      BY <1>2, <2>1, <2>2
    <3> QED
      BY <1>2, <1>5, <2>1, <2>2, <3>1
  <2>3. CASE j >= i
    <3>1. j - (i - 1) \in 1..k - i /\ j + 1 \in 1..k /\ i + (j - (i - 1)) = j + 1
          /\ ~(j <= i - 1) /\ ~(j < i)
      BY <1>2, <2>1, <2>3
    <3>2. after[j - (i - 1)] = s[i + (j - (i - 1))]
      BY <1>6, <3>1
    <3> QED
      BY <1>2, <2>1, <3>1, <3>2
  <2> QED
    BY <1>2, <2>1, <2>2, <2>3
<1> QED
  BY <1>1, <1>8, <1>9, <1>11, <1>12

\* The rows of a page are where the listing has come to, and a page that is not full is the last.
LEMMA PageRows ==
    ASSUME comments \in Seq(CommentType), NEW p \in Nat \ {0}, NEW rows, rows = PageOf(p),
           NEW off, off = (p - 1) * PER_PAGE
    PROVE  /\ off \in Nat /\ p * PER_PAGE = off + PER_PAGE
           /\ rows \in Seq(CommentType)
           /\ \A i \in DOMAIN rows : i \in Nat /\ i + off \in DOMAIN comments
                                     /\ rows[i] = comments[i + off]
           /\ \A i \in DOMAIN comments : off < i /\ i <= off + PER_PAGE =>
                i - off \in DOMAIN rows /\ comments[i] = rows[i - off]
           /\ LastPage(rows) => \A i \in DOMAIN comments : i <= off + PER_PAGE
           /\ ~LastPage(rows) => off + PER_PAGE <= Len(comments)
<1>1. PER_PAGE \in Nat \ {0}
  BY ActionRunAssumption
<1>2. off \in Nat /\ p * PER_PAGE = off + PER_PAGE
  BY <1>1
<1>3. PICK end : end = IF off + PER_PAGE < Len(comments) THEN off + PER_PAGE ELSE Len(comments)
  OBVIOUS
<1>4. rows = SubSeq(comments, off + 1, end)
  BY <1>2, <1>3 DEF PageOf
<1>5. PICK k : k = Len(comments)
  OBVIOUS
<1>6. k \in Nat /\ DOMAIN comments = 1..k /\ \A j \in 1..k : comments[j] \in CommentType
  BY <1>5, LenProperties, ElementOfSeq
<1>7. end \in Nat /\ end <= k /\ end <= off + PER_PAGE /\ (end < off + PER_PAGE => end = k)
  BY <1>1, <1>2, <1>3, <1>5, <1>6
<1>8. /\ rows \in Seq(CommentType)
      /\ Len(rows) = IF off + 1 <= end THEN end - (off + 1) + 1 ELSE 0
      /\ \A i \in 1..end - (off + 1) + 1 : rows[i] = comments[off + 1 + i - 1]
  <2>1. off + 1 \in Int /\ end \in Int /\ \A j \in off + 1..end : j \in 1..k
    BY <1>2, <1>6, <1>7
  <2> QED
    BY <1>4, <1>6, <2>1, SubSeqProperties
<1>9. PICK len : len = Len(rows)
  OBVIOUS
<1>10. DOMAIN rows = 1..len /\ len \in Nat
  BY <1>8, <1>9, LenProperties
<1>11. (len # 0 => off + len = end) /\ (len = 0 => end <= off)
  <2>1. CASE off + 1 <= end
    <3>1. len = end - (off + 1) + 1
      BY <1>8, <1>9, <2>1
    <3> QED
      BY <1>2, <1>7, <2>1, <3>1
  <2>2. CASE ~(off + 1 <= end)
    <3>1. len = 0
      BY <1>8, <1>9, <2>2
    <3> QED
      BY <1>2, <1>7, <2>2, <3>1
  <2> QED
    BY <2>1, <2>2
<1>12. ASSUME NEW i \in DOMAIN rows
       PROVE  i \in Nat /\ i + off \in DOMAIN comments /\ rows[i] = comments[i + off]
  <2>1. i \in 1..len /\ i \in 1..end - (off + 1) + 1 /\ off + 1 + i - 1 = i + off
        /\ i + off \in 1..k
    BY <1>2, <1>6, <1>7, <1>10, <1>11
  <2> QED
    BY <1>6, <1>8, <2>1
<1>13. ASSUME NEW i \in DOMAIN comments, off < i, i <= off + PER_PAGE
       PROVE  i - off \in DOMAIN rows /\ comments[i] = rows[i - off]
  <2>1. i \in 1..k /\ i <= end
    BY <1>1, <1>2, <1>6, <1>7, <1>13
  <2>2. i - off \in 1..len /\ (i - off) + off = i
    BY <1>2, <1>7, <1>10, <1>11, <1>13, <2>1
  <2> QED
    BY <1>10, <1>12, <2>2
<1>14. ASSUME LastPage(rows), NEW i \in DOMAIN comments
       PROVE  i <= off + PER_PAGE
  <2>1. len < PER_PAGE
    BY <1>9, <1>14 DEF LastPage
  <2>2. end < off + PER_PAGE
    BY <1>1, <1>2, <1>7, <1>10, <1>11, <2>1
  <2> QED
    BY <1>1, <1>2, <1>6, <1>7, <2>2
<1>15. ASSUME ~LastPage(rows)
       PROVE  off + PER_PAGE <= Len(comments)
  <2>1. ~(len < PER_PAGE)
    BY <1>9, <1>15 DEF LastPage
  <2> QED
    BY <1>1, <1>2, <1>5, <1>6, <1>7, <1>10, <1>11, <2>1
<1> QED
  BY <1>2, <1>8, <1>12, <1>13, <1>14, <1>15

\* A page is read through the run's own comment, or whole.
LEMMA OwnOrRead ==
    ASSUME NEW rows \in Seq(CommentType), NEW who, NEW own, own = FirstOwn(rows, who)
    PROVE  \/ /\ own = NoComment
              /\ RowsRead(rows, who) = DOMAIN rows
              /\ \A i \in DOMAIN rows : ~(rows[i].reads /\ IsOwnComment(rows[i], who))
           \/ \E i \in DOMAIN rows : /\ own = rows[i]
                                     /\ rows[i].reads /\ IsOwnComment(rows[i], who)
<1>1. PICK owns : owns = {i \in RowsRead(rows, who) : rows[i].reads /\ IsOwnComment(rows[i], who)}
  OBVIOUS
<1>2. RowsRead(rows, who) \subseteq DOMAIN rows
  BY DEF RowsRead
<1>3. CASE owns = {}
  <2>1. own = NoComment
    BY <1>1, <1>3 DEF FirstOwn
  <2>2. \A i \in DOMAIN rows : ~(rows[i].reads /\ IsOwnComment(rows[i], who))
    <3>1. PICK all : all = {i \in DOMAIN rows : rows[i].reads /\ IsOwnComment(rows[i], who)}
      OBVIOUS
    <3>2. ASSUME all # {}
          PROVE  FALSE
      <4>1. DOMAIN rows \subseteq Nat /\ DOMAIN rows = 1..Len(rows) /\ Len(rows) \in Nat
        BY LenProperties
      <4>2. all \in SUBSET Nat
        BY <3>1, <4>1
      <4>3. PICK i \in all : \A j \in all : i <= j
        BY <3>2, <4>2, Least
      <4>4. \A j \in 1..i - 1 : j \notin all /\ j \in DOMAIN rows
        BY <3>1, <4>1, <4>2, <4>3
      <4>5. i \in RowsRead(rows, who)
        BY <3>1, <4>3, <4>4 DEF RowsRead
      <4> QED
        BY <1>1, <1>3, <3>1, <4>3, <4>5
    <3> QED
      BY <3>1, <3>2
  <2>3. RowsRead(rows, who) = DOMAIN rows
    <3>1. \A i \in DOMAIN rows : \A j \in 1..i - 1 : j \in DOMAIN rows
      BY LenProperties
    <3> QED
      BY <2>2, <3>1 DEF RowsRead
  <2> QED
    BY <2>1, <2>2, <2>3
<1>4. CASE owns # {}
  <2>1. own = rows[CHOOSE i \in owns : TRUE]
    BY <1>1, <1>4 DEF FirstOwn
  <2>2. (CHOOSE i \in owns : TRUE) \in owns
    BY <1>4
  <2>3. PICK i : i = CHOOSE x \in owns : TRUE
    OBVIOUS
  <2>4. i \in owns /\ own = rows[i]
    BY <2>1, <2>2, <2>3
  <2> QED
    BY <1>1, <1>2, <2>4
<1> QED
  BY <1>3, <1>4

LEMMA MineIsOwn ==
    ASSUME token \in {"personal", "installation"}, NEW c \in CommentType
    PROVE  Mine(c) <=> c.reads /\ IsOwnComment(c, Poster)
BY DEF Mine, IsOwnComment, Poster, IsBot, CommentType, Authors

LEMMA UniqueIds ==
    ASSUME ServerType
    PROVE  /\ \A i, j \in DOMAIN comments : comments[i].id = comments[j].id => i = j
           /\ \A c, d \in Range(comments) : c.id = d.id => c = d
           /\ \A c \in Range(comments) : c \in CommentType /\ c.id \in 1..ids
           /\ DOMAIN comments \subseteq Nat
<1>1. DOMAIN comments = 1..Len(comments) /\ Len(comments) \in Nat
      /\ \A i \in 1..Len(comments) : comments[i] \in CommentType
  BY LenProperties, ElementOfSeq DEF ServerType
<1>2. /\ \A i \in DOMAIN comments : comments[i].id \in 1..ids
      /\ \A i, j \in DOMAIN comments : i < j => comments[i].id < comments[j].id
      /\ ids \in Nat
  BY DEF ServerType
<1>3. DOMAIN comments \subseteq Nat
  BY <1>1
<1>4. ASSUME NEW i \in DOMAIN comments, NEW j \in DOMAIN comments,
             comments[i].id = comments[j].id
      PROVE  i = j
  <2>1. i \in Nat /\ j \in Nat /\ comments[i].id \in Nat /\ comments[j].id \in Nat
    BY <1>2, <1>3
  <2>2. ~(i < j) /\ ~(j < i)
    BY <1>2, <1>4, <2>1
  <2> QED
    BY <2>1, <2>2
<1> QED
  BY <1>1, <1>2, <1>3, <1>4 DEF Range

LEMMA TokenStays ==
    ASSUME UNCHANGED token
    PROVE  Poster' = Poster /\ \A c : Mine(c)' <=> Mine(c)
BY DEF Poster, Mine

LEMMA ReadIsNat ==
    ASSUME UpsertType, NEW r \in Runs
    PROVE  ReadSoFar(r) \in Nat
<1>1. page[r] - 1 \in Nat /\ PER_PAGE \in Nat
  <2>1. page \in [Runs -> Nat \ {0}]
    BY DEF UpsertType
  <2>2. page[r] \in Nat \ {0}
    BY <2>1
  <2> QED
    BY <2>2, ActionRunAssumption
<1>2. (page[r] - 1) * PER_PAGE \in Nat
  BY <1>1
<1> QED
  BY <1>2 DEF ReadSoFar

-----------------------------------------------------------------------------
(* What a step changes of the server, seen by the runs that do not take it *)

SameRun(q) ==
    /\ step'[q] = step[q] /\ page'[q] = page[q] /\ self'[q] = self[q]
    /\ skipped'[q] = skipped[q] /\ existing'[q] = existing[q]
    /\ diff'[q] = diff[q] /\ wants'[q] = wants[q] /\ failed'[q] = failed[q]

LEMMA QuietKeeps ==
    ASSUME ActionInv, UNCHANGED <<server, token, history>>
    PROVE  /\ ServerType' /\ SaidIsKept' /\ CleanIsPosted' /\ OneComment' /\ OthersUntouched
           /\ \A q \in Runs : SameRun(q) => RunInv(q)'
<1>1. UNCHANGED <<comments, ids, meddled, said, disturbed, clean>>
  BY DEF server, history
<1>2. Poster' = Poster /\ \A c : Mine(c)' <=> Mine(c)
  BY TokenStays
<1>3. ServerType'
  BY <1>1 DEF ActionInv, TypeOK, ServerType
<1>4. SaidIsKept' /\ CleanIsPosted' /\ OneComment'
  BY <1>1, <1>2 DEF ActionInv, SaidIsKept, CleanIsPosted, OneComment
<1>5. OthersUntouched
  <2>1. \A c, d \in Range(comments) : c.id = d.id => c = d
    BY UniqueIds DEF ActionInv, TypeOK
  <2> QED
    BY <1>1, <2>1 DEF OthersUntouched
<1>6. ASSUME NEW q \in Runs, SameRun(q)
      PROVE  RunInv(q)'
  <2>1. /\ AskedBy(q) /\ UnseenBy(q) /\ InStepWith(q)
        /\ FoundBy(q) /\ FreshFor(q) /\ UnstoppedIs(q)
    BY DEF ActionInv, RunInv
  <2>2. AskedBy(q)' /\ FreshFor(q)'
    BY <1>2, <1>6, <2>1 DEF SameRun, AskedBy, FreshFor
  <2>3. ReadSoFar(q)' = ReadSoFar(q)
    BY <1>6 DEF SameRun, ReadSoFar
  <2>4. UnseenBy(q)'
    BY <1>1, <1>2, <1>6, <2>1, <2>3 DEF SameRun, UnseenBy
  <2>7. InStepWith(q)'
    BY <1>1, <2>1, <2>3 DEF InStepWith
  <2>5. FoundBy(q)'
    BY <1>1, <1>2, <1>6, <2>1 DEF SameRun, FoundBy
  <2>6. UnstoppedIs(q)'
    BY <1>1, <1>6, <2>1 DEF SameRun, UnstoppedIs
  <2> QED
    BY <2>2, <2>4, <2>5, <2>6, <2>7 DEF RunInv
<1> QED
  BY <1>3, <1>4, <1>5, <1>6

\* A comment is posted: it is the newest, and a run past the last page is told of it.
LEMMA PostKeeps ==
    ASSUME ActionInv, NEW c \in CommentType, Posts(c), UNCHANGED token, meddled' \in 0..Meddlings,
           \/ UNCHANGED clean
           \/ /\ clean' = clean \cup {ids'}
              /\ \A i \in DOMAIN comments : ~Mine(comments[i])
    PROVE  /\ ServerType' /\ SaidIsKept' /\ CleanIsPosted' /\ OneComment' /\ OthersUntouched
           /\ disturbed' \in [Runs -> BOOLEAN] /\ said \subseteq said'
           /\ \A q \in Runs : SameRun(q) => RunInv(q)'
<1>1. /\ ids' = ids + 1 /\ c.id = ids + 1 /\ comments' = Append(comments, c)
      /\ disturbed' = [r \in Runs |-> disturbed[r] \/ (Mine(c) /\ step[r] = "create")]
      /\ said' = IF Mine(c) THEN said \cup {c.text} ELSE said
  BY DEF Posts
<1>2. Poster' = Poster /\ \A d : Mine(d)' <=> Mine(d)
  BY TokenStays
<1>3. ServerType /\ comments \in Seq(CommentType) /\ ids \in Nat
  BY DEF ActionInv, TypeOK, ServerType
<1>4. PICK k : k = Len(comments)
  OBVIOUS
<1>5. k \in Nat /\ DOMAIN comments = 1..k
  BY <1>3, <1>4, LenProperties
<1>6. /\ comments' \in Seq(CommentType) /\ Len(comments') = k + 1
      /\ \A i \in 1..k : comments'[i] = comments[i]
      /\ comments'[k + 1] = c
  BY <1>1, <1>3, <1>4, AppendProperties
<1>7. DOMAIN comments' = 1..k + 1
  BY <1>6, LenProperties
<1>8. \A i \in DOMAIN comments' : (i \in DOMAIN comments /\ comments'[i] = comments[i])
                                  \/ (i = k + 1 /\ comments'[i] = c)
  BY <1>5, <1>6, <1>7
<1>9. /\ \A i \in DOMAIN comments : comments[i].id \in 1..ids
      /\ \A i, j \in DOMAIN comments : i < j => comments[i].id < comments[j].id
  BY <1>3 DEF ServerType
<1>10. ServerType'
  <2>1. \A i \in DOMAIN comments' : comments'[i].id \in 1..ids'
    BY <1>1, <1>3, <1>8, <1>9
  <2>2. ASSUME NEW i \in DOMAIN comments', NEW j \in DOMAIN comments', i < j
        PROVE  comments'[i].id < comments'[j].id
    <3>1. i \in DOMAIN comments /\ comments'[i] = comments[i]
      BY <1>5, <1>7, <1>8, <2>2
    <3>2. CASE j \in DOMAIN comments /\ comments'[j] = comments[j]
      BY <1>9, <2>2, <3>1, <3>2
    <3>3. CASE j = k + 1 /\ comments'[j] = c
      <4>1. comments[i].id \in 1..ids
        BY <1>9, <3>1
      <4> QED
        BY <1>1, <1>3, <3>1, <3>3, <4>1
    <3> QED
      BY <1>8, <3>2, <3>3
  <2>3. ids' \in Nat
    BY <1>1, <1>3
  <2> QED
    BY <1>6, <2>1, <2>2, <2>3 DEF ServerType
<1>11. said \subseteq said' /\ (Mine(c) => c.text \in said')
  BY <1>1
<1>12. SaidIsKept'
  BY <1>2, <1>8, <1>11 DEF ActionInv, SaidIsKept
<1>13. CleanIsPosted'
  <2>1. clean \subseteq 1..ids /\ 1..ids \subseteq 1..ids + 1 /\ ids + 1 \in 1..ids + 1
    BY <1>3 DEF ActionInv, CleanIsPosted
  <2>2. clean' \subseteq clean \cup {ids + 1}
    BY <1>1
  <2> QED
    BY <1>1, <2>1, <2>2 DEF CleanIsPosted
<1>14. Range(comments') = Range(comments) \cup {c}
  BY <1>5, <1>6, <1>7, <1>8 DEF Range
<1>15. /\ \A d, e \in Range(comments) : d.id = e.id => d = e
       /\ \A d \in Range(comments) : d.id \in 1..ids
  BY <1>3, UniqueIds
<1>16. OneComment'
  <2>1. ASSUME NEW d \in Range(comments'), NEW e \in Range(comments'), d.id \in clean',
               e.id < d.id, Mine(e)
        PROVE  FALSE
    <3>1. d.id <= ids + 1 /\ e.id < ids + 1
      <4>1. d.id \in 1..ids + 1
        BY <1>1, <1>3, <1>14, <1>15, <2>1
      <4>2. e.id \in 1..ids + 1
        BY <1>1, <1>3, <1>14, <1>15, <2>1
      <4> QED
        BY <1>3, <2>1, <4>1, <4>2
    <3>2. e \in Range(comments)
      BY <1>1, <1>3, <1>14, <2>1, <3>1
    <3>3. CASE d.id \in clean
      <4>1. d.id \in 1..ids
        BY <3>3 DEF ActionInv, CleanIsPosted
      <4>2. d \in Range(comments)
        BY <1>1, <1>3, <1>14, <2>1, <4>1
      <4> QED
        BY <2>1, <3>2, <3>3, <4>2 DEF ActionInv, OneComment
    <3>4. CASE d.id \notin clean
      <4>1. \A i \in DOMAIN comments : ~Mine(comments[i])
        BY <2>1, <3>4
      <4> QED
        BY <2>1, <3>2, <4>1 DEF Range
    <3> QED
      BY <3>3, <3>4
  <2> QED
    BY <1>2, <2>1 DEF OneComment
<1>17. OthersUntouched
  <2>1. ASSUME NEW d \in Range(comments), NEW e \in Range(comments'), d.id = e.id
        PROVE  d = e
    BY <1>1, <1>3, <1>14, <1>15, <2>1
  <2> QED
    BY <2>1 DEF OthersUntouched
<1>18. disturbed' \in [Runs -> BOOLEAN]
  BY <1>1
<1>19. ASSUME NEW q \in Runs, SameRun(q)
       PROVE  RunInv(q)'
  <2>1. /\ AskedBy(q) /\ UnseenBy(q) /\ InStepWith(q)
        /\ FoundBy(q) /\ FreshFor(q) /\ UnstoppedIs(q)
    BY DEF ActionInv, RunInv
  <2>2. AskedBy(q)' /\ FreshFor(q)'
    BY <1>2, <1>19, <2>1 DEF SameRun, AskedBy, FreshFor
  <2>3. ReadSoFar(q)' = ReadSoFar(q)
    BY <1>19 DEF SameRun, ReadSoFar
  <2>4. ~disturbed'[q] => ~disturbed[q] /\ ~(Mine(c) /\ step[q] = "create")
    BY <1>1
  <2>5. UnseenBy(q)'
    <3>1. ASSUME NEW i \in DOMAIN comments', ~disturbed'[q], ~skipped'[q],
                 step'[q] = "create" \/ i <= ReadSoFar(q)'
          PROVE  ~Mine(comments'[i])
      <4>1. CASE i \in DOMAIN comments /\ comments'[i] = comments[i]
        BY <1>19, <2>1, <2>3, <2>4, <3>1, <4>1 DEF SameRun, UnseenBy
      <4>2. CASE i = k + 1 /\ comments'[i] = c /\ step[q] = "create"
        BY <2>4, <3>1, <4>2
      <4>3. CASE i = k + 1 /\ comments'[i] = c /\ step[q] # "create"
        <5>1. ReadSoFar(q) <= k
          BY <1>4, <2>1, <2>4, <3>1 DEF InStepWith
        <5>2. k + 1 <= ReadSoFar(q)
          BY <1>19, <2>3, <3>1, <4>3 DEF SameRun
        <5>3. ReadSoFar(q) \in Nat
          BY ReadIsNat DEF ActionInv, TypeOK
        <5> QED
          BY <1>5, <5>1, <5>2, <5>3
      <4> QED
        BY <1>8, <4>1, <4>2, <4>3
    <3> QED
      BY <1>2, <3>1 DEF UnseenBy
  <2>6. FoundBy(q)'
    <3>1. ASSUME step[q] = "update"
          PROVE  /\ existing[q].id \in 1..ids' /\ existing[q].text \in said'
                 /\ \A i \in DOMAIN comments' :
                      comments'[i].id = existing[q].id => Mine(comments'[i])
      <4>1. /\ existing[q].id \in 1..ids /\ existing[q].text \in said
            /\ \A i \in DOMAIN comments : comments[i].id = existing[q].id => Mine(comments[i])
        BY <2>1, <3>1 DEF FoundBy
      <4>2. c.id # existing[q].id
        BY <1>1, <1>3, <4>1
      <4>3. existing[q].id \in 1..ids'
        BY <1>1, <1>3, <4>1
      <4> QED
        BY <1>8, <1>11, <4>1, <4>2, <4>3
    <3> QED
      BY <1>2, <1>19, <3>1 DEF SameRun, FoundBy
  <2>7. UnstoppedIs(q)'
    BY <1>11, <1>19, <2>1 DEF SameRun, UnstoppedIs
  <2>8. InStepWith(q)'
    <3>1. ReadSoFar(q) \in Nat
      BY ReadIsNat DEF ActionInv, TypeOK
    <3> QED
      BY <1>4, <1>5, <1>6, <2>1, <2>3, <2>4, <3>1 DEF InStepWith
  <2> QED
    BY <2>2, <2>5, <2>6, <2>7, <2>8 DEF RunInv
<1> QED
  BY <1>10, <1>11, <1>12, <1>13, <1>16, <1>17, <1>18, <1>19

\* A comment of the runs' own is rewritten: it stays where and whose it was.
LEMMA RewriteKeeps ==
    ASSUME ActionInv, NEW r \in Runs, step[r] = "update", NEW k \in DOMAIN comments,
           comments[k].id = existing[r].id, comments' = [comments EXCEPT ![k].text = Report[r]],
           said' = said \cup {Report[r]}, UNCHANGED <<ids, meddled, token, disturbed, clean>>
    PROVE  /\ ServerType' /\ SaidIsKept' /\ CleanIsPosted' /\ OneComment' /\ OthersUntouched
           /\ \A q \in Runs : SameRun(q) => RunInv(q)'
<1>1. Poster' = Poster /\ \A d : Mine(d)' <=> Mine(d)
  BY TokenStays
<1>2. ServerType /\ comments \in Seq(CommentType) /\ ids \in Nat
  BY DEF ActionInv, TypeOK, ServerType
<1>3. PICK new : new = [comments[k] EXCEPT !.text = Report[r]]
  OBVIOUS
<1>4. comments[k] \in CommentType
  BY <1>2, LenProperties, ElementOfSeq
<1>5. Report[r] \in Range(Report)
  BY ActionRunAssumption DEF Range
<1>6. /\ new \in CommentType /\ new.id = comments[k].id /\ new.text = Report[r]
      /\ new.by = comments[k].by /\ new.marked = comments[k].marked /\ new.reads = comments[k].reads
  BY <1>3, <1>4, <1>5 DEF CommentType
<1>7. Mine(new) <=> Mine(comments[k])
  BY <1>6 DEF Mine
<1>8. comments' = [comments EXCEPT ![k] = new]
  BY <1>3
<1>9. k \in 1..Len(comments) /\ Len(comments) \in Nat /\ DOMAIN comments = 1..Len(comments)
  BY <1>2, LenProperties
<1>10. /\ comments' \in Seq(CommentType) /\ Len(comments') = Len(comments)
       /\ \A i \in 1..Len(comments) : comments'[i] = IF i = k THEN new ELSE comments[i]
  BY <1>2, <1>6, <1>8, <1>9, ExceptSeq
<1>11. DOMAIN comments' = DOMAIN comments
  BY <1>9, <1>10, LenProperties
<1>12. \A i \in DOMAIN comments :
         /\ comments'[i].id = comments[i].id /\ (Mine(comments'[i]) <=> Mine(comments[i]))
         /\ comments'[i].text \in {comments[i].text, Report[r]}
  BY <1>6, <1>7, <1>9, <1>10
<1>13. ServerType'
  BY <1>10, <1>11, <1>12 DEF ActionInv, TypeOK, ServerType
<1>14. SaidIsKept' /\ CleanIsPosted'
  BY <1>1, <1>11, <1>12 DEF ActionInv, SaidIsKept, CleanIsPosted
<1>15. \A d \in Range(comments') : \E i \in DOMAIN comments : d = comments'[i]
  BY <1>11 DEF Range
<1>16. OneComment'
  <2>1. ASSUME NEW d \in Range(comments'), NEW e \in Range(comments'), d.id \in clean,
               e.id < d.id, Mine(e)
        PROVE  FALSE
    <3>1. PICK i, j \in DOMAIN comments : d = comments'[i] /\ e = comments'[j]
      BY <1>15
    <3>2. comments[i].id \in clean /\ comments[j].id < comments[i].id /\ Mine(comments[j])
      BY <1>12, <2>1, <3>1
    <3>3. comments[i] \in Range(comments) /\ comments[j] \in Range(comments)
      BY DEF Range
    <3> QED
      BY <3>2, <3>3 DEF ActionInv, OneComment
  <2> QED
    BY <1>1, <2>1 DEF OneComment
<1>17. OthersUntouched
  <2>1. ASSUME NEW c \in Range(comments), NEW d \in Range(comments'), c.id = d.id, c # d
        PROVE  Mine(c) /\ d = [c EXCEPT !.text = d.text]
    <3>1. PICK i, j \in DOMAIN comments : c = comments[i] /\ d = comments'[j]
      BY <1>15 DEF Range
    <3>2. i = j
      <4>1. comments[i].id = comments[j].id
        BY <1>12, <2>1, <3>1
      <4> QED
        BY <1>2, <4>1, UniqueIds
    <3>3. i = k /\ d = new
      BY <1>9, <1>10, <2>1, <3>1, <3>2
    <3>4. Mine(comments[k])
      <4>1. FoundBy(r)
        BY DEF ActionInv, RunInv
      <4> QED
        BY <4>1 DEF FoundBy
    <3> QED
      BY <1>3, <1>6, <3>1, <3>3, <3>4
  <2> QED
    BY <2>1 DEF OthersUntouched
<1>18. ASSUME NEW q \in Runs, SameRun(q)
       PROVE  RunInv(q)'
  <2>1. /\ AskedBy(q) /\ UnseenBy(q) /\ InStepWith(q)
        /\ FoundBy(q) /\ FreshFor(q) /\ UnstoppedIs(q)
    BY DEF ActionInv, RunInv
  <2>2. AskedBy(q)' /\ FreshFor(q)'
    BY <1>1, <1>18, <2>1 DEF SameRun, AskedBy, FreshFor
  <2>3. ReadSoFar(q)' = ReadSoFar(q)
    BY <1>18 DEF SameRun, ReadSoFar
  <2>4. UnseenBy(q)'
    BY <1>1, <1>11, <1>12, <1>18, <2>1, <2>3 DEF SameRun, UnseenBy
  <2>5. FoundBy(q)'
    BY <1>1, <1>11, <1>12, <1>18, <2>1 DEF SameRun, FoundBy
  <2>6. UnstoppedIs(q)'
    BY <1>18, <2>1 DEF SameRun, UnstoppedIs
  <2>7. InStepWith(q)'
    BY <1>10, <2>1, <2>3 DEF InStepWith
  <2> QED
    BY <2>2, <2>4, <2>5, <2>6, <2>7 DEF RunInv
<1> QED
  BY <1>13, <1>14, <1>16, <1>17, <1>18

\* A comment is deleted: the ones after it move up, past a run that has read that far.
LEMMA RemoveKeeps ==
    ASSUME ActionInv, NEW k \in DOMAIN comments, comments' = RemoveAt(comments, k),
           disturbed' = [r \in Runs |-> disturbed[r] \/ k <= ReadSoFar(r)],
           UNCHANGED <<ids, token, said, clean>>, meddled' \in 0..Meddlings
    PROVE  /\ ServerType' /\ SaidIsKept' /\ CleanIsPosted' /\ OneComment' /\ OthersUntouched
           /\ disturbed' \in [Runs -> BOOLEAN]
           /\ \A q \in Runs : SameRun(q) => RunInv(q)'
<1>1. Poster' = Poster /\ \A d : Mine(d)' <=> Mine(d)
  BY TokenStays
<1>2. ServerType /\ comments \in Seq(CommentType) /\ ids \in Nat
  BY DEF ActionInv, TypeOK, ServerType
<1>3. PICK n : n = Len(comments)
  OBVIOUS
<1>4. n \in Nat /\ DOMAIN comments = 1..n /\ k \in 1..n
  BY <1>2, <1>3, LenProperties
<1>5. /\ comments' \in Seq(CommentType) /\ DOMAIN comments' = 1..n - 1
      /\ \A j \in DOMAIN comments' :
           /\ j < k => j \in DOMAIN comments /\ comments'[j] = comments[j]
           /\ j >= k => j + 1 \in DOMAIN comments /\ comments'[j] = comments[j + 1]
  BY <1>2, <1>3, Rest
<1>6. Len(comments') = n - 1
  BY <1>4, <1>5, LenProperties
<1>7. ASSUME NEW j \in DOMAIN comments'
      PROVE  j \in Nat /\ \E i \in DOMAIN comments : comments'[j] = comments[i] /\ (j < k => i = j)
  <2>1. j \in Nat /\ (j < k \/ j >= k)
    BY <1>4, <1>5
  <2> QED
    BY <1>4, <1>5, <2>1
<1>8. \A c \in Range(comments') : c \in Range(comments)
  BY <1>7 DEF Range
<1>9. \A j \in DOMAIN comments' : comments'[j] \in Range(comments)
  BY <1>7 DEF Range
<1>10. ServerType'
  <2>1. \A i \in DOMAIN comments' : comments'[i].id \in 1..ids
    BY <1>2, <1>9, UniqueIds
  <2>2. ASSUME NEW i \in DOMAIN comments', NEW j \in DOMAIN comments', i < j
        PROVE  comments'[i].id < comments'[j].id
    <3>1. \A x, y \in DOMAIN comments : x < y => comments[x].id < comments[y].id
      BY <1>2 DEF ServerType
    <3>2. i \in Nat /\ j \in Nat /\ k \in Nat
      BY <1>4, <1>7
    <3>3. CASE j < k
      BY <1>5, <2>2, <3>1, <3>2, <3>3
    <3>4. CASE i < k /\ j >= k
      <4>1. i < j + 1
        BY <2>2, <3>2
      <4> QED
        BY <1>5, <3>1, <3>4, <4>1
    <3>5. CASE i >= k
      <4>1. i + 1 < j + 1 /\ j >= k
        BY <2>2, <3>2, <3>5
      <4> QED
        BY <1>5, <3>1, <3>5, <4>1
    <3> QED
      BY <2>2, <3>2, <3>3, <3>4, <3>5
  <2> QED
    BY <1>2, <1>5, <2>1, <2>2 DEF ServerType
<1>11. SaidIsKept' /\ CleanIsPosted' /\ OneComment'
  <2>1. SaidIsKept'
    BY <1>1, <1>7 DEF ActionInv, SaidIsKept
  <2>2. OneComment'
    BY <1>1, <1>8 DEF ActionInv, OneComment
  <2> QED
    BY <2>1, <2>2 DEF ActionInv, CleanIsPosted
<1>12. OthersUntouched
  <2>1. \A c, d \in Range(comments) : c.id = d.id => c = d
    BY <1>2, UniqueIds
  <2> QED
    BY <1>8, <2>1 DEF OthersUntouched
<1>13. disturbed' \in [Runs -> BOOLEAN]
  OBVIOUS
<1>14. ASSUME NEW q \in Runs, SameRun(q)
       PROVE  RunInv(q)'
  <2>1. /\ AskedBy(q) /\ UnseenBy(q) /\ InStepWith(q)
        /\ FoundBy(q) /\ FreshFor(q) /\ UnstoppedIs(q)
    BY DEF ActionInv, RunInv
  <2>2. AskedBy(q)' /\ FreshFor(q)'
    BY <1>1, <1>14, <2>1 DEF SameRun, AskedBy, FreshFor
  <2>3. ReadSoFar(q)' = ReadSoFar(q)
    BY <1>14 DEF SameRun, ReadSoFar
  <2>4. ~disturbed'[q] => ~disturbed[q] /\ ~(k <= ReadSoFar(q))
    OBVIOUS
  <2>5. ReadSoFar(q) \in Nat
    BY ReadIsNat DEF ActionInv, TypeOK
  <2>6. UnseenBy(q)'
    <3>1. ASSUME NEW j \in DOMAIN comments', ~disturbed'[q], ~skipped'[q],
                 step'[q] = "create" \/ j <= ReadSoFar(q)'
          PROVE  ~Mine(comments'[j])
      <4>1. PICK i \in DOMAIN comments : comments'[j] = comments[i] /\ (j < k => i = j)
        BY <1>7
      <4>2. step[q] = "create" \/ i <= ReadSoFar(q)
        <5>1. CASE step'[q] = "create"
          BY <1>14, <5>1 DEF SameRun
        <5>2. CASE j <= ReadSoFar(q)
          <6>1. j < k
            BY <1>4, <1>7, <2>4, <2>5, <3>1, <5>2
          <6> QED
            BY <4>1, <5>2, <6>1
        <5> QED
          BY <2>3, <3>1, <5>1, <5>2
      <4>3. ~disturbed[q] /\ ~skipped[q]
        BY <1>14, <2>4, <3>1 DEF SameRun
      <4> QED
        BY <2>1, <4>1, <4>2, <4>3 DEF UnseenBy
    <3> QED
      BY <1>1, <3>1 DEF UnseenBy
  <2>7. FoundBy(q)'
    BY <1>1, <1>7, <1>14, <2>1 DEF SameRun, FoundBy
  <2>8. UnstoppedIs(q)'
    BY <1>14, <2>1 DEF SameRun, UnstoppedIs
  <2>9. InStepWith(q)'
    BY <1>4, <1>6, <2>3, <2>4, <2>5 DEF InStepWith
  <2> QED
    BY <2>2, <2>6, <2>7, <2>8, <2>9 DEF RunInv
<1> QED
  BY <1>10, <1>11, <1>12, <1>13, <1>14

-----------------------------------------------------------------------------
(* The steps of a run on its own runner *)

LEMMA TurnIs ==
    ASSUME RunType, NEW r \in Runs, NEW next \in Steps, Turn(r, next)
    PROVE  step' \in [Runs -> Steps] /\ step'[r] = next /\ \A q \in Runs \ {r} : step'[q] = step[q]
<1>1. step \in [Runs -> Steps] /\ step' = [step EXCEPT ![r] = next]
  BY DEF RunType, Turn
<1> QED
  BY <1>1

LEMMA RunTypeKeeps ==
    ASSUME RunType, NEW r \in Runs, NEW next \in Steps \ {"done"}, Turn(r, next), step[r] # "done",
           UNCHANGED <<token, code>>, clone' = Gone \/ clone' \in SomeClones,
           diff' \in [Runs -> Codes \cup {None}], early' \in [Runs -> {INPUT, None}]
    PROVE  RunType'
<1>1. step' \in [Runs -> Steps] /\ step'[r] = next /\ \A q \in Runs \ {r} : step'[q] = step[q]
  BY TurnIs
<1>2. code \in [Runs -> Codes \cup {None}] /\ \A q \in Runs : code[q] # None <=> step[q] = "done"
  BY DEF RunType
<1>3. \A q \in Runs : code'[q] # None <=> step'[q] = "done"
  BY <1>1, <1>2
<1>4. token' \in {"personal", "installation"}
  BY DEF RunType
<1> QED
  BY <1>1, <1>2, <1>3, <1>4 DEF RunType

\* Outside the comment script a run has listed nothing.
LEMMA OutsideTheScript ==
    ASSUME NEW r \in Runs, page'[r] = 1, self'[r] \in {None, Poster'},
           comments' \in Seq(CommentType), step'[r] \notin {"create", "update"}
    PROVE  AskedBy(r)' /\ UnseenBy(r)' /\ InStepWith(r)' /\ FoundBy(r)' /\ FreshFor(r)'
<1>1. PER_PAGE \in Nat
  BY ActionRunAssumption
<1>2. ReadSoFar(r)' = 0
  <2>1. (page'[r] - 1) * PER_PAGE = 0
    BY <1>1
  <2> QED
    BY <2>1 DEF ReadSoFar
<1>3. Len(comments') \in Nat /\ DOMAIN comments' = 1..Len(comments')
  BY LenProperties
<1>4. \A i \in DOMAIN comments' : ~(i <= 0)
  BY <1>3
<1>5. AskedBy(r)' /\ FoundBy(r)' /\ FreshFor(r)'
  BY DEF AskedBy, FoundBy, FreshFor
<1>6. UnseenBy(r)'
  BY <1>2, <1>4 DEF UnseenBy
<1>7. InStepWith(r)'
  BY <1>2, <1>3 DEF InStepWith
<1> QED
  BY <1>5, <1>6, <1>7

LEMMA OnRunnerStep ==
    ASSUME ActionInv, NEW r \in Runs, NEW next \in Steps \ {"create", "update"},
           step[r] \notin {"list", "create", "update"}, Turn(r, next),
           UNCHANGED <<server, token, upsert, history>>, RunType', FlagType', UnstoppedIs(r)',
           \A q \in Runs \ {r} : /\ diff'[q] = diff[q] /\ wants'[q] = wants[q]
                                 /\ failed'[q] = failed[q]
    PROVE  ActionInv' /\ OthersUntouched
<1>1. /\ ServerType' /\ SaidIsKept' /\ CleanIsPosted' /\ OneComment' /\ OthersUntouched
      /\ \A q \in Runs : SameRun(q) => RunInv(q)'
  BY QuietKeeps
<1>2. UNCHANGED <<page, self, skipped, existing>>
  BY DEF upsert
<1>3. UpsertType'
  BY <1>2 DEF ActionInv, TypeOK, UpsertType
<1>4. step'[r] = next /\ \A q \in Runs \ {r} : step'[q] = step[q]
  BY TurnIs DEF ActionInv, TypeOK
<1>5. \A q \in Runs \ {r} : RunInv(q)'
  BY <1>1, <1>2, <1>4 DEF SameRun
<1>6. RunInv(r)'
  <2>1. page[r] = 1 /\ self[r] \in {None, Poster}
    BY DEF ActionInv, RunInv, FreshFor, AskedBy
  <2>2. Poster' = Poster
    BY TokenStays
  <2>3. comments' \in Seq(CommentType)
    BY <1>1 DEF ServerType
  <2>4. AskedBy(r)' /\ UnseenBy(r)' /\ InStepWith(r)' /\ FoundBy(r)' /\ FreshFor(r)'
    BY <1>2, <1>4, <2>1, <2>2, <2>3, OutsideTheScript
  <2> QED
    BY <2>4 DEF RunInv
<1> QED
  BY <1>1, <1>3, <1>5, <1>6 DEF ActionInv, TypeOK

LEMMA StopIs ==
    ASSUME TypeOK, NEW r \in Runs, Stop(r)
    PROVE  /\ Turn(r, "exit code") /\ failed' \in [Runs -> BOOLEAN] /\ failed'[r] = TRUE
           /\ \A q \in Runs \ {r} : failed'[q] = failed[q]
           /\ UnstoppedIs(r)'
<1>1. failed \in [Runs -> BOOLEAN] /\ failed' = [failed EXCEPT ![r] = TRUE]
  BY DEF TypeOK, FlagType, Stop, Fail
<1>2. Turn(r, "exit code")
  BY DEF Stop, Turn
<1>3. step'[r] = "exit code"
  BY <1>2, TurnIs DEF TypeOK, Steps
<1> QED
  BY <1>1, <1>2, <1>3 DEF UnstoppedIs

LEMMA CodesAre ==
    /\ SUCCESS \in Codes /\ RUNTIME \in Codes /\ INPUT \in Codes /\ GATE \in Codes
    /\ None \notin Codes /\ RUNTIME # SUCCESS /\ INPUT # SUCCESS
BY DEF Codes, SUCCESS, RUNTIME, INPUT, GATE, None

LEMMA ValidateKeeps ==
    ASSUME ActionInv, NEW r \in Runs, Validate(r)
    PROVE  ActionInv' /\ OthersUntouched
<1>1. step[r] = "validate" /\ UNCHANGED <<server, token, upsert, history>>
      /\ UNCHANGED <<clone, diff, code>>
  BY DEF Validate, refs
<1>2. TypeOK /\ RunType /\ FlagType
  BY DEF ActionInv, TypeOK
<1>3. UNCHANGED <<skipped, disturbed>>
  BY <1>1 DEF upsert, history
<1>4. CASE Stop(r) /\ early' = [early EXCEPT ![r] = INPUT] /\ UNCHANGED wants
  <2>1. RunType'
    <3>1. early' \in [Runs -> {INPUT, None}]
      BY <1>2, <1>4 DEF RunType
    <3> QED
      BY <1>1, <1>2, <1>4, <3>1, StopIs, RunTypeKeeps DEF RunType, Steps
  <2>2. FlagType'
    BY <1>2, <1>3, <1>4, StopIs DEF FlagType
  <2> QED
    BY <1>1, <1>2, <1>4, <2>1, <2>2, StopIs, OnRunnerStep DEF Steps
<1>5. CASE \E comment \in BOOLEAN : /\ Turn(r, "setup") /\ wants' = [wants EXCEPT ![r] = comment]
                                    /\ UNCHANGED <<early, failed>>
  <2>1. RunType'
    BY <1>1, <1>2, <1>5, RunTypeKeeps DEF RunType, Steps
  <2>2. FlagType' /\ \A q \in Runs \ {r} : wants'[q] = wants[q]
    BY <1>2, <1>3, <1>5 DEF FlagType
  <2>3. UnstoppedIs(r)'
    BY <1>2, <1>5, TurnIs DEF UnstoppedIs, Steps
  <2> QED
    BY <1>1, <1>2, <1>5, <2>1, <2>2, <2>3, OnRunnerStep DEF Steps
<1> QED
  BY <1>4, <1>5 DEF Validate

LEMMA SetupKeeps ==
    ASSUME ActionInv, NEW r \in Runs, Setup(r)
    PROVE  ActionInv' /\ OthersUntouched
<1>1. step[r] = "setup" /\ UNCHANGED <<server, token, upsert, history>>
      /\ UNCHANGED <<clone, wants, diff, early, code>>
  BY DEF Setup, refs
<1>2. TypeOK /\ RunType /\ FlagType
  BY DEF ActionInv, TypeOK
<1>3. UNCHANGED <<skipped, disturbed>>
  BY <1>1 DEF upsert, history
<1>4. CASE Stop(r)
  <2>1. RunType'
    BY <1>1, <1>2, <1>4, StopIs, RunTypeKeeps DEF RunType, Steps
  <2>2. FlagType'
    BY <1>1, <1>2, <1>3, <1>4, StopIs DEF FlagType
  <2> QED
    BY <1>1, <1>2, <1>4, <2>1, <2>2, StopIs, OnRunnerStep DEF Steps
<1>5. CASE Turn(r, "refspec") /\ UNCHANGED failed
  <2>1. RunType'
    BY <1>1, <1>2, <1>5, RunTypeKeeps DEF RunType, Steps
  <2>2. FlagType'
    BY <1>1, <1>2, <1>3, <1>5 DEF FlagType
  <2>3. UnstoppedIs(r)'
    BY <1>2, <1>5, TurnIs DEF UnstoppedIs, Steps
  <2> QED
    BY <1>1, <1>2, <1>5, <2>1, <2>2, <2>3, OnRunnerStep DEF Steps
<1> QED
  BY <1>4, <1>5 DEF Setup

LEMMA ResolveRefspecKeeps ==
    ASSUME ActionInv, NEW r \in Runs, ResolveRefspec(r)
    PROVE  ActionInv' /\ OthersUntouched
<1>1. step[r] = "refspec" /\ UNCHANGED <<server, token, upsert, history>>
      /\ UNCHANGED <<wants, diff, code>>
  BY DEF ResolveRefspec
<1>2. TypeOK /\ RunType /\ FlagType
  BY DEF ActionInv, TypeOK
<1>3. UNCHANGED <<skipped, disturbed>>
  BY <1>1 DEF upsert, history
<1>4. CASE Stop(r) /\ early' = [early EXCEPT ![r] = INPUT] /\ UNCHANGED clone
  <2>1. RunType'
    <3>1. early' \in [Runs -> {INPUT, None}]
      BY <1>2, <1>4 DEF RunType
    <3> QED
      BY <1>1, <1>2, <1>4, <3>1, StopIs, RunTypeKeeps DEF RunType, Steps
  <2>2. FlagType'
    BY <1>1, <1>2, <1>3, <1>4, StopIs DEF FlagType
  <2> QED
    BY <1>1, <1>2, <1>4, <2>1, <2>2, StopIs, OnRunnerStep DEF Steps
<1>5. CASE /\ Turn(r, "diff") /\ clone' \in SomeClones
           /\ UNCHANGED <<early, failed>>
  <2>1. RunType'
    BY <1>1, <1>2, <1>5, RunTypeKeeps DEF RunType, Steps
  <2>2. FlagType'
    BY <1>1, <1>2, <1>3, <1>5 DEF FlagType
  <2>3. UnstoppedIs(r)'
    BY <1>2, <1>5, TurnIs DEF UnstoppedIs, Steps
  <2> QED
    BY <1>1, <1>2, <1>5, <2>1, <2>2, <2>3, OnRunnerStep DEF Steps
<1> QED
  BY <1>4, <1>5 DEF ResolveRefspec, refs

LEMMA ComparedIs ==
    ASSUME RunType, NEW r \in Runs, Compared(r)
    PROVE  clone' = Gone \/ clone' \in SomeClones
BY DEF Compared, RunType, refs

LEMMA NoCliKeeps ==
    ASSUME ActionInv, NEW r \in Runs, NoCli(r)
    PROVE  ActionInv' /\ OthersUntouched
<1>1. step[r] = "diff" /\ UNCHANGED <<server, token, upsert, history>>
      /\ UNCHANGED <<wants, early, code>> /\ Stop(r) /\ Compared(r)
      /\ diff' = [diff EXCEPT ![r] = INPUT]
  BY DEF NoCli
<1>2. TypeOK /\ RunType /\ FlagType
  BY DEF ActionInv, TypeOK
<1>3. UNCHANGED <<skipped, disturbed>>
  BY <1>1 DEF upsert, history
<1>4. /\ diff' \in [Runs -> Codes \cup {None}] /\ \A q \in Runs \ {r} : diff'[q] = diff[q]
      /\ early' \in [Runs -> {INPUT, None}]
  BY <1>1, <1>2, CodesAre DEF RunType
<1>5. RunType'
  BY <1>1, <1>2, <1>4, StopIs, ComparedIs, RunTypeKeeps DEF Steps
<1>6. FlagType'
  BY <1>1, <1>2, <1>3, StopIs DEF FlagType
<1> QED
  BY <1>1, <1>2, <1>4, <1>5, <1>6, StopIs, OnRunnerStep DEF Steps

\* A pass that is to be said is not the end of the run.
LEMMA DiffKeeps ==
    ASSUME ActionInv, NEW r \in Runs, Diff(r)
    PROVE  ActionInv' /\ OthersUntouched
<1>1. step[r] = "diff" /\ UNCHANGED <<server, token, upsert, history>>
      /\ UNCHANGED <<wants, early, code>> /\ Compared(r)
  BY DEF Diff
<1>2. PICK exit \in {SUCCESS, RUNTIME, INPUT, GATE}, paths \in BOOLEAN, written \in BOOLEAN :
        /\ exit = SUCCESS => written
        /\ diff' = [diff EXCEPT ![r] = exit]
        /\ \/ ~paths /\ Stop(r)
           \/ /\ paths
              /\ Turn(r, IF wants[r] /\ written /\ exit \in {SUCCESS, GATE}
                         THEN "read" ELSE "exit code")
              /\ UNCHANGED failed
  BY DEF Diff
<1>3. TypeOK /\ RunType /\ FlagType
  BY DEF ActionInv, TypeOK
<1>4. UNCHANGED <<skipped, disturbed>>
  BY <1>1 DEF upsert, history
<1>5. /\ diff' \in [Runs -> Codes \cup {None}] /\ \A q \in Runs \ {r} : diff'[q] = diff[q]
      /\ diff'[r] = exit /\ early' \in [Runs -> {INPUT, None}] /\ exit # None
  BY <1>1, <1>2, <1>3, CodesAre DEF RunType, Codes
<1>6. CASE Stop(r)
  <2>1. RunType'
    BY <1>1, <1>3, <1>5, <1>6, StopIs, ComparedIs, RunTypeKeeps DEF Steps
  <2>2. FlagType'
    BY <1>1, <1>3, <1>4, <1>6, StopIs DEF FlagType
  <2> QED
    BY <1>1, <1>3, <1>5, <1>6, <2>1, <2>2, StopIs, OnRunnerStep DEF Steps
<1>7. CASE ~Stop(r)
  <2>1. PICK next \in {"read", "exit code"} :
          /\ Turn(r, next) /\ UNCHANGED failed
          /\ next = "read" => exit \in {SUCCESS, GATE}
          /\ next = "exit code" /\ exit = SUCCESS => ~wants[r]
    BY <1>2, <1>7
  <2>2. RunType'
    BY <1>1, <1>3, <1>5, <2>1, ComparedIs, RunTypeKeeps DEF Steps
  <2>3. FlagType'
    BY <1>1, <1>3, <1>4, <2>1 DEF FlagType
  <2>4. step'[r] = next
    BY <1>3, <2>1, TurnIs DEF Steps
  <2>5. UnstoppedIs(r)'
    BY <1>1, <1>5, <2>1, <2>4 DEF UnstoppedIs
  <2> QED
    BY <1>1, <1>3, <1>5, <2>1, <2>2, <2>3, <2>5, OnRunnerStep DEF Steps
<1> QED
  BY <1>6, <1>7

LEMMA ReadReportKeeps ==
    ASSUME ActionInv, NEW r \in Runs, ReadReport(r)
    PROVE  ActionInv' /\ OthersUntouched
<1>1. step[r] = "read" /\ UNCHANGED <<server, token, upsert, history>>
      /\ UNCHANGED <<clone, wants, diff, early, code>>
  BY DEF ReadReport, refs
<1>2. TypeOK /\ RunType /\ FlagType
  BY DEF ActionInv, TypeOK
<1>3. UNCHANGED <<skipped, disturbed>>
  BY <1>1 DEF upsert, history
<1>4. CASE Stop(r)
  <2>1. RunType'
    BY <1>1, <1>2, <1>4, StopIs, RunTypeKeeps DEF RunType, Steps
  <2>2. FlagType'
    BY <1>1, <1>2, <1>3, <1>4, StopIs DEF FlagType
  <2> QED
    BY <1>1, <1>2, <1>4, <2>1, <2>2, StopIs, OnRunnerStep DEF Steps
<1>5. CASE Turn(r, "list") /\ UNCHANGED failed
  <2>1. RunType'
    BY <1>1, <1>2, <1>5, RunTypeKeeps DEF RunType, Steps
  <2>2. FlagType'
    BY <1>1, <1>2, <1>3, <1>5 DEF FlagType
  <2>3. UnstoppedIs(r)'
    <3>1. diff[r] \in {SUCCESS, GATE}
      BY <1>1 DEF ActionInv, RunInv, UnstoppedIs
    <3>2. step'[r] = "list"
      BY <1>2, <1>5, TurnIs DEF Steps
    <3> QED
      BY <1>1, <3>1, <3>2 DEF UnstoppedIs
  <2> QED
    BY <1>1, <1>2, <1>5, <2>1, <2>2, <2>3, OnRunnerStep DEF Steps
<1> QED
  BY <1>4, <1>5 DEF ReadReport

\* A run nothing stopped has its diff's code, so it ends green on a pass alone.
LEMMA ExitCodeKeeps ==
    ASSUME ActionInv, NEW r \in Runs, ExitCode(r)
    PROVE  ActionInv' /\ OthersUntouched
<1>1. /\ step[r] = "exit code" /\ UNCHANGED <<server, token, upsert, history>>
      /\ UNCHANGED <<clone, wants, diff, early>> /\ Turn(r, "done")
      /\ code' = [code EXCEPT ![r] = CodeOf(r)]
      /\ failed' = [failed EXCEPT ![r] = failed[r] \/ CodeOf(r) # SUCCESS]
  BY DEF ExitCode, refs
<1>2. TypeOK /\ RunType /\ FlagType
  BY DEF ActionInv, TypeOK
<1>3. UNCHANGED <<skipped, disturbed, said>>
  BY <1>1 DEF upsert, history
<1>4. diff[r] \in Codes \cup {None} /\ early[r] \in {INPUT, None}
  BY <1>2 DEF RunType
<1>5. CodeOf(r) \in Codes /\ (diff[r] # None => CodeOf(r) = diff[r])
  BY <1>4, CodesAre DEF CodeOf
<1>6. step' \in [Runs -> Steps] /\ step'[r] = "done" /\ \A q \in Runs \ {r} : step'[q] = step[q]
  BY <1>1, <1>2, TurnIs DEF Steps
<1>7. RunType'
  <2>1. code \in [Runs -> Codes \cup {None}] /\ \A q \in Runs : code[q] # None <=> step[q] = "done"
    BY <1>2 DEF RunType
  <2>2. code' \in [Runs -> Codes \cup {None}]
        /\ \A q \in Runs : code'[q] # None <=> step'[q] = "done"
    BY <1>1, <1>5, <1>6, <2>1, CodesAre
  <2> QED
    BY <1>1, <1>2, <1>6, <2>2 DEF RunType
<1>8. /\ failed' \in [Runs -> BOOLEAN] /\ \A q \in Runs \ {r} : failed'[q] = failed[q]
      /\ ~failed'[r] => ~failed[r] /\ CodeOf(r) = SUCCESS
  <2>1. failed \in [Runs -> BOOLEAN]
    BY <1>2 DEF FlagType
  <2> QED
    BY <1>1, <2>1
<1>9. FlagType'
  BY <1>1, <1>2, <1>3, <1>8 DEF FlagType
<1>10. UnstoppedIs(r)'
  <2>1. ~failed[r] => diff[r] # None /\ (diff[r] = SUCCESS /\ wants[r] => Report[r] \in said)
    BY <1>1 DEF ActionInv, RunInv, UnstoppedIs
  <2> QED
    BY <1>1, <1>3, <1>5, <1>6, <1>8, <2>1 DEF UnstoppedIs
<1> QED
  BY <1>1, <1>7, <1>8, <1>9, <1>10, OnRunnerStep DEF Steps

-----------------------------------------------------------------------------
(* The steps of the comment script *)

LEMMA ForgetIs ==
    ASSUME UpsertType, FlagType, NEW r \in Runs, Forget(r)
    PROVE  /\ UpsertType' /\ skipped' \in [Runs -> BOOLEAN]
           /\ page'[r] = 1 /\ self'[r] = None
           /\ \A q \in Runs \ {r} : /\ page'[q] = page[q] /\ self'[q] = self[q]
                                    /\ skipped'[q] = skipped[q] /\ existing'[q] = existing[q]
<1>1. /\ page' = [page EXCEPT ![r] = 1] /\ self' = [self EXCEPT ![r] = None]
      /\ skipped' = [skipped EXCEPT ![r] = FALSE]
      /\ existing' = [existing EXCEPT ![r] = NoComment]
  BY DEF Forget
<1>2. page \in [Runs -> Nat \ {0}] /\ self \in [Runs -> {None, "the poster", "refused"}]
  BY DEF UpsertType
<1>3. existing \in [Runs -> CommentType \cup {NoComment}]
  BY DEF UpsertType
<1>4. skipped \in [Runs -> BOOLEAN]
  BY DEF FlagType
<1>5. page' \in [Runs -> Nat \ {0}] /\ self' \in [Runs -> {None, "the poster", "refused"}]
      /\ page'[r] = 1 /\ self'[r] = None
      /\ \A q \in Runs \ {r} : page'[q] = page[q] /\ self'[q] = self[q]
  <2>1. 1 \in Nat \ {0} /\ None \in {None, "the poster", "refused"}
    OBVIOUS
  <2>2. /\ page' \in [Runs -> Nat \ {0}] /\ page'[r] = 1
        /\ \A q \in Runs \ {r} : page'[q] = page[q]
    BY <1>1, <1>2, <2>1
  <2>3. /\ self' \in [Runs -> {None, "the poster", "refused"}] /\ self'[r] = None
        /\ \A q \in Runs \ {r} : self'[q] = self[q]
    BY <1>1, <1>2, <2>1
  <2> QED
    BY <2>2, <2>3
<1>6. existing' \in [Runs -> CommentType \cup {NoComment}]
      /\ \A q \in Runs \ {r} : existing'[q] = existing[q]
  BY <1>1, <1>3
<1>7. skipped' \in [Runs -> BOOLEAN] /\ \A q \in Runs \ {r} : skipped'[q] = skipped[q]
  BY <1>1, <1>4
<1> QED
  BY <1>5, <1>6, <1>7 DEF UpsertType

\* The script ends: a run it did not fail has its report on the pull request.
LEMMA ScriptEnds ==
    ASSUME ActionInv, NEW r \in Runs, step[r] \in {"list", "create", "update"},
           Answer(r), Forget(r), UNCHANGED <<token, refs, wants, diff, early, code>>,
           ServerType', SaidIsKept', CleanIsPosted', OneComment', OthersUntouched,
           \A q \in Runs : SameRun(q) => RunInv(q)',
           disturbed' \in [Runs -> BOOLEAN],
           Stop(r) \/ Report[r] \in said'
    PROVE  ActionInv' /\ OthersUntouched
<1>1. TypeOK /\ RunType /\ FlagType /\ UpsertType
  BY DEF ActionInv, TypeOK
<1>2. Turn(r, "exit code")
  BY DEF Answer, Stop, Turn
<1>3. UNCHANGED <<token, clone, wants, diff, early, code>>
  BY DEF refs
<1>4. RunType'
  BY <1>1, <1>2, <1>3, RunTypeKeeps DEF RunType, Steps
<1>5. step'[r] = "exit code" /\ \A q \in Runs \ {r} : step'[q] = step[q]
  BY <1>1, <1>2, TurnIs DEF Steps
<1>6. /\ UpsertType' /\ skipped' \in [Runs -> BOOLEAN]
      /\ page'[r] = 1 /\ self'[r] = None
      /\ \A q \in Runs \ {r} : /\ page'[q] = page[q] /\ self'[q] = self[q]
                               /\ skipped'[q] = skipped[q] /\ existing'[q] = existing[q]
  BY <1>1, ForgetIs
<1>7. failed' \in [Runs -> BOOLEAN] /\ \A q \in Runs \ {r} : failed'[q] = failed[q]
  <2>1. CASE Stop(r)
    BY <1>1, <2>1, StopIs
  <2>2. CASE UNCHANGED failed
    BY <1>1, <2>2 DEF FlagType
  <2> QED
    BY <2>1, <2>2 DEF Answer
<1>8. FlagType'
  BY <1>1, <1>3, <1>6, <1>7 DEF FlagType
<1>9. \A q \in Runs \ {r} : RunInv(q)'
  BY <1>3, <1>5, <1>6, <1>7 DEF SameRun
<1>10. UnstoppedIs(r)'
  <2>1. CASE Stop(r)
    BY <1>1, <2>1, StopIs
  <2>2. CASE Report[r] \in said'
    <3>1. diff[r] \in {SUCCESS, GATE} /\ diff[r] # None
      BY CodesAre DEF ActionInv, RunInv, UnstoppedIs
    <3> QED
      BY <1>3, <1>5, <2>2, <3>1 DEF UnstoppedIs
  <2> QED
    BY <2>1, <2>2
<1>11. RunInv(r)'
  <2>1. comments' \in Seq(CommentType)
    BY DEF ServerType
  <2>2. AskedBy(r)' /\ UnseenBy(r)' /\ InStepWith(r)' /\ FoundBy(r)' /\ FreshFor(r)'
    BY <1>5, <1>6, <2>1, OutsideTheScript
  <2> QED
    BY <1>10, <2>2 DEF RunInv
<1> QED
  BY <1>4, <1>6, <1>8, <1>9, <1>11 DEF ActionInv, TypeOK

\* The page read, a comment of its own found or not: what was passed is nobody's the run may rewrite.
LEMMA ListPageKeeps ==
    ASSUME ActionInv, NEW r \in Runs, ListPage(r)
    PROVE  ActionInv' /\ OthersUntouched
<1>1. step[r] = "list" /\ UNCHANGED <<server, token, refs, action, history>>
  BY DEF ListPage
<1>2. PICK rows, asks, who, own :
        /\ rows = PageOf(page[r])
        /\ asks = (self[r] = None /\ \E c \in Range(rows) : c.reads /\ c.marked)
        /\ who = IF asks THEN Poster ELSE self[r]
        /\ own = FirstOwn(rows, who)
  OBVIOUS
<1>3. /\ self' = [self EXCEPT ![r] = who]
      /\ skipped' = [skipped EXCEPT ![r] = skipped[r] \/ \E i \in RowsRead(rows, who) : ~rows[i].reads]
      /\ existing' = [existing EXCEPT ![r] = own]
      /\ IF own = NoComment /\ ~LastPage(rows)
         THEN page' = [page EXCEPT ![r] = page[r] + 1] /\ UNCHANGED step
         ELSE /\ Turn(r, IF own = NoComment THEN "create" ELSE "update")
              /\ UNCHANGED page
  BY <1>2 DEF ListPage
<1>4. UNCHANGED <<comments, ids, said, disturbed, clone, wants, diff, early, failed, code>>
  BY <1>1 DEF server, refs, action, history
<1>5. /\ TypeOK /\ ServerType /\ RunType /\ FlagType /\ UpsertType
      /\ comments \in Seq(CommentType) /\ token \in {"personal", "installation"}
  BY DEF ActionInv, TypeOK, ServerType, RunType
<1>6. page \in [Runs -> Nat \ {0}] /\ self \in [Runs -> {None, "the poster", "refused"}]
      /\ step \in [Runs -> Steps]
  BY <1>5 DEF UpsertType, RunType
<1>7. skipped \in [Runs -> BOOLEAN] /\ existing \in [Runs -> CommentType \cup {NoComment}]
  BY <1>5 DEF UpsertType, FlagType
<1>8. /\ AskedBy(r) /\ UnseenBy(r) /\ InStepWith(r) /\ UnstoppedIs(r)
  BY DEF ActionInv, RunInv
<1>9. PICK off : off = (page[r] - 1) * PER_PAGE
  OBVIOUS
<1>10. /\ off \in Nat /\ page[r] * PER_PAGE = off + PER_PAGE
       /\ rows \in Seq(CommentType)
       /\ \A i \in DOMAIN rows : i \in Nat /\ i + off \in DOMAIN comments
                                 /\ rows[i] = comments[i + off]
       /\ \A i \in DOMAIN comments : off < i /\ i <= off + PER_PAGE =>
            i - off \in DOMAIN rows /\ comments[i] = rows[i - off]
       /\ LastPage(rows) => \A i \in DOMAIN comments : i <= off + PER_PAGE
       /\ ~LastPage(rows) => off + PER_PAGE <= Len(comments)
  <2>1. page[r] \in Nat \ {0}
    BY <1>6
  <2> QED
    BY <1>2, <1>5, <1>9, <2>1, PageRows
<1>11. \/ /\ own = NoComment
          /\ RowsRead(rows, who) = DOMAIN rows
          /\ \A i \in DOMAIN rows : ~(rows[i].reads /\ IsOwnComment(rows[i], who))
       \/ \E i \in DOMAIN rows : /\ own = rows[i]
                                 /\ rows[i].reads /\ IsOwnComment(rows[i], who)
  <2>1. rows \in Seq(CommentType) /\ own = FirstOwn(rows, who)
    BY <1>2, <1>10
  <2> QED
    BY <2>1, OwnOrRead
<1>12. \A i \in DOMAIN rows : rows[i] \in CommentType /\ rows[i] \in Range(rows)
  BY <1>10, LenProperties, ElementOfSeq DEF Range
<1>13. \A i \in DOMAIN rows : rows[i].reads =>
         (Mine(rows[i]) <=> IsOwnComment(rows[i], who))
  <2>1. ASSUME NEW i \in DOMAIN rows, rows[i].reads, rows[i].marked
        PROVE  who = Poster
    BY <1>2, <1>8, <1>12, <2>1 DEF AskedBy
  <2>2. ASSUME NEW i \in DOMAIN rows, rows[i].reads
        PROVE  Mine(rows[i]) <=> rows[i].reads /\ IsOwnComment(rows[i], Poster)
    BY <1>5, <1>12, MineIsOwn
  <2>3. \A i \in DOMAIN rows : IsOwnComment(rows[i], who) => rows[i].marked
    BY DEF IsOwnComment
  <2>4. \A i \in DOMAIN rows : Mine(rows[i]) => rows[i].marked /\ rows[i].reads
    BY DEF Mine
  <2> QED
    BY <2>1, <2>2, <2>3, <2>4
<1>14. who \in {None, Poster} /\ Poster \in {"the poster", "refused"}
  BY <1>2, <1>8 DEF AskedBy, Poster
<1>15. /\ self' \in [Runs -> {None, "the poster", "refused"}] /\ self'[r] = who
       /\ \A q \in Runs \ {r} : self'[q] = self[q]
  BY <1>3, <1>6, <1>14
<1>16. /\ skipped' \in [Runs -> BOOLEAN] /\ \A q \in Runs \ {r} : skipped'[q] = skipped[q]
       /\ ~skipped'[r] => ~skipped[r] /\ \A i \in RowsRead(rows, who) : rows[i].reads
  BY <1>3, <1>7
<1>17. /\ existing' \in [Runs -> CommentType \cup {NoComment}] /\ existing'[r] = own
       /\ \A q \in Runs \ {r} : existing'[q] = existing[q]
  BY <1>3, <1>7, <1>11, <1>12
<1>18. /\ ServerType' /\ SaidIsKept' /\ CleanIsPosted' /\ OneComment' /\ OthersUntouched
       /\ \A q \in Runs : SameRun(q) => RunInv(q)'
  BY <1>1, QuietKeeps
<1>19. FlagType'
  BY <1>4, <1>5, <1>16 DEF FlagType
<1>20. Poster' = Poster /\ \A c : Mine(c)' <=> Mine(c)
  BY <1>1, TokenStays
<1>21. AskedBy(r)'
  BY <1>14, <1>15, <1>20 DEF AskedBy
\* What the page holds up to its end, when none of it is the run's own.
<1>22. ASSUME own = NoComment, ~disturbed[r], ~skipped'[r], NEW i \in DOMAIN comments,
              i <= off + PER_PAGE
       PROVE  ~Mine(comments[i])
  <2>1. CASE i <= off
    <3>1. ReadSoFar(r) = off
      BY <1>1, <1>9 DEF ReadSoFar
    <3> QED
      BY <1>8, <1>16, <1>22, <2>1, <3>1 DEF UnseenBy
  <2>2. CASE ~(i <= off)
    <3>1. i \in Nat
      BY <1>5, UniqueIds
    <3>2. i - off \in DOMAIN rows /\ comments[i] = rows[i - off]
      BY <1>10, <1>22, <2>2, <3>1
    <3>3. CASE \E j \in DOMAIN rows : own = rows[j]
      <4>1. PICK j \in DOMAIN rows : own = rows[j]
        BY <3>3
      <4>2. own.id # 0
        <5>1. rows[j] \in Range(comments)
          BY <1>10 DEF Range
        <5> QED
          BY <1>5, <4>1, <5>1, UniqueIds
      <4> QED
        BY <1>22, <4>2 DEF NoComment, Comment
    <3>4. CASE ~\E j \in DOMAIN rows : own = rows[j]
      <4>1. /\ RowsRead(rows, who) = DOMAIN rows
            /\ \A j \in DOMAIN rows : ~(rows[j].reads /\ IsOwnComment(rows[j], who))
        BY <1>11, <3>4
      <4>2. rows[i - off].reads
        BY <1>16, <1>22, <3>2, <4>1
      <4> QED
        BY <1>13, <3>2, <4>1, <4>2
    <3> QED
      BY <3>3, <3>4
  <2> QED
    BY <2>1, <2>2
<1>23. CASE own = NoComment /\ ~LastPage(rows)
  <2>1. page' = [page EXCEPT ![r] = page[r] + 1] /\ UNCHANGED step
    BY <1>3, <1>23
  <2>2. /\ page' \in [Runs -> Nat \ {0}] /\ page'[r] = page[r] + 1
        /\ \A q \in Runs \ {r} : page'[q] = page[q]
    <3>1. page[r] \in Nat \ {0}
      BY <1>6
    <3>2. page[r] + 1 \in Nat \ {0}
      BY <3>1
    <3> QED
      BY <1>6, <2>1, <3>2
  <2>3. UpsertType'
    BY <1>15, <1>17, <2>2 DEF UpsertType
  <2>4. RunType'
    BY <1>1, <1>4, <1>5, <2>1 DEF RunType
  <2>5. \A q \in Runs \ {r} : RunInv(q)'
    BY <1>4, <1>15, <1>16, <1>17, <1>18, <2>1, <2>2 DEF SameRun
  <2>6. ReadSoFar(r)' = off + PER_PAGE
    <3>1. page[r] \in Nat
      BY <1>6
    <3>2. page'[r] = page[r] + 1
      BY <2>2
    <3>3. page'[r] - 1 = page[r]
      BY <3>1, <3>2
    <3> QED
      BY <1>1, <1>10, <2>1, <3>3 DEF ReadSoFar
  <2>7. UnseenBy(r)'
    BY <1>1, <1>4, <1>20, <1>22, <1>23, <2>1, <2>6 DEF UnseenBy
  <2>8. InStepWith(r)'
    BY <1>4, <1>10, <1>23, <2>6 DEF InStepWith
  <2>9. FoundBy(r)' /\ FreshFor(r)' /\ UnstoppedIs(r)'
    BY <1>1, <1>4, <1>8, <2>1 DEF FoundBy, FreshFor, UnstoppedIs
  <2> QED
    BY <1>18, <1>19, <1>21, <2>3, <2>4, <2>5, <2>7, <2>8, <2>9 DEF ActionInv, TypeOK, RunInv
<1>24. ASSUME NEW next \in {"create", "update"}, Turn(r, next), UNCHANGED page,
              next = "create" => own = NoComment /\ LastPage(rows),
              next = "update" => own # NoComment
       PROVE  ActionInv' /\ OthersUntouched
  <2>1. step' \in [Runs -> Steps] /\ step'[r] = next /\ \A q \in Runs \ {r} : step'[q] = step[q]
    BY <1>5, <1>24, TurnIs DEF Steps
  <2>2. UpsertType'
    BY <1>6, <1>15, <1>17, <1>24 DEF UpsertType
  <2>3. RunType'
    BY <1>1, <1>4, <1>5, <1>24, RunTypeKeeps DEF RunType, Steps
  <2>4. \A q \in Runs \ {r} : RunInv(q)'
    BY <1>4, <1>15, <1>16, <1>17, <1>18, <1>24, <2>1 DEF SameRun
  <2>5. ReadSoFar(r)' = 0
    BY <1>24, <2>1 DEF ReadSoFar
  <2>6. UnseenBy(r)'
    <3>1. \A i \in DOMAIN comments : ~(i <= 0)
      BY <1>5, LenProperties
    <3>2. next = "create" => \A i \in DOMAIN comments : i <= off + PER_PAGE
      BY <1>10, <1>24
    <3> QED
      BY <1>4, <1>20, <1>22, <1>24, <2>1, <2>5, <3>1, <3>2 DEF UnseenBy
  <2>7. InStepWith(r)'
    BY <1>4, <1>5, <2>5, LenProperties DEF InStepWith
  <2>8. FreshFor(r)' /\ UnstoppedIs(r)'
    BY <1>1, <1>4, <1>8, <1>24, <2>1 DEF FreshFor, UnstoppedIs
  <2>9. FoundBy(r)'
    <3>1. ASSUME next = "update"
          PROVE  /\ own.id \in 1..ids /\ own.text \in said
                 /\ \A i \in DOMAIN comments : comments[i].id = own.id => Mine(comments[i])
      <4>1. PICK j \in DOMAIN rows : own = rows[j] /\ rows[j].reads /\ IsOwnComment(rows[j], who)
        BY <1>11, <1>24, <3>1
      <4>2. PICK k \in DOMAIN comments : own = comments[k]
        BY <1>10, <4>1
      <4>3. Mine(comments[k])
        BY <1>13, <4>1, <4>2
      <4>4. own.id \in 1..ids
        BY <1>5, <4>2 DEF ServerType
      <4>5. own.text \in said
        BY <4>2, <4>3 DEF ActionInv, SaidIsKept
      <4>6. \A i \in DOMAIN comments : comments[i].id = own.id => Mine(comments[i])
        BY <1>5, <4>2, <4>3, UniqueIds
      <4> QED
        BY <4>4, <4>5, <4>6
    <3> QED
      BY <1>4, <1>17, <1>20, <2>1, <3>1 DEF FoundBy
  <2> QED
    BY <1>18, <1>19, <1>21, <2>2, <2>3, <2>4, <2>6, <2>7, <2>8, <2>9 DEF ActionInv, TypeOK, RunInv
<1> QED
  BY <1>3, <1>23, <1>24


\* The comment says what the report says: nothing is sent.
LEMMA SameKeeps ==
    ASSUME ActionInv, NEW r \in Runs, Same(r)
    PROVE  ActionInv' /\ OthersUntouched
<1>1. /\ step[r] = "update" /\ existing[r].text = Report[r] /\ Turn(r, "exit code") /\ Forget(r)
      /\ UNCHANGED <<server, token, refs, action, history>>
  BY DEF Same
<1>2. /\ UNCHANGED <<token, refs, wants, diff, early, code, failed>>
      /\ said' = said /\ disturbed' = disturbed
  BY <1>1 DEF action, history
<1>3. /\ ServerType' /\ SaidIsKept' /\ CleanIsPosted' /\ OneComment' /\ OthersUntouched
      /\ \A q \in Runs : SameRun(q) => RunInv(q)'
  BY <1>1, QuietKeeps
<1>4. Report[r] \in said'
  BY <1>1, <1>2 DEF ActionInv, RunInv, FoundBy
<1>5. disturbed' \in [Runs -> BOOLEAN]
  BY <1>2 DEF ActionInv, TypeOK, FlagType
<1>6. Answer(r)
  BY <1>1, <1>2 DEF Answer
<1> QED
  BY <1>1, <1>2, <1>3, <1>4, <1>5, <1>6, ScriptEnds

LEMMA UpdateKeeps ==
    ASSUME ActionInv, NEW r \in Runs, Update(r)
    PROVE  ActionInv' /\ OthersUntouched
<1>1. /\ step[r] = "update" /\ said' = said \cup {Report[r]} /\ Answer(r) /\ Forget(r)
      /\ UNCHANGED <<ids, meddled, token, refs, wants, diff, early, code, disturbed, clean>>
  BY DEF Update
<1>2. PICK k \in DOMAIN comments :
        /\ comments[k].id = existing[r].id
        /\ comments' = [comments EXCEPT ![k].text = Report[r]]
  BY DEF Update
<1>3. /\ ServerType' /\ SaidIsKept' /\ CleanIsPosted' /\ OneComment' /\ OthersUntouched
      /\ \A q \in Runs : SameRun(q) => RunInv(q)'
  BY <1>1, <1>2, RewriteKeeps
<1>4. disturbed' \in [Runs -> BOOLEAN]
  BY <1>1 DEF ActionInv, TypeOK, FlagType
<1>5. Report[r] \in said'
  BY <1>1
<1> QED
  BY <1>1, <1>3, <1>4, <1>5, ScriptEnds

\* Whatever keeps the server as it was and stops the run.
LEMMA StoppedKeeps ==
    ASSUME ActionInv, NEW r \in Runs, step[r] \in {"list", "create", "update"}, Stop(r), Forget(r),
           UNCHANGED <<server, token, refs, wants, diff, early, code, history>>
    PROVE  ActionInv' /\ OthersUntouched
<1>1. /\ ServerType' /\ SaidIsKept' /\ CleanIsPosted' /\ OneComment' /\ OthersUntouched
      /\ \A q \in Runs : SameRun(q) => RunInv(q)'
  BY QuietKeeps
<1>2. disturbed' = disturbed
  BY DEF history
<1>3. disturbed' \in [Runs -> BOOLEAN]
  BY <1>2 DEF ActionInv, TypeOK, FlagType
<1>4. Answer(r)
  BY DEF Answer
<1> QED
  BY <1>1, <1>3, <1>4, ScriptEnds

LEMMA UpdateGoneKeeps ==
    ASSUME ActionInv, NEW r \in Runs, UpdateGone(r)
    PROVE  ActionInv' /\ OthersUntouched
BY StoppedKeeps DEF UpdateGone

LEMMA RequestFailsKeeps ==
    ASSUME ActionInv, NEW r \in Runs, RequestFails(r)
    PROVE  ActionInv' /\ OthersUntouched
BY StoppedKeeps DEF RequestFails

LEMMA CreateKeeps ==
    ASSUME ActionInv, NEW r \in Runs, Create(r)
    PROVE  ActionInv' /\ OthersUntouched
<1>1. PICK c : c = Comment(ids + 1, "the poster", TRUE, Report[r], TRUE)
  OBVIOUS
<1>2. /\ step[r] = "create" /\ Posts(c) /\ Answer(r) /\ Forget(r)
      /\ clean' = IF disturbed[r] \/ skipped[r] THEN clean ELSE clean \cup {ids'}
      /\ UNCHANGED <<meddled, token, refs, wants, diff, early, code>>
  BY <1>1 DEF Create
<1>3. TypeOK /\ ServerType /\ RunType /\ ids \in Nat /\ meddled \in 0..Meddlings
  BY DEF ActionInv, TypeOK, ServerType
<1>4. ids + 1 \in Nat
  BY <1>3
<1>5. Report[r] \in Range(Report)
  BY ActionRunAssumption DEF Range
<1>6. c \in CommentType
  BY <1>1, <1>4, <1>5 DEF CommentType, Comment, Authors
<1>7. Mine(c)
  BY <1>1 DEF Mine, Comment
<1>8. Report[r] \in said'
  BY <1>1, <1>2, <1>7 DEF Posts, Comment
<1>9. \/ UNCHANGED clean
      \/ /\ clean' = clean \cup {ids'}
         /\ \A i \in DOMAIN comments : ~Mine(comments[i])
  <2>1. CASE disturbed[r] \/ skipped[r]
    BY <1>2, <2>1
  <2>2. CASE ~(disturbed[r] \/ skipped[r])
    <3>1. \A i \in DOMAIN comments : ~Mine(comments[i])
      BY <1>2, <2>2 DEF ActionInv, RunInv, UnseenBy
    <3> QED
      BY <1>2, <2>2, <3>1
  <2> QED
    BY <2>1, <2>2
<1>10. meddled' \in 0..Meddlings
  BY <1>2, <1>3
<1>11. /\ ServerType' /\ SaidIsKept' /\ CleanIsPosted' /\ OneComment' /\ OthersUntouched
       /\ disturbed' \in [Runs -> BOOLEAN]
       /\ \A q \in Runs : SameRun(q) => RunInv(q)'
  <2>1. UNCHANGED token
    BY <1>2
  <2> QED
    BY <1>2, <1>6, <1>9, <1>10, <2>1, PostKeeps
<1> QED
  BY <1>2, <1>8, <1>11, ScriptEnds

-----------------------------------------------------------------------------
(* What others do *)

LEMMA SomeoneKeeps ==
    ASSUME ActionInv, Someone
    PROVE  ActionInv' /\ OthersUntouched
<1>1. /\ meddled < Meddlings /\ meddled' = meddled + 1
      /\ UNCHANGED <<token, step, refs, action, upsert, clean>>
  BY DEF Someone
<1>2. /\ UNCHANGED <<token, step, clone, wants, diff, early, failed, code>>
      /\ UNCHANGED <<page, self, skipped, existing>> /\ UNCHANGED clean
  BY <1>1 DEF refs, action, upsert
<1>3. /\ TypeOK /\ ServerType /\ RunType /\ UpsertType /\ FlagType
      /\ ids \in Nat /\ meddled \in 0..Meddlings
  BY DEF ActionInv, TypeOK, ServerType
<1>4. meddled' \in 0..Meddlings
  BY <1>1, <1>3, ActionRunAssumption
<1>5. /\ ServerType' /\ SaidIsKept' /\ CleanIsPosted' /\ OneComment' /\ OthersUntouched
      /\ disturbed' \in [Runs -> BOOLEAN]
      /\ \A q \in Runs : SameRun(q) => RunInv(q)'
  <2>1. ASSUME NEW c \in Theirs, Posts([c EXCEPT !.id = ids + 1])
        PROVE  /\ ServerType' /\ SaidIsKept' /\ CleanIsPosted' /\ OneComment' /\ OthersUntouched
               /\ disturbed' \in [Runs -> BOOLEAN]
               /\ \A q \in Runs : SameRun(q) => RunInv(q)'
    <3>1. c \in CommentType
      BY ActionRunAssumption
    <3>2. ids + 1 \in Nat
      BY <1>3
    <3>3. [c EXCEPT !.id = ids + 1] \in CommentType
      BY <3>1, <3>2 DEF CommentType
    <3> QED
      BY <1>2, <1>4, <2>1, <3>3, PostKeeps
  <2>2. ASSUME NEW k \in DOMAIN comments, comments' = RemoveAt(comments, k),
               disturbed' = [r \in Runs |-> disturbed[r] \/ k <= ReadSoFar(r)],
               UNCHANGED <<ids, said>>
        PROVE  /\ ServerType' /\ SaidIsKept' /\ CleanIsPosted' /\ OneComment' /\ OthersUntouched
               /\ disturbed' \in [Runs -> BOOLEAN]
               /\ \A q \in Runs : SameRun(q) => RunInv(q)'
    BY <1>2, <1>4, <2>2, RemoveKeeps
  <2> QED
    BY <2>1, <2>2 DEF Someone
<1>6. \A q \in Runs : SameRun(q)
  BY <1>2 DEF SameRun
<1>7. RunType'
  BY <1>2, <1>3 DEF RunType
<1>8. UpsertType'
  BY <1>2, <1>3 DEF UpsertType
<1>9. FlagType'
  BY <1>2, <1>3, <1>5 DEF FlagType
<1> QED
  BY <1>5, <1>6, <1>7, <1>8, <1>9 DEF ActionInv, TypeOK

-----------------------------------------------------------------------------
(* The runs together *)

LEMMA InitAction ==
    ASSUME Init
    PROVE  ActionInv
<1>1. /\ token \in {"personal", "installation"} /\ comments \in Starts /\ ids = Len(comments)
      /\ meddled = 0 /\ clone = Gone
      /\ step = [r \in Runs |-> IF r = FirstRun THEN "validate" ELSE "read"]
      /\ diff = [r \in Runs |-> IF r = FirstRun THEN None ELSE SUCCESS]
      /\ early = [r \in Runs |-> None] /\ code = [r \in Runs |-> None]
      /\ page = [r \in Runs |-> 1] /\ self = [r \in Runs |-> None]
      /\ existing = [r \in Runs |-> NoComment]
      /\ said = {c.text : c \in {c \in Range(comments) : Mine(c)}}
      /\ clean = {}
  BY DEF Init
<1>2. /\ wants = [r \in Runs |-> TRUE] /\ failed = [r \in Runs |-> FALSE]
      /\ skipped = [r \in Runs |-> FALSE] /\ disturbed = [r \in Runs |-> FALSE]
  BY DEF Init
<1>3. /\ comments \in Seq(CommentType) /\ ids \in Nat
      /\ DOMAIN comments = 1..ids /\ \A i \in DOMAIN comments : comments[i].id = i
  <2>1. /\ comments \in Seq(CommentType)
        /\ \A i \in DOMAIN comments : comments[i].id = i
    BY <1>1, ActionRunAssumption
  <2> QED
    BY <1>1, <2>1, LenProperties
<1>4. ServerType
  <2>1. meddled \in 0..Meddlings
    BY <1>1, ActionRunAssumption
  <2> QED
    BY <1>3, <2>1 DEF ServerType
<1>5. RunType
  <2>1. step \in [Runs -> Steps] /\ \A r \in Runs : step[r] # "done"
    BY <1>1 DEF Steps
  <2>2. diff \in [Runs -> Codes \cup {None}] /\ early \in [Runs -> {INPUT, None}]
    BY <1>1, CodesAre
  <2>3. code \in [Runs -> Codes \cup {None}] /\ \A r \in Runs : code[r] = None
    BY <1>1
  <2> QED
    BY <1>1, <2>1, <2>2, <2>3 DEF RunType
<1>6. UpsertType
  <2>1. page \in [Runs -> Nat \ {0}]
    <3>1. 1 \in Nat \ {0}
      OBVIOUS
    <3> QED
      BY <1>1, <3>1
  <2> QED
    BY <1>1, <2>1 DEF UpsertType
<1>7. FlagType
  BY <1>2 DEF FlagType
<1>8. SaidIsKept
  <2>1. ASSUME NEW i \in DOMAIN comments, Mine(comments[i])
        PROVE  comments[i].text \in said
    <3>1. comments[i] \in Range(comments)
      BY DEF Range
    <3> QED
      BY <1>1, <2>1, <3>1
  <2> QED
    BY <2>1 DEF SaidIsKept
<1>9. CleanIsPosted /\ OneComment
  BY <1>1 DEF CleanIsPosted, OneComment
<1>10. ASSUME NEW r \in Runs
       PROVE  RunInv(r)
  <2>1. page[r] = 1 /\ self[r] = None /\ step[r] \in {"validate", "read"}
    BY <1>1
  <2>2. ReadSoFar(r) = 0
    BY <2>1 DEF ReadSoFar
  <2>3. UnseenBy(r)
    <3>1. \A i \in DOMAIN comments : ~(i <= 0)
      BY <1>3
    <3> QED
      BY <2>1, <2>2, <3>1 DEF UnseenBy
  <2>4. InStepWith(r)
    BY <1>1, <1>3, <2>2 DEF InStepWith
  <2>5. AskedBy(r) /\ FoundBy(r) /\ FreshFor(r)
    BY <2>1 DEF AskedBy, FoundBy, FreshFor
  <2>6. step[r] = "read" => diff[r] = SUCCESS
    BY <1>1
  <2>7. UnstoppedIs(r)
    BY <2>1, <2>6 DEF UnstoppedIs
  <2> QED
    BY <2>3, <2>4, <2>5, <2>7 DEF RunInv
<1> QED
  BY <1>4, <1>5, <1>6, <1>7, <1>8, <1>9, <1>10 DEF ActionInv, TypeOK

LEMMA NextKeeps ==
    ASSUME ActionInv, [Next]_vars
    PROVE  ActionInv' /\ OthersUntouched
<1>1. ASSUME NEW r \in Runs, OnRunner(r)
      PROVE  ActionInv' /\ OthersUntouched
  BY <1>1, ValidateKeeps, SetupKeeps, ResolveRefspecKeeps, NoCliKeeps, DiffKeeps,
     ReadReportKeeps, ExitCodeKeeps DEF OnRunner
<1>2. ASSUME NEW r \in Runs, Request(r)
      PROVE  ActionInv' /\ OthersUntouched
  BY <1>2, ListPageKeeps, SameKeeps, UpdateKeeps, UpdateGoneKeeps, CreateKeeps,
     RequestFailsKeeps DEF Request
<1>3. ASSUME UNCHANGED vars
      PROVE  ActionInv' /\ OthersUntouched
  <2>1. /\ UNCHANGED <<server, token, history>> /\ UNCHANGED disturbed
        /\ UNCHANGED <<step, clone, wants, diff, early, failed, code>>
        /\ UNCHANGED <<page, self, skipped, existing>> /\ UNCHANGED token
    BY <1>3 DEF vars, refs, action, upsert, history
  <2>2. /\ ServerType' /\ SaidIsKept' /\ CleanIsPosted' /\ OneComment' /\ OthersUntouched
        /\ \A q \in Runs : SameRun(q) => RunInv(q)'
    BY <2>1, QuietKeeps
  <2>3. \A q \in Runs : SameRun(q)
    BY <2>1 DEF SameRun
  <2>4. RunType'
    BY <2>1 DEF ActionInv, TypeOK, RunType
  <2>5. UpsertType'
    BY <2>1 DEF ActionInv, TypeOK, UpsertType
  <2>6. FlagType'
    BY <2>1 DEF ActionInv, TypeOK, FlagType
  <2> QED
    BY <2>2, <2>3, <2>4, <2>5, <2>6 DEF ActionInv, TypeOK
<1> QED
  BY <1>1, <1>2, <1>3, SomeoneKeeps DEF Next

LEMMA ActionInvHolds == Spec => []ActionInv
<1>1. Init => ActionInv
  BY InitAction
<1>2. ActionInv /\ [Next]_vars => ActionInv'
  BY NextKeeps
<1> QED
  BY <1>1, <1>2, PTL DEF Spec

\* However the runs' requests and other people's comments fall between one another, a run that
\* ends green had its diff pass, and its report has stood in a comment of the account's
\* (upsert-comment.mjs, exit-code-step.sh).
THEOREM GreenHasSaidItHolds == Spec => []GreenHasSaidIt
<1>1. ActionInv => GreenHasSaidIt
  BY DEF ActionInv, RunInv, UnstoppedIs, GreenHasSaidIt
<1> QED
  BY <1>1, ActionInvHolds, PTL

\* No run posts a second comment it could have seen, and none rewrites a comment that is not the
\* account's, whatever others post and delete between its pages (upsert-comment.mjs).
THEOREM OneOwnCommentHolds == Spec => OneOwnComment
<1>1. ActionInv /\ [Next]_vars => TypeOK' /\ OneComment' /\ OthersUntouched
  BY NextKeeps DEF ActionInv
<1>2. ActionInv /\ [Next]_vars => [TypeOK' /\ OneComment' /\ OthersUntouched]_vars
  BY <1>1
<1> QED
  BY <1>2, ActionInvHolds, PTL DEF Spec, OneOwnComment
===============================================================================
