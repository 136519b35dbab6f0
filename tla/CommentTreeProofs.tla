------------------------- MODULE CommentTreeProofs -------------------------
(***************************************************************************)
(* Proofs about CommentTree and CommentLevels, for any number of comments. *)
(***************************************************************************)
EXTENDS CommentLevels, FiniteSetTheorems, TLAPS

LEMMA AttachKeepsType ==
  ASSUME TypeOK, NEW c \in Comments, NEW p \in Comments, Attach(c, p)
  PROVE  /\ parent' \in [Comments -> Comments \union {NotLoaded}]
         /\ children' \in [Comments -> Seq(Comments)]
<1>1. Append(children[p], c) \in Seq(Comments)
  BY DEF TypeOK
<1> QED BY <1>1 DEF TypeOK, Attach

LEMMA AdvanceKeepsType ==
  ASSUME TypeOK, NEW next \in {"rest", "built"}, Advance(next)
  PROVE  /\ i' \in Comments
         /\ pc' \in {"replies", "rest", "built"}
BY NAssumption DEF TypeOK, Advance, Comments

THEOREM TypeCorrect == Spec => []TypeOK
<1> USE NAssumption
<1>1. Init => TypeOK
  BY DEF Init, Threads, TypeOK, Comments
<1>2. TypeOK /\ [Next]_vars => TypeOK'
  <2> SUFFICES ASSUME TypeOK, [Next]_vars
               PROVE  TypeOK'
    OBVIOUS
  <2>1. i \in Comments /\ 0 \in Comments
    BY DEF TypeOK, Comments
  <2>2. CASE ReplyStep
    <3>1. Advance("rest") /\ replyTo' = replyTo
      BY <2>2 DEF ReplyStep
    <3>2. \/ UNCHANGED <<parent, children>>
          \/ replyTo[i] \in Comments /\ Attach(i, replyTo[i])
      BY <2>1, <2>2 DEF ReplyStep, TypeOK
    <3> QED
      BY <2>1, <3>1, <3>2, AttachKeepsType, AdvanceKeepsType DEF TypeOK
  <2>3. CASE RestStep
    <3>1. Advance("built") /\ replyTo' = replyTo
      BY <2>3 DEF RestStep
    <3>2. UNCHANGED <<parent, children>> \/ Attach(i, 0)
      BY <2>3 DEF RestStep
    <3> QED
      BY <2>1, <3>1, <3>2, AttachKeepsType, AdvanceKeepsType DEF TypeOK
  <2>4. CASE UNCHANGED vars
    BY <2>4 DEF vars, TypeOK
  <2> QED BY <2>2, <2>3, <2>4 DEF Next, Rendered
<1> QED BY <1>1, <1>2, PTL DEF Spec
-----------------------------------------------------------------------------
\* The parent that the loops have given to comment c so far: the first loop has
\* seen the comments before i, or all, and then so has the second.
GivenParent(c) ==
  IF replyTo[c] # NotLoaded
    THEN IF pc = "replies" /\ c >= i THEN NotLoaded ELSE replyTo[c]
    ELSE IF c # 0 /\ (pc = "built" \/ (pc = "rest" /\ c < i)) THEN 0
                                                            ELSE NotLoaded

ParentInv ==
  /\ replyTo \in Threads
  /\ \A c \in Comments : parent[c] = GivenParent(c)

\* A step of a loop leaves the tree alone, or hangs comment i under a parent it
\* did not have and moves on.
LEMMA StepAttaches ==
  ASSUME TypeOK, ParentInv, [Next]_vars
  PROVE  /\ replyTo' = replyTo
         /\ \/ UNCHANGED <<parent, children>>
            \/ /\ parent[i] = NotLoaded
               /\ Attach(i, IF replyTo[i] = NotLoaded THEN 0 ELSE replyTo[i])
               /\ pc = IF replyTo[i] = NotLoaded THEN "rest" ELSE "replies"
<1> USE NAssumption DEF TypeOK, Comments, ParentInv, GivenParent
<1>1. CASE ReplyStep
  BY <1>1 DEF ReplyStep
<1>2. CASE RestStep
  BY <1>2 DEF RestStep
<1>3. CASE UNCHANGED vars
  BY <1>3 DEF vars
<1> QED BY <1>1, <1>2, <1>3 DEF Next, Rendered

LEMMA StepKeepsParentInv ==
  ASSUME TypeOK, ParentInv, [Next]_vars
  PROVE  ParentInv'
<1> USE NAssumption DEF TypeOK, Comments, ParentInv, GivenParent
<1>1. replyTo' = replyTo /\ replyTo[0] = NotLoaded
  BY StepAttaches DEF Threads
<1>2. CASE ReplyStep
  BY <1>1, <1>2 DEF ReplyStep, Attach, Advance
<1>3. CASE RestStep
  BY <1>1, <1>3 DEF RestStep, Attach, Advance
<1>4. CASE UNCHANGED vars
  BY <1>1, <1>4 DEF vars
<1> QED BY <1>2, <1>3, <1>4 DEF Next, Rendered

THEOREM ParentsGiven == Spec => [](TypeOK /\ ParentInv)
<1>1. Init => ParentInv
  BY NAssumption DEF Init, ParentInv, GivenParent, Comments
<1>2. TypeOK /\ ParentInv /\ [Next]_vars => ParentInv'
  BY StepKeepsParentInv
<1> QED BY <1>1, <1>2, TypeCorrect, PTL DEF Spec

\* Every comment that was loaded is on the page, for any number of comments in
\* any order.
THEOREM AllShown == Spec => []EveryCommentShown
<1>1. TypeOK /\ ParentInv => EveryCommentShown
  <2> SUFFICES ASSUME TypeOK, ParentInv, pc = "built"
               PROVE  EveryCommentShown
    BY DEF EveryCommentShown
  <2> USE NAssumption DEF Comments
  <2>1. replyTo[0] = NotLoaded /\ Acyclic(replyTo, Comments)
    BY DEF ParentInv, Threads
  <2>2. /\ parent[0] = NotLoaded
        /\ \A c \in Comments \ {0} :
             parent[c] = IF replyTo[c] = NotLoaded THEN 0 ELSE replyTo[c]
    BY <2>1 DEF ParentInv, GivenParent
  <2>3. \A c \in Comments \ {0} : parent[c] \in Comments
    BY <2>2 DEF TypeOK
  <2>4. ASSUME NEW S \in SUBSET Comments, S # {}
        PROVE  \E c \in S : parent[c] \notin S
    <3>1. CASE 0 \in S
      <4>1. NotLoaded \notin S
        <5>1. NotLoaded \notin Comments /\ S \subseteq Comments
          OBVIOUS
        <5> QED BY <5>1
      <4> QED BY <2>2, <3>1, <4>1
    <3>2. CASE 0 \notin S
      <4>1. PICK c \in S : replyTo[c] \notin S
        BY <2>1, <2>4 DEF Acyclic
      <4> QED BY <2>2, <3>2, <4>1
    <3> QED BY <3>1, <3>2
  <2> QED BY <2>2, <2>3, <2>4 DEF EveryCommentShown, Acyclic
<1> QED BY <1>1, ParentsGiven, PTL

\* A comment stands under what it replied to, for any number of comments.
THEOREM RepliesFound == Spec => []RepliesUnderParent
<1>1. TypeOK /\ ParentInv => RepliesUnderParent
  BY NAssumption DEF TypeOK, ParentInv, GivenParent, RepliesUnderParent,
                     Comments
<1> QED BY <1>1, ParentsGiven, PTL
-----------------------------------------------------------------------------
LEMMA StepKeepsChildren ==
  ASSUME TypeOK, ParentInv, ChildrenMatchParents, [Next]_vars
  PROVE  ChildrenMatchParents'
<1>1. CASE UNCHANGED <<parent, children>>
  BY <1>1 DEF ChildrenMatchParents
<1>2. ASSUME NEW q \in Comments, parent[i] = NotLoaded, Attach(i, q)
      PROVE  ChildrenMatchParents'
  <2> SUFFICES ASSUME NEW p \in Comments
               PROVE  ToSet(children'[p]) = {c \in Comments : parent'[c] = p}
    BY DEF ChildrenMatchParents
  <2>1. i \in Comments /\ NotLoaded \notin Comments
    BY NAssumption DEF TypeOK, Comments
  <2>2. parent' = [parent EXCEPT ![i] = q]
    BY <1>2 DEF Attach
  <2>3. ToSet(children[p]) = {c \in Comments : parent[c] = p}
    BY DEF ChildrenMatchParents
  <2>4. CASE p # q
    <3>1. children'[p] = children[p]
      BY <1>2, <2>4 DEF Attach, TypeOK
    <3>2. {c \in Comments : parent'[c] = p} = {c \in Comments : parent[c] = p}
      BY <1>2, <2>1, <2>2, <2>4 DEF TypeOK
    <3> QED BY <2>3, <3>1, <3>2
  <2>5. CASE p = q
    <3>1. children'[p] = Append(children[p], i) /\ children[p] \in Seq(Comments)
      BY <1>2, <2>5 DEF Attach, TypeOK
    <3>2. ToSet(children'[p]) = ToSet(children[p]) \union {i}
      BY <3>1, <2>1 DEF ToSet
    <3>3. {c \in Comments : parent'[c] = p}
            = {c \in Comments : parent[c] = p} \union {i}
      BY <2>1, <2>2, <2>5 DEF TypeOK
    <3> QED BY <2>3, <3>2, <3>3
  <2> QED BY <2>4, <2>5
<1>3. 0 \in Comments
  BY NAssumption DEF Comments
<1> QED BY <1>1, <1>2, <1>3, StepAttaches DEF TypeOK
\* Parent and Children agree, for any number of comments.
THEOREM ChildrenMatch == Spec => []ChildrenMatchParents
<1>1. Init => ChildrenMatchParents
  BY NAssumption DEF Init, ChildrenMatchParents, ToSet, Comments
<1>2. TypeOK /\ ParentInv /\ ChildrenMatchParents /\ [Next]_vars
        => ChildrenMatchParents'
  BY StepKeepsChildren
<1> QED BY <1>1, <1>2, ParentsGiven, PTL DEF Spec
-----------------------------------------------------------------------------
LEMMA StepKeepsOrder ==
  ASSUME TypeOK, ParentInv, ChildrenMatchParents, ChildrenInOrder, [Next]_vars
  PROVE  ChildrenInOrder'
<1> DEFINE q == IF replyTo[i] = NotLoaded THEN 0 ELSE replyTo[i]
<1>1. i \in Comments /\ q \in Comments /\ replyTo' = replyTo
  BY NAssumption, StepAttaches DEF TypeOK, Comments
<1>2. CASE UNCHANGED <<parent, children>>
  BY <1>1, <1>2 DEF ChildrenInOrder, Before
<1>3. CASE /\ Attach(i, q)
           /\ pc = IF replyTo[i] = NotLoaded THEN "rest" ELSE "replies"
  <2> SUFFICES ASSUME NEW p \in Comments, NEW m \in 1..Len(children'[p]),
                      NEW n \in 1..Len(children'[p]), m < n
               PROVE  Before(children'[p][m], children'[p][n])
    BY <1>1 DEF ChildrenInOrder, Before
  <2>1. children' = [children EXCEPT ![q] = Append(@, i)]
    BY <1>3 DEF Attach
  <2>2. children[p] \in Seq(Comments) /\ children[q] \in Seq(Comments)
    BY <1>1 DEF TypeOK
  <2>3. CASE p # q
    BY <2>1, <2>2, <2>3 DEF ChildrenInOrder, TypeOK
  <2>4. CASE p = q
    <3>1. children'[p] = Append(children[p], i)
      BY <2>1, <2>4, <1>1 DEF TypeOK
    <3>2. CASE n # Len(children[p]) + 1
      BY <2>2, <3>1, <3>2 DEF ChildrenInOrder
    <3>3. CASE n = Len(children[p]) + 1
      <4> DEFINE c == children[p][m]
      <4>1. children'[p][m] = c /\ children'[p][n] = i /\ c \in Comments
        BY <2>2, <3>1, <3>3
      <4>2. c \in ToSet(children[p])
        <5>1. m \in DOMAIN children[p]
          BY <2>2, <3>1, <3>3
        <5> QED BY <5>1 DEF ToSet
      <4>3. parent[c] = p
        <5>1. ToSet(children[p]) = {d \in Comments : parent[d] = p}
          BY DEF ChildrenMatchParents
        <5> HIDE DEF c
        <5> QED BY <4>2, <5>1
      <4>4. GivenParent(c) # NotLoaded
        BY <4>1, <4>3, NAssumption DEF ParentInv, Comments
      <4>5. Before(c, i)
        BY <1>1, <1>3, <4>1, <4>4, NAssumption
           DEF GivenParent, Before, Comments, TypeOK
      <4> QED BY <4>1, <4>5
    <3> QED BY <3>2, <3>3
  <2> QED BY <2>3, <2>4
<1> QED BY <1>2, <1>3, StepAttaches

\* Children keep the order of the list, for any number of comments.
THEOREM ChildrenOrdered == Spec => []ChildrenInOrder
<1>1. Init => ChildrenInOrder
  BY DEF Init, ChildrenInOrder
<1>2. /\ TypeOK /\ ParentInv /\ ChildrenMatchParents /\ ChildrenInOrder
      /\ [Next]_vars
      => ChildrenInOrder'
  BY StepKeepsOrder
<1> QED BY <1>1, <1>2, ParentsGiven, ChildrenMatch, PTL DEF Spec
-----------------------------------------------------------------------------
\* The levels are added to a tree that addLevelComments does not change: what
\* holds of reparentComments holds of the whole page.
THEOREM LevelsImplementTree == LevelsSpec => Spec
<1>1. LevelsInit => Init
  BY DEF LevelsInit
<1>2. [LevelsNext]_allVars => [Next]_vars
  BY DEF LevelsNext, AddLevelComments, LevelChild, NextComment, Return, Next,
         allVars
<1> QED BY <1>1, <1>2, PTL DEF LevelsSpec, Spec

Frames == [list : Seq(Comments), cur : Nat \ {0}, child : Nat \ {0}]

LEMMA CallIsFrame ==
  ASSUME NEW list \in Seq(Comments)
  PROVE  Call(list) \in Frames
BY DEF Call, Frames

LEMMA FrameFields ==
  ASSUME NEW f \in Frames, NEW n \in Nat \ {0}, NEW m \in Nat \ {0}
  PROVE  /\ [f EXCEPT !.child = m] \in Frames
         /\ [f EXCEPT !.cur = n, !.child = m] \in Frames
<1>1. [f EXCEPT !.child = m] \in Frames
  BY DEF Frames
<1>2. \A g \in Frames : [g EXCEPT !.cur = n] \in Frames
  BY DEF Frames
<1>3. [f EXCEPT !.cur = n, !.child = m] = [[f EXCEPT !.child = m] EXCEPT !.cur = n]
  BY DEF Frames
<1> QED BY <1>1, <1>2, <1>3

LEMMA LevelsKeepType ==
  ASSUME LevelsTypeOK, TypeOK', [LevelsNext]_allVars
  PROVE  LevelsTypeOK'
<1> USE DEF LevelsTypeOK
<1> DEFINE f == Running
<1>1. stack \in Seq(Frames)
  BY DEF Frames
<1>2. ASSUME stack # <<>>
      PROVE  Depth \in 1..Len(stack) /\ f \in Frames
  BY <1>1, <1>2 DEF Depth, Running
<1>3. CASE (ReplyStep \/ RestStep) /\ UNCHANGED levelVars
  BY <1>3 DEF ReplyStep, RestStep, levelVars
<1>4. CASE AddLevelComments
  <2>1. AllComments \in Seq(Comments)
    <3>1. N + 1 \in Nat /\ \A n \in 1..N + 1 : n - 1 \in Comments
      BY NAssumption DEF Comments
    <3> QED BY <3>1 DEF AllComments
  <2>2. stack' = <<Call(AllComments)>> /\ Call(AllComments) \in Frames
    BY <1>4, <2>1, CallIsFrame DEF AddLevelComments
  <2>3. stack' \in Seq(Frames)
    BY <2>2
  <2> QED BY <1>4, <2>3 DEF AddLevelComments, Frames, vars
<1>5. CASE LevelChild
  <2>1. Cur \in Comments
    BY <1>2, <1>5 DEF LevelChild, Cur, Frames
  <2>2. children[Cur] \in Seq(Comments)
    BY <2>1 DEF TypeOK
  <2>3. children[Cur][f.child] \in Comments
    BY <1>2, <1>5, <2>2 DEF LevelChild, Frames
  <2>4. (level[Cur] + 1) % LevelSize \in 0..LevelSize - 1
    BY <2>1, LevelSizeAssumption
  <2>5. level' \in [Comments -> 0..LevelSize - 1]
    BY <1>5, <2>3, <2>4 DEF LevelChild
  <2>6. [f EXCEPT !.child = @ + 1] \in Frames
    <3>1. f \in Frames /\ f.child + 1 \in Nat \ {0}
      BY <1>2, <1>5 DEF LevelChild, Frames
    <3> HIDE DEF f
    <3> QED BY <3>1, FrameFields
  <2>7. [stack EXCEPT ![Depth].child = @ + 1] \in Seq(Frames)
    BY <1>1, <1>2, <1>5, <2>6 DEF LevelChild, Running
  <2>8. stack' \in Seq(Frames)
    BY <1>5, <2>2, <2>7, CallIsFrame DEF LevelChild
  <2> QED BY <1>5, <2>5, <2>8 DEF LevelChild, Frames, vars
<1>6. CASE NextComment
  <2>1. [f EXCEPT !.cur = @ + 1, !.child = 1] \in Frames
    <3>1. f \in Frames /\ f.cur + 1 \in Nat \ {0} /\ 1 \in Nat \ {0}
      BY <1>2, <1>6 DEF NextComment, Frames
    <3> HIDE DEF f
    <3> QED BY <3>1, FrameFields, Zenon
  <2>2. stack' = [stack EXCEPT ![Depth] = [f EXCEPT !.cur = @ + 1, !.child = 1]]
    BY <1>6 DEF NextComment, Running
  <2>3. stack' \in Seq(Frames)
    <3> DEFINE g == [f EXCEPT !.cur = @ + 1, !.child = 1]
    <3>1. g \in Frames /\ stack' = [stack EXCEPT ![Depth] = g]
      BY <2>1, <2>2
    <3>2. Depth \in 1..Len(stack)
      BY <1>2, <1>6 DEF NextComment
    <3> HIDE DEF g
    <3> QED BY <1>1, <3>1, <3>2
  <2> QED BY <1>6, <2>3 DEF NextComment, Frames, vars
<1>7. CASE Return
  <2>1. stack' \in Seq(Frames)
    BY <1>1, <1>7 DEF Return, Front
  <2> QED BY <1>7, <2>1 DEF Return, Frames, vars
<1>8. CASE UNCHANGED allVars \/ (Rendered /\ UNCHANGED levelVars)
  BY <1>8 DEF allVars, vars, levelVars, Rendered
<1> QED BY <1>3, <1>4, <1>5, <1>6, <1>7, <1>8 DEF LevelsNext

THEOREM LevelsTypeCorrect == LevelsSpec => []LevelsTypeOK
<1>1. TypeOK /\ LevelsInit => LevelsTypeOK
  <2> SUFFICES ASSUME TypeOK, LevelsInit
               PROVE  LevelsTypeOK
    OBVIOUS
  <2>1. 0 \in 0..LevelSize - 1
    BY LevelSizeAssumption
  <2>2. stack \in Seq(Frames)
    BY DEF LevelsInit
  <2> QED BY <2>1, <2>2 DEF LevelsInit, LevelsTypeOK, Frames
<1>2. LevelsTypeOK /\ TypeOK' /\ [LevelsNext]_allVars => LevelsTypeOK'
  BY LevelsKeepType
<1> QED BY <1>1, <1>2, LevelsImplementTree, TypeCorrect, PTL DEF LevelsSpec
-----------------------------------------------------------------------------
\* Comment y has the level that its parent's asks for.
Leveled(y) == level[y] = (level[parent[y]] + 1) % LevelSize

\* Call f will come to comment y among the children of its parent: later in its
\* list, or at the comment it is at.
ComesTo(f, y) ==
  \E n \in 1..Len(f.list) :
    /\ f.list[n] = parent[y]
    /\ \/ f.cur < n
       \/ /\ f.cur = n
          /\ \E m \in 1..Len(children[parent[y]]) :
               f.child <= m /\ children[parent[y]][m] = y

\* A level that is wrong, because nobody has set it yet or because that of the
\* parent has changed since, will be set by a call that has not returned.
LevelsInv ==
  /\ leveled => stack = <<>>
  /\ level[0] = 0
  /\ stack # <<>> \/ leveled =>
       \A y \in Comments \ {0} :
         Leveled(y) \/ \E d \in 1..Len(stack) : ComesTo(stack[d], y)

LEMMA CommentHasPlace ==
  ASSUME TypeOK, EveryCommentShown, ChildrenMatchParents, pc = "built",
         NEW y \in Comments \ {0}
  PROVE  /\ parent[y] \in Comments
         /\ \E m \in 1..Len(children[parent[y]]) : children[parent[y]][m] = y
<1>1. parent[y] \in Comments
  BY DEF EveryCommentShown
<1>2. y \in ToSet(children[parent[y]])
  BY <1>1 DEF ChildrenMatchParents
<1>3. DOMAIN children[parent[y]] = 1..Len(children[parent[y]])
  BY <1>1 DEF TypeOK
<1> QED BY <1>1, <1>2, <1>3 DEF ToSet

LEMMA ChildIsBelow ==
  ASSUME TypeOK, EveryCommentShown, ChildrenMatchParents, pc = "built",
         NEW p \in Comments, NEW m \in 1..Len(children[p])
  PROVE  /\ children[p][m] \in Comments \ {0, p}
         /\ parent[children[p][m]] = p
<1> DEFINE x == children[p][m]
<1>1. DOMAIN children[p] = 1..Len(children[p]) /\ x \in Comments
  BY DEF TypeOK
<1>2. x \in ToSet(children[p])
  BY <1>1 DEF ToSet
<1> HIDE DEF x
<1>3. parent[x] = p
  BY <1>1, <1>2 DEF ChildrenMatchParents
<1>4. NotLoaded \notin Comments
  BY NAssumption DEF Comments
<1>5. x # 0
  BY <1>3, <1>4 DEF EveryCommentShown
<1>6. x # p
  <2>1. {x} # {} /\ {x} \in SUBSET Comments
    BY <1>1
  <2>2. \E c \in {x} : parent[c] \notin {x}
    BY <2>1 DEF EveryCommentShown, Acyclic
  <2> QED BY <1>3, <2>2
<1>7. x \in Comments \ {0, p} /\ parent[x] = p
  BY <1>1, <1>3, <1>5, <1>6
<1> QED BY <1>7 DEF x

LEMMA CurIsComment ==
  ASSUME TypeOK, stack \in Seq(Frames), stack # <<>>,
         Running.cur \in 1..Len(Running.list)
  PROVE  /\ Cur = Running.list[Running.cur]
         /\ Cur \in Comments
         /\ children[Cur] \in Seq(Comments)
<1>1. Running \in Frames
  BY DEF Running, Depth
<1>2. Running.list \in Seq(Comments)
  BY <1>1 DEF Frames
<1>3. Running.list[Running.cur] \in Comments
  BY <1>2
<1> QED BY <1>3 DEF Cur, TypeOK

LEMMA LevelsStep ==
  ASSUME LevelsTypeOK, EveryCommentShown, ChildrenMatchParents,
         LevelsInv, [LevelsNext]_allVars
  PROVE  LevelsInv'
<1> DEFINE f == Running
           Set(y) == Leveled(y) \/ \E d \in 1..Len(stack) : ComesTo(stack[d], y)
<1>1. TypeOK /\ stack \in Seq(Frames) /\ level \in [Comments -> 0..LevelSize - 1]
  BY DEF LevelsTypeOK, Frames
<1>2. ASSUME stack # <<>>
      PROVE  /\ ~leveled /\ pc = "built"
             /\ Depth \in 1..Len(stack) /\ f = stack[Depth] /\ f \in Frames
             /\ \A y \in Comments \ {0} : Set(y)
  BY <1>1, <1>2 DEF LevelsInv, LevelsTypeOK, Depth, Running
<1>3. CASE (ReplyStep \/ RestStep) /\ UNCHANGED levelVars
  <2>1. pc # "built" /\ level' = level /\ stack' = stack /\ leveled' = leveled
    BY <1>3 DEF ReplyStep, RestStep, levelVars
  <2>2. stack = <<>> /\ ~leveled
    BY <2>1 DEF LevelsTypeOK
  <2> QED BY <2>1, <2>2 DEF LevelsInv
<1>4. CASE AddLevelComments
  <2>1. /\ pc = "built" /\ stack' = <<Call(AllComments)>>
        /\ level' = level /\ leveled' = leveled /\ ~leveled
        /\ parent' = parent /\ children' = children
    BY <1>4 DEF AddLevelComments, vars
  <2>2. ASSUME NEW y \in Comments \ {0}
        PROVE  ComesTo(stack[1], y)'
    <3>1. PICK m \in 1..Len(children[parent[y]]) : children[parent[y]][m] = y
      BY <1>1, <2>1, CommentHasPlace
    <3>2. parent[y] \in Comments
      BY <1>1, <2>1, CommentHasPlace
    <3>3. /\ AllComments[parent[y] + 1] = parent[y]
          /\ parent[y] + 1 \in 1..N + 1 /\ Len(AllComments) = N + 1
      BY <3>2, NAssumption DEF AllComments, Comments
    <3>4. /\ stack'[1].list = AllComments /\ stack'[1].cur = 1
          /\ stack'[1].child = 1
      BY <2>1 DEF Call
    <3> HIDE DEF f, Set
    <3>5. stack'[1].cur < parent[y] + 1 \/ stack'[1].cur = parent[y] + 1
      BY <3>2, <3>4, NAssumption DEF Comments
    <3>6. stack'[1].child <= m
      BY <3>4
    <3> QED BY <2>1, <3>1, <3>3, <3>4, <3>5, <3>6 DEF ComesTo
  <2> QED BY <2>1, <2>2 DEF LevelsInv
<1>5. CASE LevelChild
  <2> DEFINE x == children[Cur][f.child]
             g == [f EXCEPT !.child = @ + 1]
  <2>1. /\ stack # <<>> /\ ~leveled' /\ f.cur \in 1..Len(f.list)
        /\ parent' = parent /\ children' = children
        /\ f.cur \in Nat /\ f.child \in Nat
    BY <1>2, <1>5 DEF LevelChild, Frames, vars
  <2>2. Cur = f.list[f.cur] /\ Cur \in Comments /\ children[Cur] \in Seq(Comments)
    BY <1>1, <2>1, CurIsComment
  <2>3. f.child \in 1..Len(children[Cur])
    BY <1>2, <1>5, <2>2 DEF LevelChild, Frames
  <2>4. x \in Comments \ {0, Cur} /\ parent[x] = Cur
    BY <1>1, <1>2, <2>1, <2>2, <2>3, ChildIsBelow
  <2>5. /\ level'[x] = (level[Cur] + 1) % LevelSize
        /\ \A c \in Comments : c # x => level'[c] = level[c]
    <3>1. level' = [level EXCEPT ![x] = (level[Cur] + 1) % LevelSize]
      BY <1>5 DEF LevelChild
    <3> HIDE DEF x
    <3> QED BY <1>1, <2>4, <3>1
  <2>6. /\ Len(stack') = Len(stack) + 1
        /\ \A d \in 1..Len(stack) : d # Depth => stack'[d] = stack[d]
        /\ stack'[Depth] = g
        /\ stack'[Len(stack) + 1] = Call(children[Cur])
    <3>1. stack' = Append([stack EXCEPT ![Depth] = g], Call(children[Cur]))
      BY <1>5 DEF LevelChild, Running
    <3>2. g \in Frames /\ Depth \in 1..Len(stack)
      <4>1. f \in Frames /\ f.child + 1 \in Nat \ {0}
        BY <1>2, <2>1
      <4> HIDE DEF f
      <4> QED BY <1>2, <2>1, <4>1, FrameFields
    <3>3. Call(children[Cur]) \in Frames
      BY <2>2, CallIsFrame
    <3> DEFINE k == Call(children[Cur])
    <3> HIDE DEF g, f, k
    <3> QED BY <1>1, <3>1, <3>2, <3>3 DEF k
  <2>7. g.list = f.list /\ g.cur = f.cur /\ g.child = f.child + 1
    <3> HIDE DEF f
    <3> QED BY <1>2, <2>1 DEF Frames
  <2>8. level'[0] = 0
    BY <1>1, <2>4, <2>5, NAssumption DEF LevelsInv, Comments
  <2>9. ASSUME NEW y \in Comments \ {0}
        PROVE  Leveled(y)' \/ \E d \in 1..Len(stack') : ComesTo(stack[d], y)'
    <3>1. PICK m0 \in 1..Len(children[parent[y]]) : children[parent[y]][m0] = y
      BY <1>1, <1>2, <2>1, CommentHasPlace
    <3>2. parent[y] \in Comments
      BY <1>1, <1>2, <2>1, CommentHasPlace
    <3>3. CASE y = x
      <4>1. parent'[y] = Cur /\ level'[Cur] = level[Cur]
        BY <2>1, <2>2, <2>4, <2>5, <3>3
      <4>2. level'[y] = (level[Cur] + 1) % LevelSize
        BY <2>5, <3>3
      <4> QED BY <4>1, <4>2 DEF Leveled
    <3>4. CASE y # x /\ parent[y] = x
      <4>1. /\ stack'[Len(stack) + 1].list = children[Cur]
            /\ stack'[Len(stack) + 1].cur = 1
            /\ stack'[Len(stack) + 1].child = 1
        BY <2>6 DEF Call
      <4>2. 1 < f.child \/ 1 = f.child
        BY <2>3
      <4>3. children[Cur][f.child] = parent[y]
        BY <3>4
      <4>4. 1 <= m0 /\ Len(stack) + 1 \in 1..Len(stack')
        BY <1>1, <2>6, <3>1, <3>2 DEF TypeOK
      <4> HIDE DEF f, x, g, Set
      <4>5. ComesTo(stack[Len(stack)], y)'
        BY <2>1, <2>3, <2>6, <3>1, <4>1, <4>2, <4>3, <4>4 DEF ComesTo
      <4> QED BY <4>4, <4>5, <2>6
    <3>5. CASE y # x /\ parent[y] # x
      <4> HIDE DEF f, g, Set
      <4>1. CASE Leveled(y)
        BY <2>1, <2>5, <3>2, <3>5, <4>1 DEF Leveled
      <4>2. ASSUME NEW d \in 1..Len(stack), ComesTo(stack[d], y)
            PROVE  ComesTo(stack[d], y)'
        <5>1. CASE d # Depth
          BY <2>1, <2>6, <4>2, <5>1 DEF ComesTo
        <5>2. CASE d = Depth
          <6>1. PICK n \in 1..Len(f.list) :
                  /\ f.list[n] = parent[y]
                  /\ \/ f.cur < n
                     \/ /\ f.cur = n
                        /\ \E m \in 1..Len(children[parent[y]]) :
                             f.child <= m /\ children[parent[y]][m] = y
            BY <1>2, <2>1, <4>2, <5>2 DEF ComesTo
          <6>2. CASE f.cur < n
            BY <2>1, <2>6, <2>7, <5>2, <6>1, <6>2 DEF ComesTo
          <6>3. CASE f.cur = n
            <7>1. PICK m \in 1..Len(children[parent[y]]) :
                    f.child <= m /\ children[parent[y]][m] = y
              BY <6>1, <6>3
            <7>2. parent[y] = Cur /\ m # f.child
              BY <2>2, <3>5, <6>1, <6>3, <7>1
            <7>3. m \in Nat /\ f.child + 1 <= m
              BY <2>1, <2>2, <7>1, <7>2
            <7> QED BY <2>1, <2>6, <2>7, <5>2, <6>1, <6>3, <7>1, <7>3
                    DEF ComesTo
          <6> QED BY <2>1, <6>1, <6>2, <6>3
        <5> QED BY <5>1, <5>2
      <4>3. Set(y) /\ 1..Len(stack) \subseteq 1..Len(stack')
        BY <1>1, <1>2, <2>1, <2>6
      <4> QED BY <4>1, <4>2, <4>3 DEF Set
    <3> QED BY <3>3, <3>4, <3>5
  <2> HIDE DEF f, x, g, Set
  <2> QED BY <2>1, <2>8, <2>9 DEF LevelsInv
<1>6. CASE NextComment
  <2> DEFINE g == [f EXCEPT !.cur = @ + 1, !.child = 1]
  <2>1. /\ stack # <<>> /\ ~leveled' /\ level' = level
        /\ f.cur \in 1..Len(f.list)
        /\ parent' = parent /\ children' = children
        /\ f.cur \in Nat /\ f.child \in Nat
        /\ f.child > Len(children[Cur])
    BY <1>2, <1>6 DEF NextComment, Frames, vars
  <2>2. Cur = f.list[f.cur] /\ Cur \in Comments /\ children[Cur] \in Seq(Comments)
    BY <1>1, <2>1, CurIsComment
  <2>3. g.list = f.list /\ g.cur = f.cur + 1 /\ g.child = 1
    <3> HIDE DEF f
    <3> QED BY <1>2, <2>1 DEF Frames
  <2>4. /\ Len(stack') = Len(stack)
        /\ \A d \in 1..Len(stack) : d # Depth => stack'[d] = stack[d]
        /\ stack'[Depth] = g
    <3>1. stack' = [stack EXCEPT ![Depth] = g]
      BY <1>6 DEF NextComment, Running
    <3> HIDE DEF g, f
    <3> QED BY <1>1, <1>2, <2>1, <3>1
  <2> HIDE DEF f, g
  <2>5. ASSUME NEW y \in Comments \ {0}
        PROVE  Leveled(y)' \/ \E d \in 1..Len(stack') : ComesTo(stack[d], y)'
    <3>1. PICK m0 \in 1..Len(children[parent[y]]) : children[parent[y]][m0] = y
      BY <1>1, <1>2, <2>1, CommentHasPlace
    <3>2. parent[y] \in Comments
      BY <1>1, <1>2, <2>1, CommentHasPlace
    <3>3. CASE Leveled(y)
      BY <2>1, <3>3 DEF Leveled
    <3>4. ASSUME NEW d \in 1..Len(stack), ComesTo(stack[d], y)
          PROVE  ComesTo(stack[d], y)'
      <4>1. CASE d # Depth
        BY <2>1, <2>4, <3>4, <4>1 DEF ComesTo
      <4>2. CASE d = Depth
        <5>1. PICK n \in 1..Len(f.list) :
                /\ f.list[n] = parent[y]
                /\ \/ f.cur < n
                   \/ /\ f.cur = n
                      /\ \E m \in 1..Len(children[parent[y]]) :
                           f.child <= m /\ children[parent[y]][m] = y
          BY <1>2, <2>1, <3>4, <4>2 DEF ComesTo
        <5>2. f.cur < n
          BY <2>1, <2>2, <5>1
        <5>3. f.cur + 1 < n \/ f.cur + 1 = n
          BY <2>1, <5>2
        <5>4. 1 <= m0
          BY <3>1, <3>2 DEF TypeOK
        <5> QED BY <2>1, <2>3, <2>4, <3>1, <4>2, <5>1, <5>3, <5>4 DEF ComesTo
      <4> QED BY <4>1, <4>2
    <3>5. Set(y)
      BY <1>2, <2>1
    <3> QED BY <2>4, <3>3, <3>4, <3>5 DEF Set
  <2> HIDE DEF Set
  <2> QED BY <2>1, <2>5 DEF LevelsInv
<1>7. CASE Return
  <2>1. /\ stack # <<>> /\ level' = level /\ leveled' = (Depth = 1)
        /\ f.cur > Len(f.list) /\ stack' = Front(stack)
        /\ parent' = parent /\ children' = children
    BY <1>7 DEF Return, vars
  <2>2. f.cur \in Nat /\ Len(f.list) \in Nat
    <3> HIDE DEF f
    <3> QED BY <1>2, <2>1 DEF Frames
  <2>3. /\ Len(stack') = Depth - 1
        /\ \A d \in 1..Depth - 1 : stack'[d] = stack[d]
        /\ Depth = Len(stack) /\ Depth \in Nat \ {0}
    <3>1. Depth = Len(stack) /\ Depth \in Nat \ {0}
      BY <1>1, <2>1 DEF Depth
    <3>2. stack' = SubSeq(stack, 1, Depth - 1)
      BY <2>1, <3>1 DEF Front
    <3> HIDE DEF f, Set
    <3> QED BY <1>1, <3>1, <3>2
  <2>4. leveled' => stack' = <<>>
    <3>1. stack' \in Seq(Frames)
      BY <1>1, <2>1 DEF Front
    <3>2. leveled' => Depth = 1
      BY <2>1, Zenon
    <3>3. Len(stack') = Depth - 1
      BY <2>3
    <3> HIDE DEF f, Set
    <3> QED BY <3>1, <3>2, <3>3
  <2> HIDE DEF f
  <2>5. ASSUME NEW y \in Comments \ {0}
        PROVE  Leveled(y)' \/ \E d \in 1..Len(stack') : ComesTo(stack[d], y)'
    <3>1. CASE Leveled(y)
      BY <2>1, <3>1 DEF Leveled
    <3>2. ASSUME NEW d \in 1..Len(stack), ComesTo(stack[d], y)
          PROVE  d \in 1..Len(stack') /\ ComesTo(stack[d], y)'
      <4>1. ~ComesTo(f, y)
        BY <2>1, <2>2 DEF ComesTo
      <4>2. d # Depth
        BY <1>2, <2>1, <3>2, <4>1
      <4>3. d \in 1..Depth - 1
        BY <2>3, <4>2
      <4> QED BY <2>1, <2>3, <3>2, <4>3 DEF ComesTo
    <3>3. Set(y)
      BY <1>2, <2>1
    <3> QED BY <3>1, <3>2, <3>3 DEF Set
  <2> HIDE DEF Set
  <2> QED BY <2>1, <2>4, <2>5 DEF LevelsInv
<1>8. CASE UNCHANGED allVars \/ (Rendered /\ UNCHANGED levelVars)
  BY <1>8 DEF allVars, vars, levelVars, Rendered, LevelsInv, Leveled, ComesTo
<1> QED BY <1>3, <1>4, <1>5, <1>6, <1>7, <1>8 DEF LevelsNext

\* The levels on a page are the depths of its comments, modulo the size of the
\* type, for any thread, any list order and any size.
THEOREM LevelsCorrect == LevelsSpec => []LevelIsDepth
<1>1. LevelsInit => LevelsInv
  BY NAssumption DEF LevelsInit, LevelsInv, Comments
<1>2. /\ LevelsTypeOK /\ EveryCommentShown /\ ChildrenMatchParents
      /\ LevelsInv /\ [LevelsNext]_allVars
      => LevelsInv'
  BY LevelsStep
<1>3. LevelsTypeOK /\ LevelsInv => LevelIsDepth
  BY DEF LevelsInv, LevelIsDepth, Leveled
<1> QED BY <1>1, <1>2, <1>3, LevelsTypeCorrect, LevelsImplementTree, AllShown,
           ChildrenMatch, PTL DEF LevelsSpec
-----------------------------------------------------------------------------
\* Every call but the last is at a comment, whose children the next one is for;
\* the first is for all comments.
At(d) == stack[d].list[stack[d].cur]

CallsInv ==
  /\ stack # <<>> => stack[1].list = AllComments
  /\ \A d \in 1..Len(stack) - 1 :
       /\ stack[d].cur \in 1..Len(stack[d].list)
       /\ children[At(d)] # <<>>
       /\ stack[d + 1].list = children[At(d)]

\* addLevelComments calls itself no deeper than there are comments on the page.
RecursionIsBounded == Len(stack) <= N + 1

LEMMA CallsStep ==
  ASSUME LevelsTypeOK, TypeOK, CallsInv, [LevelsNext]_allVars
  PROVE  CallsInv'
<1> DEFINE f == Running
<1>1. stack \in Seq(Frames)
  BY DEF LevelsTypeOK, Frames
<1>2. ASSUME stack # <<>>
      PROVE  /\ pc = "built" /\ Depth \in 1..Len(stack) /\ Depth = Len(stack)
             /\ f = stack[Depth] /\ f \in Frames
  BY <1>1, <1>2 DEF LevelsTypeOK, Depth, Running
<1>3. CASE (ReplyStep \/ RestStep) /\ UNCHANGED levelVars
  <2>1. pc # "built" /\ stack' = stack
    BY <1>3 DEF ReplyStep, RestStep, levelVars
  <2>2. stack = <<>>
    BY <2>1 DEF LevelsTypeOK
  <2> QED
    BY <2>1, <2>2 DEF CallsInv
<1>4. CASE AddLevelComments
  <2>1. stack' = <<Call(AllComments)>>
    BY <1>4 DEF AddLevelComments
  <2> QED
    BY <2>1 DEF CallsInv, Call
<1>5. CASE LevelChild
  <2> DEFINE g == [f EXCEPT !.child = @ + 1]
             k == Call(children[Cur])
  <2>1. /\ stack # <<>> /\ f.cur \in 1..Len(f.list) /\ children' = children
        /\ f.child \in Nat \ {0} /\ f.child <= Len(children[Cur])
    BY <1>2, <1>5 DEF LevelChild, Frames, vars
  <2>2. Cur = f.list[f.cur] /\ Cur \in Comments /\ children[Cur] \in Seq(Comments)
    BY <1>1, <2>1, CurIsComment
  <2>3. children[Cur] # <<>>
    BY <2>1, <2>2
  <2>4. g \in Frames /\ k \in Frames
    <3>1. f \in Frames /\ f.child + 1 \in Nat \ {0} /\ k \in Frames
      BY <1>2, <2>1, <2>2, CallIsFrame
    <3> HIDE DEF f, k
    <3> QED
      BY <3>1, FrameFields
  <2>5. g.list = f.list /\ g.cur = f.cur /\ k.list = children[Cur]
    <3>1. k.list = children[Cur]
      BY DEF Call
    <3> HIDE DEF f, k
    <3> QED
      BY <1>2, <2>1, <3>1 DEF Frames
  <2>6. /\ Len(stack') = Len(stack) + 1
        /\ \A d \in 1..Len(stack) : d # Depth => stack'[d] = stack[d]
        /\ stack'[Depth] = g /\ stack'[Len(stack) + 1] = k
    <3>1. stack' = Append([stack EXCEPT ![Depth] = g], k)
      BY <1>5 DEF LevelChild, Running
    <3> HIDE DEF g, f, k
    <3> QED
      BY <1>1, <1>2, <2>1, <2>4, <3>1
  <2> HIDE DEF f, g, k
  <2>7. stack' # <<>> => stack'[1].list = AllComments
    BY <1>1, <1>2, <2>1, <2>5, <2>6 DEF CallsInv
  <2>8. ASSUME NEW d \in 1..Len(stack') - 1
        PROVE  /\ stack'[d].cur \in 1..Len(stack'[d].list)
               /\ children'[At(d)'] # <<>>
               /\ stack'[d + 1].list = children'[At(d)']
    <3>1. CASE d = Depth
      BY <1>2, <2>1, <2>2, <2>3, <2>5, <2>6, <3>1 DEF At
    <3>2. CASE d # Depth
      <4>1. d \in 1..Len(stack) - 1 /\ stack'[d] = stack[d]
        BY <1>1, <1>2, <2>1, <2>6, <3>2
      <4>2. d + 1 \in 1..Len(stack) /\ stack'[d + 1].list = stack[d + 1].list
        BY <1>1, <1>2, <2>1, <2>5, <2>6, <4>1
      <4> QED
        BY <2>1, <4>1, <4>2 DEF CallsInv, At
    <3> QED
      BY <3>1, <3>2
  <2> QED
    BY <2>7, <2>8 DEF CallsInv
<1>6. CASE NextComment
  <2> DEFINE g == [f EXCEPT !.cur = @ + 1, !.child = 1]
  <2>1. stack # <<>> /\ children' = children
    BY <1>6 DEF NextComment, vars
  <2>2. g.list = f.list
    <3> HIDE DEF f
    <3> QED
      BY <1>2, <2>1 DEF Frames
  <2>3. /\ Len(stack') = Len(stack)
        /\ \A d \in 1..Len(stack) : d # Depth => stack'[d] = stack[d]
        /\ stack'[Depth] = g
    <3>1. stack' = [stack EXCEPT ![Depth] = g]
      BY <1>6 DEF NextComment, Running
    <3> HIDE DEF g, f
    <3> QED
      BY <1>1, <1>2, <2>1, <3>1
  <2> HIDE DEF f, g
  <2>4. \A d \in 1..Len(stack) : stack'[d].list = stack[d].list
    BY <1>2, <2>1, <2>2, <2>3
  <2>5. \A d \in 1..Len(stack) - 1 :
          /\ d \in 1..Len(stack) /\ d + 1 \in 1..Len(stack) /\ stack'[d] = stack[d]
    BY <1>1, <1>2, <2>1, <2>3
  <2>6. 1 \in 1..Len(stack)
    BY <1>1, <1>2, <2>1
  <2> QED
    BY <2>1, <2>3, <2>4, <2>5, <2>6 DEF CallsInv, At
<1>7. CASE Return
  <2>1. stack # <<>> /\ children' = children /\ stack' = Front(stack)
    BY <1>7 DEF Return, vars
  <2>2. stack' = SubSeq(stack, 1, Len(stack) - 1) /\ Len(stack) \in Nat \ {0}
    BY <1>1, <2>1 DEF Front
  <2>3. Len(stack') = Len(stack) - 1 /\ \A d \in 1..Len(stack) - 1 : stack'[d] = stack[d]
    <3> DEFINE n == Len(stack)
    <3>1. n \in Nat \ {0} /\ n = Len(stack) /\ stack' = SubSeq(stack, 1, n - 1)
      BY <2>2
    <3> HIDE DEF f, n
    <3>2. Len(stack') = n - 1 /\ \A d \in 1..n - 1 : stack'[d] = stack[d]
      BY <1>1, <3>1
    <3> QED
      BY <3>2 DEF n
  <2>4. stack' # <<>> => 1 \in 1..Len(stack) - 1
    <3>1. stack' \in Seq(Frames)
      BY <1>1, <2>2
    <3> HIDE DEF f
    <3> QED
      BY <2>2, <2>3, <3>1
  <2>5. \A d \in 1..Len(stack') - 1 :
          /\ d \in 1..Len(stack) - 1 /\ d + 1 \in 1..Len(stack) - 1
    BY <2>2, <2>3
  <2> HIDE DEF f
  <2> QED
    BY <2>1, <2>3, <2>4, <2>5 DEF CallsInv, At
<1>8. CASE UNCHANGED allVars \/ (Rendered /\ UNCHANGED levelVars)
  BY <1>8 DEF allVars, vars, levelVars, Rendered, CallsInv, At
<1> QED BY <1>3, <1>4, <1>5, <1>6, <1>7, <1>8 DEF LevelsNext

\* The comments that the calls are at, and a child of the last of them, are all
\* different: one above the other in the tree.
LEMMA CallsFitTree ==
  ASSUME LevelsTypeOK, CallsInv, EveryCommentShown, ChildrenMatchParents
  PROVE  RecursionIsBounded
<1>1. /\ TypeOK /\ stack \in Seq(Frames) /\ Len(stack) \in Nat
      /\ 0 \in Comments /\ N \in Nat
  BY NAssumption DEF LevelsTypeOK, Frames, Comments
<1>2. CASE Len(stack) <= 1
  BY <1>1, <1>2 DEF RecursionIsBounded
<1>3. CASE Len(stack) > 1
  <2> DEFINE l == Len(stack)
             g == [d \in 1..l |-> IF d = l THEN children[At(l - 1)][1] ELSE At(d)]
  <2>1. l \in Nat /\ l > 1 /\ pc = "built"
    BY <1>1, <1>3 DEF LevelsTypeOK
  <2>2. ASSUME NEW d \in 1..l - 1
        PROVE  At(d) \in Comments /\ 1 \in 1..Len(children[At(d)])
    <3>1. /\ d \in 1..l /\ stack[d].cur \in 1..Len(stack[d].list)
          /\ children[At(d)] # <<>>
      BY <2>1 DEF CallsInv
    <3>2. stack[d] \in Frames
      BY <1>1, <3>1
    <3>3. stack[d].list \in Seq(Comments)
      BY <3>2 DEF Frames
    <3>4. At(d) \in Comments
      BY <3>1, <3>3 DEF At
    <3>5. children[At(d)] \in Seq(Comments)
      BY <1>1, <3>4 DEF TypeOK
    <3> QED
      BY <3>1, <3>4, <3>5
  <2>3. ASSUME NEW d \in 1..l - 1
        PROVE  /\ d \in 1..l /\ d + 1 \in 1..l
               /\ g[d] = At(d) /\ g[d + 1] \in Comments
               /\ parent[g[d + 1]] = g[d]
    <3>1. d \in 1..l /\ d + 1 \in 1..l /\ d # l
      BY <2>1
    <3>2. g[d] = At(d)
      BY <3>1
    <3>3. CASE d + 1 = l
      <4>1. g[d + 1] = children[At(d)][1]
        BY <2>1, <3>1, <3>3
      <4> HIDE DEF g, l
      <4> QED
        BY <1>1, <2>1, <2>2, <3>1, <3>2, <4>1, ChildIsBelow
    <3>4. CASE d + 1 # l
      <4>1. g[d + 1] = At(d + 1) /\ d + 1 \in 1..l - 1
        BY <2>1, <3>1, <3>4
      <4>2. /\ stack[d + 1].list = children[At(d)]
            /\ stack[d + 1].cur \in 1..Len(children[At(d)])
        BY <4>1 DEF CallsInv
      <4> HIDE DEF g, l
      <4>3. At(d + 1) = children[At(d)][stack[d + 1].cur]
        BY <4>2 DEF At
      <4> QED
        BY <1>1, <2>1, <2>2, <3>1, <3>2, <4>1, <4>2, <4>3, ChildIsBelow
    <3> QED
      BY <3>3, <3>4
  <2>4. g \in [1..l -> Comments]
    <3>1. 1 \in 1..l - 1
      BY <2>1
    <3>2. \A d \in 1..l : d = 1 \/ d - 1 \in 1..l - 1
      BY <2>1
    <3>3. \A d \in 1..l : (d - 1) + 1 = d
      BY <2>1
    <3>4. g[1] \in Comments
      BY <2>2, <2>3, <3>1
    <3>5. \A d \in 1..l : g[d] \in Comments
      <4> HIDE DEF g, l
      <4> QED
        BY <2>3, <3>2, <3>3, <3>4
    <3> QED
      BY <3>5
  <2> HIDE DEF g, l
  <2>5. ASSUME NEW a \in 1..l, NEW b \in 1..l, a < b, g[a] = g[b]
        PROVE  FALSE
    <3> DEFINE S == {g[d] : d \in a..b - 1}
    <3>1. S \in SUBSET Comments /\ S # {}
      <4>1. a \in a..b - 1 /\ a..b - 1 \subseteq 1..l
        BY <2>1, <2>5
      <4> QED
        BY <2>4, <4>1
    <3>2. PICK c \in S : parent[c] \notin S
      BY <2>1, <3>1 DEF EveryCommentShown, Acyclic
    <3>3. PICK d \in a..b - 1 : c = g[d]
      BY <3>2
    <3>4. CASE d = a
      <4>1. b - 1 \in 1..l - 1 /\ (b - 1) + 1 = b /\ b - 1 \in a..b - 1
        BY <2>1, <2>5
      <4>2. parent[g[b]] = g[b - 1]
        BY <2>3, <4>1
      <4> QED
        BY <2>5, <3>2, <3>3, <3>4, <4>1, <4>2
    <3>5. CASE d # a
      <4>1. d - 1 \in 1..l - 1 /\ (d - 1) + 1 = d /\ d - 1 \in a..b - 1
        BY <2>1, <2>5, <3>5
      <4>2. parent[g[d]] = g[d - 1]
        BY <2>3, <4>1
      <4> QED
        BY <3>2, <3>3, <4>1, <4>2
    <3> QED
      BY <3>4, <3>5
  <2>6. \A a, b \in 1..l : a < b \/ b < a \/ a = b
    BY <2>1
  <2>7. g \in Injection(1..l, Comments)
    BY <2>4, <2>5, <2>6 DEF Injection, IsInjective
  <2>8. IsFiniteSet(Comments) /\ Cardinality(Comments) = N + 1
    <3>1. IsFiniteSet(0..N) /\ Cardinality(0..N) = IF 0 > N THEN 0 ELSE N - 0 + 1
      BY <1>1, FS_Interval
    <3> QED
      BY <1>1, <3>1 DEF Comments
  <2>9. Cardinality(1..l) <= Cardinality(Comments)
    BY <2>7, <2>8, FS_Injection
  <2>10. Cardinality(1..l) = l
    <3>1. Cardinality(1..l) = IF 1 > l THEN 0 ELSE l - 1 + 1
      BY <2>1, FS_Interval
    <3> QED
      BY <2>1, <3>1
  <2> QED
    BY <2>8, <2>9, <2>10 DEF RecursionIsBounded, l
<1> QED BY <1>1, <1>2, <1>3

\* However the comments are threaded, the calls nest no deeper than there are
\* comments.
THEOREM RecursionBounded == LevelsSpec => []RecursionIsBounded
<1>1. LevelsInit => CallsInv
  BY DEF LevelsInit, CallsInv
<1>2. LevelsTypeOK /\ CallsInv /\ [LevelsNext]_allVars => CallsInv'
  BY CallsStep DEF LevelsTypeOK
<1>3. /\ LevelsTypeOK /\ CallsInv /\ EveryCommentShown /\ ChildrenMatchParents
      => RecursionIsBounded
  BY CallsFitTree
<1> QED BY <1>1, <1>2, <1>3, LevelsTypeCorrect, LevelsImplementTree, AllShown,
           ChildrenMatch, PTL DEF LevelsSpec
=============================================================================
