--------------------------- MODULE CommentLevels ---------------------------
(***************************************************************************)
(* The levels of the comments on the page of an item: addLevelComments     *)
(* (app/frontend/content.go), which ShowItem calls on all comments once    *)
(* reparentComments has built their tree.  A level is an uint8.            *)
(*                                                                         *)
(* addLevelComments calls itself inside the loop over the children, each   *)
(* time on all of them, so some levels are computed from levels that are   *)
(* not final yet, and computed again.  Its calls are on a stack here, with *)
(* what each is about to look at; an assignment and the call that follows  *)
(* it are one action.                                                      *)
(***************************************************************************)
EXTENDS CommentTree

CONSTANT LevelSize  \* how many values an uint8 has

ASSUME LevelSizeAssumption == LevelSize \in Nat \ {0}

VARIABLES
  level,     \* comment.Level
  stack,     \* the calls of addLevelComments that have not returned
  leveled    \* the first of them has

levelVars == <<level, stack, leveled>>
allVars == <<vars, levelVars>>

\* A call for a list, at the first child of its first comment.
Call(list) == [list |-> list, cur |-> 1, child |-> 1]

\* allComments.
AllComments == [n \in 1..N + 1 |-> n - 1]

LevelsInit ==
  /\ Init
  /\ level = [c \in Comments |-> 0]
  /\ stack = <<>>
  /\ leveled = FALSE

\* The call that runs, and the comment it is at.
Depth == Len(stack)
Running == stack[Depth]
Cur == Running.list[Running.cur]

\* ShowItem calls addLevelComments(allComments).
AddLevelComments ==
  /\ pc = "built" /\ stack = <<>> /\ ~leveled
  /\ stack' = <<Call(AllComments)>>
  /\ UNCHANGED <<vars, level, leveled>>

\* As LevelChild, without the recursion.
LevelChildFlat ==
  /\ stack # <<>>
  /\ Running.cur <= Len(Running.list)
  /\ Running.child <= Len(children[Cur])
  /\ level' = [level EXCEPT ![children[Cur][Running.child]] =
                 (level[Cur] + 1) % LevelSize]
  /\ stack' = [stack EXCEPT ![Depth].child = @ + 1]
  /\ UNCHANGED <<vars, leveled>>

\* The next child gets its level, then all children are called for.
LevelChild ==
  /\ stack # <<>>
  /\ Running.cur <= Len(Running.list)
  /\ Running.child <= Len(children[Cur])
  /\ level' = [level EXCEPT ![children[Cur][Running.child]] =
                 (level[Cur] + 1) % LevelSize]
  /\ stack' = Append([stack EXCEPT ![Depth].child = @ + 1], Call(children[Cur]))
  /\ UNCHANGED <<vars, leveled>>

\* No child is left: on to the next comment of the list.
NextComment ==
  /\ stack # <<>>
  /\ Running.cur <= Len(Running.list)
  /\ Running.child > Len(children[Cur])
  /\ stack' = [stack EXCEPT ![Depth].cur = @ + 1, ![Depth].child = 1]
  /\ UNCHANGED <<vars, level, leveled>>

\* No comment is left: the call returns.
Return ==
  /\ stack # <<>>
  /\ Running.cur > Len(Running.list)
  /\ stack' = Front(stack)
  /\ leveled' = (Depth = 1)
  /\ UNCHANGED <<vars, level>>

LevelsNext ==
  \/ (ReplyStep \/ RestStep) /\ UNCHANGED levelVars
  \/ AddLevelComments \/ LevelChild \/ NextComment \/ Return
  \/ leveled /\ Rendered /\ UNCHANGED levelVars

LevelsSpec == LevelsInit /\ [][LevelsNext]_allVars
-----------------------------------------------------------------------------
LevelsTypeOK ==
  /\ TypeOK
  /\ level \in [Comments -> 0..LevelSize - 1]
  /\ stack \in Seq([list : Seq(Comments), cur : Nat \ {0}, child : Nat \ {0}])
  /\ leveled \in BOOLEAN
  /\ stack # <<>> \/ leveled => pc = "built"

\* The level of a comment is one more than that of its parent, and that of the
\* item of the page is 0, although comments come before what they replied to
\* in the list and levels are computed from levels that are not final
\* (addLevelComments lines 136-145).
LevelIsDepth ==
  leveled => /\ level[0] = 0
             /\ \A c \in Comments \ {0} :
                  level[c] = (level[parent[c]] + 1) % LevelSize
=============================================================================
