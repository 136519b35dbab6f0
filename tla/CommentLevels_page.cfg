\* An item and five comments, and levels that wrap around at 4: the deepest threads wrap.
CONSTANTS
  N = 5
  NotLoaded = NotLoaded
  LevelSize = 4
SPECIFICATION LevelsSpec
INVARIANTS LevelsTypeOK EveryCommentShown RepliesUnderParent ChildrenInOrder
           LevelIsDepth
