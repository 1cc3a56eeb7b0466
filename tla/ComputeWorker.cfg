CONSTANTS
  Actions <- MCActions
  Roots <- MCRoots
  Children <- MCChildren
  Ancestors <- MCAncestors
  Topic <- MCTopic
  Context <- MCContext
  MayThrow <- MCMayThrow
  Judges <- MCJudges
  Decides <- MCDecides
SPECIFICATION FairSpec
INVARIANTS OwnReplies QuietAfterAnswer FailureStaysInBranch
PROPERTIES IsJob AnswersInTheEnd
CHECK_DEADLOCK FALSE
