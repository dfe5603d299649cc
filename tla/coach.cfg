\* Two requests at a time, two plans in a history.
CONSTANTS
  Requests = {r1, r2}
  Scores <- MCScores
  Locales = {"zh-CN", "en"}
  Deployments <- MCDeployments
  Approved <- MCApproved
  ProviderNames <- MCNames
  Replies <- MCReplies
  MaxReplyBytes = 2
  MaxAnswers = 2
SPECIFICATION Spec
INVARIANTS
  PlansAreGrounded
  CoachIsAvailable
  DraftCountsAsAWhole
  ActionIdentityIsContent
