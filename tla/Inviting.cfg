\* One company, two invitations, two acceptances; calls fail, replies of a commit are lost.
SPECIFICATION FairSpec
CONSTANTS
  r1 = r1  r2 = r2  r3 = r3  i1 = i1  i2 = i2  a1 = a1  a2 = a2
  None = None
  Registrations = {r1}
  Invites <- TwoInvites
  Accepts <- TwoAccepts
  Emails = {"ann", "bob"}
  Slugs = {"acme"}
  Returning = {"ann"}
  Flaky = TRUE
  Crashes = FALSE
INVARIANTS
  EveryAccountHasOneOrigin
  ConflictIsReal
  UnauthorizedIsFinal
  OnlyOwnersInvite
PROPERTIES
  ImplementsOneTimeToken
  EveryAcceptanceIsDecided
