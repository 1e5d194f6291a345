\* Three registrations for two addresses and two names; calls fail, the process dies.
SPECIFICATION FairSpec
CONSTANTS
  r1 = r1  r2 = r2  r3 = r3  i1 = i1  i2 = i2  a1 = a1  a2 = a2
  None = None
  Registrations <- ThreeRegistrations
  Invites = {}
  Accepts = {}
  Emails = {"ann", "bob"}
  Slugs = {"acme", "roof"}
  Returning = {}
  Flaky = TRUE
  Crashes = TRUE
INVARIANTS
  EveryCompanyHasOwner
  CreatedMeansAccount
PROPERTY EveryRegistrationIsDecided
