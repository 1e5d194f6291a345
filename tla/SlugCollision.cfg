\* Two companies of one name; nothing fails.
SPECIFICATION Spec
CONSTANTS
  r1 = r1  r2 = r2  r3 = r3  i1 = i1  i2 = i2  a1 = a1  a2 = a2
  None = None
  Registrations <- TwoRegistrations
  Invites = {}
  Accepts = {a1}
  Emails = {"ann", "bob"}
  Slugs = {"acme"}
  Returning = {}
  Flaky = FALSE
  Crashes = FALSE
INVARIANT SlugCollisionIsRetried
