\* Two fields with remote rules, one of which sends both values, a field parsed late.
SPECIFICATION FairSpec
CONSTANTS
  user = user  mail = mail  extra = extra
  good = good  taken = taken  bad = bad  empty = empty
  Fields = {user, mail, extra}
  Late = {extra}
  Remote = {user, mail}
  Values = {good, taken, bad, empty}
  Blank = empty
  Initial <- AllBlank
  LocalOk <- AllButBad
  Sent <- UserWithMail
  Accepted <- NothingTaken
  MaxEdits = 3
  MaxFaults = 1
INVARIANTS
  TypeOK
  SentWereAccepted
  PendingIsCounted
PROPERTY
  SubmitIsAnswered
