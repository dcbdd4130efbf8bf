SPECIFICATION Spec
CONSTANTS
  mobile = mobile
  otherMobile = otherMobile
  email = email
  subject = subject
  otherSubject = otherSubject
  Phones = {mobile, otherMobile}
  Emails = {email}
  Users = {u1, u2, u3}
  Subjects = {subject, otherSubject}
  Vouched <- TwoTokens
  Visits = {r1, r2}
  NoUser = NoUser
  NoPhone = NoPhone
  Owned = {o1}
  Traces = {e1}
  Credentials = {c1, c2}
  Rooms = {g1}
  DeletionAttempts = 2
  Clients = {n1, n2}
  Signups = {a1, a2}
  Requests = {r1, r2}
  Minute = 1
  Hour = 2
  PerMinute = 1
  PerHour = 2
  PerAddress = 2
  LastTick = 3
  NoSignup = NoSignup
  Owners = {w1, w2}
  Identities = {i1}
  Services = {calendar, gmail}
  Consents = {f1, f2}
  Callbacks = {k1, k2}
  Disconnects = {r1, r2}
  Refreshes = {t}
  NoOwner = NoOwner
  NoService = NoService
  NoCallback = NoCallback
  NoConsent = NoConsent
  NoIdentity = NoIdentity
  Txs = {x1, x2}
  Syncs = {s1}
  FeedLength = 2
  Links = 2
  NoTask = NoTask
SYMMETRY Symmetry
INVARIANTS
  TypeOK
  AccountsAreSeparate
  
  WaitlistIsFair
  ConnectionsAreTheUsers
  
CHECK_DEADLOCK FALSE
