SPECIFICATION ServicesSpec
CONSTANTS
  HttpRequest = {q1, q2}
  IdempotencyKey = {k1, k2}
  NoKey = NoKey
  RequestHash = {h1}
  Device = {d1, d2}
  Narrative = {n1, n2}
  Hostile = {n2}
  MAX_VIOLATIONS = 5
  OfflineIntake = {i1, i2, i3}
  Malformed = {i2, i3}
  SyncRound = {r1, r2}
  Post = {p1, p2}
  Mutation = {m1}
  NoMutation = NoMutation
  ReadCall = {c1}
  Reader = {u1}
  MaxMessages = 2
  PageSize = 1
  Instance = {s1, s2}
  Case = {w1}
  Socket = {x1, x2}
  Broadcast = {b1}
  GLOBAL_CONNECTION_CAP = 2
  MaxClosed = 1
  MaxCommands = 1
  LoginToken = {t1, t2}
  AuthCall = {a1, a2}
  MaxRefresh = 3
  InviteTx = {y1, y2}
  RoleKey = {g1}
  MaxInvites = 3
  Server = {v1, v2}
  Connection = {z1, z2}
  SafeRun = {f1, f2}
  Tenant = {e1}
  MaxTimers = 2
  MaxNesting = 2
  Approver = {o1, o2}
  Approval = {l1, l2}
  MaxDecisions = 2
  DEFAULT_LIMIT = 1
  MAX_LIMIT = 2
  MaxRank = 4
  NoCursor = NoCursor
  ExplainCall = {j1}
  Viewer = {{}, {"AUDITOR", "NGO_PARTNER"}}
  MaxDecided = 2
  MaxTrail = 4
  Unread = Unread
  ExecutionBody = {1, 2, 3}
  Nobody = Nobody
  MaxVotes = 3
  ViewerRole = {"ADMIN", "AUDITOR", "NGO_PARTNER"}
INVARIANTS
  ServicesTypeOK
  NoIntakeIsLost
  OneMessagePerMutation
  PagesSkipNothing
  SubscriptionFollowsSockets
  DeliveredAtMostOnce
  OneSessionPerLogin
  InviteIsSingleUse
  OneRunUnderLock
  ExplanationHoldsTogether
  ViewsAgree
PROPERTIES
  AnsweredIsNotRepeated
  ResolutionsReplaceWhatTheySaw
  
  RevokedStaysRevoked
  EveryIntakeIsReplayed
  DeadSocketIsClosed
CHECK_DEADLOCK FALSE
