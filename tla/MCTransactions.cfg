SPECIFICATION TransactionsSpec
CONSTANTS
  Tenant = {t1, t2}
  Writer = {w1, w2}
  Request = {r1, r2}
  Proof = {"ADMIN:"}
  Nil = Nil
  MaxTs = 3
  Milestone = {m1, m2}
  Worker = {w1, w2}
  None = None
INVARIANTS
  AppendTypeOK SupersededOnce AuthorityRises OncePerRequest
  TypeOK StartedOnce DoneIsLogged CompletedIsBacked
PROPERTIES StatusRises ImplementsRecord NoTransactionStays
