-------------------------- MODULE IdempotencyGuard --------------------------
(***************************************************************************)
(* idempotencyGuard and commitIdempotencyResponse around the handlers of   *)
(* one server process.  The guard looks the key up, the handler commits    *)
(* its effect, the controller saves the record and only then answers: four *)
(* steps with awaits between them, so that requests with one key may be in *)
(* flight together and a crash may come between any two.  The records are  *)
(* one file, loaded and written whole in one synchronous step.  A file     *)
(* that cannot be read counts as empty, a write that fails is swallowed,   *)
(* and either may happen while the disk fails; a crash in mid-write leaves *)
(* a file that cannot be parsed, which is the same as an empty one.        *)
(***************************************************************************)

CONSTANTS
  HttpRequest,   \* requests that may be in flight at once
  IdempotencyKey,\* values of Idempotency-Key or x-transaction-id
  NoKey,         \* neither header is present
  RequestHash    \* hashes of method, url and body

ASSUME NoKeyAssumption == NoKey \notin IdempotencyKey

VARIABLES
  responses,  \* data/idempotency.json: key -> requestHash of the stored record
  answers,    \* the <<key, hash>> that clients have seen answered with 201
  http,       \* what each request is about to do
  disk,       \* whether reads and writes may fail at the moment
  lost        \* no state of the program: the keys whose record a failed read, a failed
              \* write or a cut one has lost, until it is stored again

guardVars == <<responses, answers, http, disk, lost>>

\* The guarded routes whose controller saves its response, and the others:
\* verification and disbursement controllers never call commit.
SavingRoute == {"bootstrap", "delivery"}
GuardedRoute == SavingRoute \cup {"request"}

\* late says that the client had an answer before it sent the request.
NoRequest == [pc |-> "none", route |-> "request", key |-> NoKey, hash |-> NoKey, late |-> FALSE]

GuardInit ==
  /\ responses = <<>>
  /\ answers = {}
  /\ http = [q \in HttpRequest |-> NoRequest]
  /\ disk = "sound"
  /\ lost = {}

\* A client sends a request, perhaps not for the first time.
Arrive(q, route, k, h) ==
  /\ http[q].pc = "none"
  /\ http' = [http EXCEPT ![q] = [pc |-> "guard", route |-> route, key |-> k, hash |-> h,
                                  late |-> <<k, h>> \in answers]]
  /\ UNCHANGED <<responses, answers, disk, lost>>

\* IdempotencyStore.load(): an empty store where the file cannot be read.
Loads == {responses} \cup (IF disk = "failing" THEN {<<>>} ELSE {})

\* What save() may leave of a store it writes: while the disk fails also the file as it was,
\* or one cut off, which loads as empty.
Saves(store) == {store} \cup (IF disk = "failing" THEN {responses, <<>>} ELSE {})

Stored(k, store) == k \in DOMAIN store
StoreFile(store, k, h) == [x \in DOMAIN store \cup {k} |-> IF x = k THEN h ELSE store[x]]

\* The file becomes store; the keys are those that it should then have, with those it had.
WriteFile(store, keys) ==
  /\ responses' = store
  /\ lost' = (lost \cup DOMAIN responses \cup keys) \ DOMAIN store

Respond(q) == http' = [http EXCEPT ![q] = NoRequest]

\* Variant: a guard that trusts a memory of its own process, empty after a start.
GuardInMemory(q) ==
  /\ http[q].pc = "guard"
  /\ IF http[q].key = NoKey THEN Respond(q) ELSE http' = [http EXCEPT ![q].pc = "handle"]
  /\ UNCHANGED <<responses, answers, disk, lost>>

(***************************************************************************)
(* idempotencyGuard(): no key is answered 400, a key with another hash     *)
(* 409, a known request with its record; all others go to the handler.     *)
(***************************************************************************)
Guard(q) ==
  LET r == http[q]
  IN  /\ r.pc = "guard"
      /\ \E store \in Loads :
           IF r.key = NoKey \/ Stored(r.key, store)
             THEN Respond(q)
             ELSE http' = [http EXCEPT ![q].pc = "handle"]
      /\ UNCHANGED <<responses, answers, disk, lost>>

\* The handler's transaction commits, or fails and is answered 4xx or 500.
Handle(q) ==
  LET r == http[q]
  IN  /\ r.pc = "handle"
      /\ \/ http' = [http EXCEPT ![q].pc = IF r.route \in SavingRoute THEN "save" ELSE "answer"]
         \/ Respond(q)
      /\ UNCHANGED <<responses, answers, disk, lost>>

\* commitIdempotencyResponse(): load, set the key, write the whole file; the controller goes
\* on to its answer whatever came of it.
SaveResponse(q) ==
  /\ http[q].pc = "save"
  /\ \E loaded \in Loads : \E store \in Saves(StoreFile(loaded, http[q].key, http[q].hash)) :
       WriteFile(store, {http[q].key})
  /\ http' = [http EXCEPT ![q].pc = "answer"]
  /\ UNCHANGED <<answers, disk>>

\* res.status(201): the client sees the answer.
Answer(q) ==
  /\ http[q].pc = "answer"
  /\ answers' = IF http[q].route \in SavingRoute
                  THEN answers \cup {<<http[q].key, http[q].hash>>} ELSE answers
  /\ Respond(q)
  /\ UNCHANGED <<responses, disk, lost>>

\* The process ends: whatever it was doing is lost, the database stays, and so does the file,
\* unless a write of it is cut off.
ServerCrash ==
  /\ http' = [q \in HttpRequest |-> NoRequest]
  /\ \/ UNCHANGED <<responses, lost>>
     \/ (\E q \in HttpRequest : http[q].pc = "save") /\ WriteFile(<<>>, {})
  /\ UNCHANGED <<answers, disk>>

\* The disk fills up, descriptors run out, the file is locked; or that is over.
DiskChanges ==
  /\ disk' = IF disk = "sound" THEN "failing" ELSE "sound"
  /\ UNCHANGED <<responses, answers, http, lost>>

GuardNext ==
  \/ \E q \in HttpRequest :
       \/ \E route \in GuardedRoute, k \in IdempotencyKey \cup {NoKey}, h \in RequestHash :
            Arrive(q, route, k, h)
       \/ Guard(q) \/ Handle(q) \/ SaveResponse(q) \/ Answer(q)
  \/ ServerCrash
  \/ DiskChanges

GuardSpec == GuardInit /\ [][GuardNext]_guardVars
-----------------------------------------------------------------------------
GuardTypeOK ==
  /\ DOMAIN responses \subseteq IdempotencyKey
  /\ \A k \in DOMAIN responses : responses[k] \in RequestHash
  /\ answers \subseteq IdempotencyKey \X RequestHash
  /\ http \in [HttpRequest ->
       [pc: {"none", "guard", "handle", "save", "answer"}, route: GuardedRoute,
        key: IdempotencyKey \cup {NoKey}, hash: RequestHash \cup {NoKey}, late: BOOLEAN]]
  /\ disk \in {"sound", "failing"}
  /\ lost \subseteq IdempotencyKey

(***************************************************************************)
(* A request that is sent again after its client has had an answer reaches *)
(* a handler only while the disk fails, or where a failed or cut write has *)
(* lost its record: never because other requests were in flight with its   *)
(* key or with others, overwrote the file from what they had loaded, or    *)
(* because the process was restarted.                                      *)
(***************************************************************************)
AnsweredIsNotRepeated ==
  [][\A q \in HttpRequest :
       http[q].late /\ http[q].pc = "guard" /\ http'[q].pc = "handle" =>
         disk = "failing" \/ http[q].key \in lost]_guardVars
=============================================================================
