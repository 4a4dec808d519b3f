------------------------- MODULE BootstrapCeremony -------------------------
(***************************************************************************)
(* The one-time bootstrap ceremony: a root login creates a temporary role    *)
(* B0, a session of B0 creates the stacks of the release and a session of    *)
(* the writer role seals five secrets; then the role is deleted again and    *)
(* the root login ended.  The runner may die at every line.  What survives   *)
(* is the journal, one file replaced atomically, in which every mutation is  *)
(* INTENT_RECORDED, DISPATCH_STARTED and ACCEPTED; the next run reads it and *)
(* the provider, and never sends a started mutation again.                   *)
(*                                                                          *)
(* A step of the journal is <<kind, n>>: the target of a change set, the     *)
(* first or the second session of a role, the deletion after a completed (0) *)
(* or an abandoned (1) execution; n is 0 elsewhere.                          *)
(***************************************************************************)
EXTENDS Integers, FiniteSets, Sequences, SequencesExt

CONSTANTS
  Targets,         \* how many stacks the plan has
  Duration,        \* the life of a session
  Lag,             \* how late an event, or a request, may still arrive
  NotAfter,        \* the end of the plan's window, more than two sessions and their lags
  CleanupExpires,  \* the end of the window in which only cleanup is authorized
  CleanupReserve,         \* what the cleanup of a session is given
  MaxLosses        \* bound: crashes, lost requests and stale reads

ASSUME CeremonyAssumption ==
  /\ Targets \in Nat /\ Duration \in Nat \ {0} /\ Lag \in Nat
  /\ NotAfter \in Nat /\ CleanupExpires \in Nat /\ CleanupReserve \in Nat

VARIABLES
  clock,
  lock,       \* the lock file: free, held by the process, or stale
  exists,     \* whether the journal file exists
  journal,    \* the state of every step
  session,    \* of a session's step: when it was dispatched, and the expiry accepted
  facts,      \* what the disposition of an abandoned execution says
  process,        \* the process: what it has left to do, and where it is in a mutation
  receipt,    \* the terminal receipt written
  cloud,      \* what exists at the provider
  trail,      \* the root mutations that CloudTrail shows
  issued,     \* when the provider issued a session
  flight,     \* requests sent, unanswered, and not yet arrived
  sent,       \* how often a mutation was sent
  losses

ceremonyVars == <<clock, lock, exists, journal, session, facts, process, receipt,
          cloud, trail, issued, flight, sent, losses>>
durable == <<exists, journal, session, facts, receipt>>
providerVars == <<cloud, trail, issued, flight, sent>>

S(kind) == <<kind, 0>>
SetupSteps == <<S("create"), S("tag"), S("put")>>
TargetKinds == <<"change", "execute", "protect">>
TargetSteps ==
  [i \in 1..(3 * Targets) |-> <<TargetKinds[((i - 1) % 3) + 1], ((i - 1) \div 3) + 1>>]
RootMutations == {S("create"), S("tag"), S("put")} \cup {"deletePolicy", "deleteRole"} \X {0, 1}
Mutations == RootMutations \cup ToSet(TargetSteps)
Sessions(kind) == {kind} \X {1, 2}
SessionIds == Sessions("root") \cup Sessions("writer")
Receipts == {S("result"), S("completion"), S("evidence"), <<"evidence", 1>>, S("cleanup")}
Ids == Mutations \cup SessionIds \cup Receipts \cup {S("seal"), S("logout"), S("disposition")}

Never == -1

NoRun == [todo |-> <<>>, stage |-> "none", expired |-> FALSE]

----------------------------------------------------------------------------
(* The provider, as its answers are read.                                   *)

\* What a read of a mutation's effect says.  CloudFormation may or may not
\* still show an executed change set as it was.
Truth(m) ==
  LET is(b) == IF b THEN {"MATCH"} ELSE {"ABSENT"}
      t == m[2]
  IN  CASE m[1] = "create" -> is(S("role") \in cloud)
        [] m[1] = "tag" -> IF S("role") \in cloud THEN is(S("tags") \in cloud) ELSE {"CONFLICT"}
        [] m[1] = "put" -> is(S("policy") \in cloud)
        [] m[1] = "deletePolicy" -> is(S("policy") \notin cloud)
        [] m[1] = "deleteRole" -> is(S("role") \notin cloud)
        [] m[1] = "change" -> IF <<"execute", t>> \in cloud THEN {"MATCH", "CONFLICT"}
                              ELSE is(m \in cloud)
        [] OTHER -> is(m \in cloud)

\* IAM reads are eventually consistent: an effect may not show yet.
Stale(m) == IF losses < MaxLosses /\ Truth(m) = {"MATCH"} THEN {"ABSENT"} ELSE {}

\* What the provider accepts.
Legal(m) ==
  LET t == m[2]
  IN  CASE m[1] = "create" -> S("role") \notin cloud
        [] m[1] \in {"tag", "put"} -> S("role") \in cloud
        [] m[1] = "execute" -> <<"change", t>> \in cloud
        [] m[1] = "protect" -> <<"execute", t>> \in cloud
        [] m[1] = "deletePolicy" -> S("policy") \in cloud
        [] m[1] = "deleteRole" -> S("role") \in cloud /\ S("policy") \notin cloud
        [] OTHER -> TRUE

Effect(m) ==
  CASE m[1] = "create" -> cloud \cup {S("role")}
    [] m[1] = "tag" -> cloud \cup {S("tags")}
    [] m[1] = "put" -> cloud \cup {S("policy")}
    [] m[1] = "deletePolicy" -> cloud \ {S("policy")}
    [] m[1] = "deleteRole" -> cloud \ {S("role"), S("tags")}
    [] OTHER -> cloud \cup {m}

Arrives(m) ==
  /\ cloud' = Effect(m)
  /\ trail' = trail \cup ({m} \cap RootMutations)

----------------------------------------------------------------------------
(* The journal and the process.                                             *)

Deadline == IF process.expired THEN CleanupExpires ELSE NotAfter
Doing(kind) == process.todo # <<>> /\ process.stage # "open" /\ Head(process.todo)[1] = kind
Here == Head(process.todo)
Advance == process' = [process EXCEPT !.todo = Tail(@), !.stage = "inspect"]
Pause(stage) == process' = [process EXCEPT !.stage = stage]

\* An error: the finally block destroys the leases and releases the lock.
Reject == process' = NoRun /\ lock' = "free"

Record(s, state) == journal' = [journal EXCEPT ![s] = state]
Accepted(s) == journal[s] = "accepted"
Used(kind) == {s \in Sessions(kind) : journal[s] # "none"}
LastOf(kind) == IF journal[<<kind, 2>>] # "none" THEN <<kind, 2>> ELSE <<kind, 1>>

CleanupStarted(n) == journal[<<"deletePolicy", n>>] # "none" \/ journal[<<"deleteRole", n>>] # "none"

\* A receipt whose intent was written and which was not accepted.
Blocked == \E s \in Receipts : journal[s] = "intent"

FinalSteps == <<S("logout"), S("cleanup")>>

CleanupSteps ==
  (IF Accepted(S("evidence")) THEN <<>>
   ELSE <<S("events"), S("deletePolicy"), S("deleteRole"), S("gone"), S("evidence")>>)
  \o FinalSteps

AbandonedSteps ==
  IF Accepted(<<"evidence", 1>>) THEN FinalSteps
  ELSE (IF Accepted(S("disposition")) THEN <<>> ELSE <<S("sessions")>>)
       \o <<S("disposition"), <<"deletePolicy", 1>>, <<"deleteRole", 1>>, <<"gone", 1>>,
            <<"evidence", 1>>>> \o FinalSteps

\* What main does, given the journal it has opened.
Program(expired) ==
  IF expired /\ ~Accepted(S("result")) THEN AbandonedSteps
  ELSE (IF expired \/ CleanupStarted(0) \/ Accepted(S("evidence")) \/ journal[S("logout")] # "none"
        THEN <<>> ELSE SetupSteps)
       \o (IF ~Accepted(S("result"))
           THEN <<S("sessions"), S("assumeRoot")>> \o TargetSteps
                \o <<S("assumeWriter"), S("seal"), S("result")>>
           ELSE IF expired /\ ~Accepted(S("completion")) THEN <<S("sessions")>> ELSE <<>>)
       \o (IF Accepted(S("completion")) THEN <<>> ELSE <<S("expire"), S("completion")>>)
       \o CleanupSteps

CeremonyInit ==
  /\ clock = 0 /\ lock = "free" /\ exists = FALSE /\ process = NoRun
  /\ journal = [s \in Ids |-> "none"]
  /\ session = [s \in SessionIds |-> [at |-> 0, until |-> 0, safe |-> 0]]
  /\ facts = [role |-> FALSE, trail |-> {}, tags |-> FALSE, policy |-> FALSE]
  /\ receipt = "none"
  /\ cloud = {S("login")} /\ trail = {}
  /\ issued = [s \in SessionIds |-> Never]
  /\ flight = {} /\ losses = 0
  /\ sent = [m \in Mutations |-> 0]

\* The authorization: before the end of the plan's window, or, to reconcile, of
\* the cleanup window.
Authorized(mode) == clock < (IF mode = "NEW" THEN NotAfter ELSE CleanupExpires)

\* O_EXCL on the lock file comes first.
TakeLock(mode) ==
  /\ process = NoRun /\ lock = "free" /\ Authorized(mode)
  /\ lock' = "held"
  /\ process' = [todo |-> <<S(mode)>>, stage |-> "open", expired |-> FALSE]
  /\ UNCHANGED <<clock, durable, providerVars, losses>>

\* NEW wants no journal, RECONCILE_ONLY one.  Otherwise the constructor throws,
\* nobody holds the object that would release the lock, and the lock stays.
OpenJournal ==
  /\ process.stage = "open"
  /\ IF exists # (Here[1] = "RECONCILE_ONLY")
     THEN process' = NoRun /\ lock' = "stale" /\ UNCHANGED exists
     ELSE LET expired == clock >= NotAfter
          IN  /\ exists' = TRUE
              /\ IF Blocked \/ Accepted(S("cleanup")) \/ (expired /\ Here[1] = "NEW")
                 THEN Reject
                 ELSE /\ process' = [todo |-> Program(expired), stage |-> "inspect", expired |-> expired]
                      /\ UNCHANGED lock
  /\ UNCHANGED <<clock, journal, session, facts, receipt, providerVars, losses>>

\* The process dies: the lock file stays.
Crash ==
  /\ process # NoRun /\ losses < MaxLosses
  /\ process' = NoRun /\ lock' = "stale" /\ losses' = losses + 1
  /\ UNCHANGED <<clock, durable, providerVars>>

\* The audited removal of a dead process's lock insists on a journal.
RecoverStaleLock ==
  /\ lock = "stale" /\ exists
  /\ lock' = "free"
  /\ UNCHANGED <<clock, durable, process, providerVars, losses>>

----------------------------------------------------------------------------
(* runCrashConvergentMutation.                                              *)

Mutating == process.todo # <<>> /\ process.stage # "open" /\ Here \in Mutations

\* Whether an abandoned execution has the role, or the policy, to delete.
Applies(m) ==
  m[2] = 1 /\ m[1] \in {"deletePolicy", "deleteRole"} =>
    facts.role /\ (m[1] = "deletePolicy" => facts.policy)

\* The mutations of a B0 session need its credentials.
Credentials(m) == m \in ToSet(TargetSteps) => clock < session[LastOf("root")].until

RecordIntent ==
  /\ Mutating /\ process.stage = "inspect" /\ journal[Here] = "none" /\ Applies(Here)
  /\ Record(Here, "intent")
  /\ UNCHANGED <<clock, lock, exists, session, facts, receipt, process, providerVars, losses>>

SkipMutation ==
  /\ Mutating /\ ~Applies(Here)
  /\ Advance
  /\ UNCHANGED <<clock, lock, durable, providerVars, losses>>

\* Fault: an ambiguous step is tried again.
NotYetSentEither(m) == journal[m] \in {"intent", "started"}

\* A step that started and does not show is ambiguous; only an intent proves
\* that no call began.
NotYetSent(m) == journal[m] = "intent"

InspectBefore ==
  /\ Mutating /\ process.stage = "inspect" /\ journal[Here] # "none"
  /\ \E seen \in Truth(Here) \cup Stale(Here) :
       /\ losses' = losses + (IF seen \in Truth(Here) THEN 0 ELSE 1)
       /\ CASE ~Credentials(Here) -> Reject /\ UNCHANGED journal
            [] Credentials(Here) /\ seen = "MATCH" ->
                 Record(Here, "accepted") /\ Advance /\ UNCHANGED lock
            [] Credentials(Here) /\ seen = "ABSENT" /\ NotYetSent(Here) ->
                 Record(Here, "started") /\ Pause("send") /\ UNCHANGED lock
            [] OTHER -> Reject /\ UNCHANGED journal
  /\ UNCHANGED <<clock, exists, session, facts, receipt, providerVars>>

\* The provider objects check the deadline again, and before a deletion the
\* role's identity, its tags and its policies; after that the request is out.
MaySend(m) ==
  /\ clock < Deadline /\ Credentials(m)
  /\ m[1] \in {"deletePolicy", "deleteRole"} =>
       /\ Legal(m)
       /\ (S("tags") \in cloud) = (m[2] = 0 \/ facts.tags)

Send ==
  /\ Mutating /\ process.stage = "send"
  /\ Pause("after")
  /\ sent' = [sent EXCEPT ![Here] = @ + (IF MaySend(Here) THEN 1 ELSE 0)]
  /\ \/ ~MaySend(Here) /\ UNCHANGED <<cloud, trail, flight, losses>>
     \/ MaySend(Here) /\ Legal(Here) /\ Arrives(Here) /\ UNCHANGED <<flight, losses>>
     \/ /\ MaySend(Here) /\ losses < MaxLosses
        /\ flight' = flight \cup {Here} /\ losses' = losses + 1
        /\ UNCHANGED <<cloud, trail>>
     \/ MaySend(Here) /\ ~Legal(Here) /\ UNCHANGED <<cloud, trail, flight, losses>>
  /\ UNCHANGED <<clock, lock, durable, issued>>

InspectAfter ==
  /\ Mutating /\ process.stage = "after"
  /\ \E seen \in Truth(Here) \cup Stale(Here) :
       /\ losses' = losses + (IF seen \in Truth(Here) THEN 0 ELSE 1)
       /\ IF seen = "MATCH" /\ Credentials(Here)
          THEN Record(Here, "accepted") /\ Advance /\ UNCHANGED lock
          ELSE Reject /\ UNCHANGED journal
  /\ UNCHANGED <<clock, exists, session, facts, receipt, providerVars>>

\* A request that nobody waits for arrives, or never does.
ArrivesLate(m) ==
  /\ m \in flight \cap Mutations
  /\ flight' = flight \ {m}
  /\ IF Legal(m) THEN Arrives(m) ELSE UNCHANGED <<cloud, trail>>
  /\ UNCHANGED <<clock, lock, durable, process, issued, sent, losses>>

IsLost(m) ==
  /\ m \in flight
  /\ flight' = flight \ {m}
  /\ UNCHANGED <<clock, lock, durable, process, cloud, trail, issued, sent, losses>>

----------------------------------------------------------------------------
(* Sessions.                                                                *)

SessionAccepted(s, until, safe) ==
  /\ session' = [session EXCEPT ![s].until = until, ![s].safe = safe]
  /\ Record(s, "accepted")

\* A session of which the run knows only that its request started: CloudTrail
\* shows it, or its life and the lag of CloudTrail are over.
ReconcileLostSession(s) ==
  /\ Doing("sessions") /\ journal[s] = "started" /\ clock < Deadline
  /\ LET over == session[s].at + Duration + Lag
     IN  \/ /\ issued[s] # Never
            /\ SessionAccepted(s, issued[s] + Duration, issued[s] + Duration + Lag)
         \/ /\ issued[s] = Never /\ clock >= over
            /\ SessionAccepted(s, over, over)
  /\ UNCHANGED <<clock, lock, exists, facts, process, receipt, providerVars, losses>>

\* Whether every session that was ever accepted is over.
SessionsOver ==
  \A s \in SessionIds : /\ journal[s] # "started"
                        /\ Accepted(s) => clock >= session[s].safe

SessionsReconciled ==
  /\ Doing("sessions") /\ SessionsOver /\ clock < Deadline
  /\ Advance
  /\ UNCHANGED <<clock, lock, durable, providerVars, losses>>

\* The session to ask for: an intent is used again, a role has two at most.
NextSession(kind) ==
  IF Used(kind) = {} \/ journal[LastOf(kind)] = "intent" THEN LastOf(kind) ELSE <<kind, 2>>

MayAssume(kind) ==
  /\ journal[NextSession(kind)] \in {"none", "intent"}
  /\ clock + Duration + CleanupReserve < NotAfter

\* assumeB0WithJournal and assumeWriterWithJournal: the intent, then the start.
AssumeIntent(kind) ==
  /\ MayAssume(kind) /\ journal[NextSession(kind)] = "none"
  /\ Record(NextSession(kind), "intent")
  /\ UNCHANGED <<lock, session, process>>

AssumeStart(kind) ==
  /\ MayAssume(kind) /\ journal[NextSession(kind)] = "intent"
  /\ Record(NextSession(kind), "started")
  /\ session' = [session EXCEPT ![NextSession(kind)].at = clock]
  /\ Pause("send") /\ UNCHANGED lock

AssumeRefused(kind) == ~MayAssume(kind) /\ Reject /\ UNCHANGED <<journal, session>>

AssumeJournal(kind) ==
  /\ process.stage = "inspect"
  /\ AssumeIntent(kind) \/ AssumeStart(kind) \/ AssumeRefused(kind)
  /\ UNCHANGED <<clock, exists, facts, receipt, providerVars, losses>>

\* An answer is a lease; without one the run stops and the credentials are lost.
AssumeSend(kind) ==
  /\ process.stage = "send"
  /\ LET s == LastOf(kind)
     IN  \/ /\ clock < NotAfter /\ S("role") \in cloud
            /\ issued' = [issued EXCEPT ![s] = clock]
            /\ SessionAccepted(s, clock + Duration, clock + Duration + Lag)
            /\ Advance
            /\ UNCHANGED <<lock, flight, losses>>
         \/ /\ losses < MaxLosses /\ losses' = losses + 1
            /\ flight' = flight \cup {s}
            /\ Reject
            /\ UNCHANGED <<journal, session, issued>>
         \/ /\ clock >= NotAfter
            /\ Reject
            /\ UNCHANGED <<journal, session, issued, flight, losses>>
  /\ UNCHANGED <<clock, exists, facts, receipt, cloud, trail, sent>>

Assume(kind) == AssumeJournal(kind) \/ AssumeSend(kind)

AssumeRoot == Doing("assumeRoot") /\ Assume("root")
AssumeWriter == Doing("assumeWriter") /\ ~Accepted(S("seal")) /\ Assume("writer")

SessionArrivesLate(s) ==
  /\ s \in flight \cap SessionIds /\ S("role") \in cloud
  /\ flight' = flight \ {s}
  /\ issued' = [issued EXCEPT ![s] = clock]
  /\ UNCHANGED <<clock, lock, durable, process, cloud, trail, sent, losses>>

----------------------------------------------------------------------------
(* The B0 session after the stacks, and the receipts of the process.            *)

WriterSkipped ==
  /\ Doing("assumeWriter") /\ Accepted(S("seal"))
  /\ Advance
  /\ UNCHANGED <<clock, lock, durable, providerVars, losses>>

\* The custody must be empty before the first attempt.  The sealer writes what
\* is missing under fixed tokens, so a started seal is continued.
SealStart ==
  /\ Doing("seal") /\ process.stage = "inspect" /\ journal[S("seal")] \in {"none", "intent", "started"}
  /\ IF journal[S("seal")] # "started" /\ S("sealed") \in cloud
     THEN Reject /\ UNCHANGED journal
     ELSE IF journal[S("seal")] = "none"
          THEN Record(S("seal"), "intent") /\ UNCHANGED <<process, lock>>
          ELSE Record(S("seal"), "started") /\ Pause("send") /\ UNCHANGED lock
  /\ UNCHANGED <<clock, exists, session, facts, receipt, providerVars, losses>>

SealSend ==
  /\ Doing("seal") /\ process.stage = "send"
  /\ LET open == clock < NotAfter /\ clock < session[LastOf("writer")].until
     IN  \/ /\ open \/ S("sealed") \in cloud
            /\ cloud' = cloud \cup {S("sealed")}
            /\ Record(S("seal"), "accepted") /\ Advance
            /\ UNCHANGED <<lock, losses>>
         \/ /\ losses < MaxLosses /\ losses' = losses + 1
            /\ cloud' \in {cloud, IF open THEN cloud \cup {S("sealed")} ELSE cloud}
            /\ Reject /\ UNCHANGED journal
         \/ /\ ~open /\ S("sealed") \notin cloud
            /\ Reject /\ UNCHANGED <<journal, cloud, losses>>
  /\ UNCHANGED <<clock, exists, session, facts, receipt, trail, issued, flight, sent>>

SealSkipped ==
  /\ Doing("seal") /\ Accepted(S("seal"))
  /\ Advance
  /\ UNCHANGED <<clock, lock, durable, providerVars, losses>>

\* persistLocalReceipt: an intent and an acceptance, two writes of the file.
\* The result stands on a last readback with the credentials of B0.
Readable == Here = S("result") => clock < session[LastOf("root")].until

PersistReceipt ==
  /\ process.todo # <<>> /\ process.stage # "open" /\ Here \in Receipts
  /\ IF ~Readable /\ journal[Here] = "none"
     THEN Reject /\ UNCHANGED <<journal, receipt>>
     ELSE IF journal[Here] = "none"
     THEN Record(Here, "intent") /\ UNCHANGED <<process, lock, receipt>>
     ELSE /\ Record(Here, "accepted")
          /\ IF Here = S("cleanup")
             THEN /\ Reject
                  /\ receipt' = IF Accepted(S("result")) THEN "completed" ELSE "abandoned"
             ELSE Advance /\ UNCHANGED <<lock, receipt>>
  /\ UNCHANGED <<clock, exists, session, facts, providerVars, losses>>

\* The receipt of completion waits for both sessions to expire.
SessionsExpired ==
  /\ Doing("expire")
  /\ clock >= session[LastOf("root")].until /\ clock >= session[LastOf("writer")].until
  /\ clock < Deadline
  /\ Advance
  /\ UNCHANGED <<clock, lock, durable, providerVars, losses>>

----------------------------------------------------------------------------
(* Cleanup.                                                                 *)

\* reconcileExactRootEvents: the setup, one event for every session the journal
\* names, and the deletions exactly when they are asked for.
ExactEvents(deleted) ==
  /\ trail = ToSet(SetupSteps) \cup deleted
  /\ \A kind \in {"root", "writer"} :
       Cardinality({s \in Sessions(kind) : issued[s] # Never}) = Cardinality(Used(kind))

ReserveLeft(n) == CleanupStarted(n) \/ clock + Lag < Deadline

EventsReconciled ==
  /\ Doing("events") /\ ExactEvents({}) /\ clock < Deadline
  /\ IF ReserveLeft(0) THEN Advance /\ UNCHANGED lock ELSE Reject
  /\ UNCHANGED <<clock, durable, providerVars, losses>>

\* After the deletions CloudTrail must show them too.
DeletionsReconciled ==
  /\ Doing("gone") /\ clock < Deadline
  /\ IF Here[2] = 0 THEN ExactEvents({S("deletePolicy"), S("deleteRole")})
     ELSE /\ facts.role \/ S("role") \notin cloud
          /\ \A kind \in {"deletePolicy", "deleteRole"} :
               Accepted(<<kind, 1>>) => <<kind, 1>> \in trail
  /\ Advance
  /\ UNCHANGED <<clock, lock, durable, providerVars, losses>>

\* A run that waits gives up at its deadline.
GivesUp ==
  /\ Doing("sessions") \/ Doing("expire") \/ Doing("events") \/ Doing("gone") \/ Doing("disposition")
  /\ clock >= Deadline
  /\ Reject
  /\ UNCHANGED <<clock, durable, providerVars, losses>>

\* Fault: a role that does not show is taken for a role that does not exist.
NeverSeen == journal[S("create")] # "accepted"

\* An absent role was never created only if its creation never started.
NeverCreated == journal[S("create")] \in {"none", "intent"}

\* What the inspection of an abandoned execution finds: the role is the one that
\* the journal, or the event of its creation, names.
Found(role) ==
  [role |-> role, trail |-> trail,
   tags |-> role /\ S("tags") \in cloud, policy |-> role /\ S("policy") \in cloud]

FoundIsExplained(role) ==
  /\ role \/ NeverCreated
  /\ role => /\ journal[S("create")] \in {"started", "accepted"}
             /\ S("create") \in trail
             /\ (S("tags") \in cloud) = (S("tag") \in trail)
             /\ (S("tags") \in cloud) \/ ~Accepted(S("tag"))
             /\ (S("policy") \in cloud) \/ ~Accepted(S("put"))

\* Read again after the disposition: what is missing was deleted by this journal.
StillAsFound(role) ==
  /\ role \/ ~facts.role \/ journal[<<"deleteRole", 1>>] \in {"started", "accepted"}
  /\ role => /\ facts.role
             /\ facts.tags = (S("tags") \in cloud)
             /\ IF S("policy") \in cloud THEN facts.policy
                ELSE facts.policy => journal[<<"deletePolicy", 1>>] \in {"started", "accepted"}

ReserveForAbandoned == ReserveLeft(1)

DispositionIntent(role) ==
  /\ ~Accepted(S("disposition")) /\ FoundIsExplained(role)
  /\ journal[S("disposition")] = "none"
  /\ facts' = Found(role)
  /\ journal' = [journal EXCEPT ![S("disposition")] = "intent",
                                ![S("create")] = IF role THEN "accepted" ELSE @]
  /\ UNCHANGED <<process, lock>>

\* The disposition of an earlier run is this one only if nothing has changed.
DispositionAccept(role) ==
  /\ journal[S("disposition")] = "intent" /\ FoundIsExplained(role)
  /\ IF Found(role) = facts
     THEN Record(S("disposition"), "accepted") /\ UNCHANGED <<process, lock>>
     ELSE Reject /\ UNCHANGED journal
  /\ UNCHANGED facts

DispositionStands(role) ==
  /\ Accepted(S("disposition")) /\ StillAsFound(role)
  /\ IF ReserveForAbandoned THEN Advance /\ UNCHANGED lock ELSE Reject
  /\ UNCHANGED <<journal, facts>>

DispositionRefused(role) ==
  /\ ~(IF Accepted(S("disposition")) THEN StillAsFound(role) ELSE FoundIsExplained(role))
  /\ Reject
  /\ UNCHANGED <<journal, facts>>

Disposition ==
  /\ Doing("disposition") /\ clock < Deadline
  /\ \E seen \in Truth(S("create")) \cup Stale(S("create")) :
       LET role == seen = "MATCH"
       IN  /\ losses' = losses + (IF seen \in Truth(S("create")) THEN 0 ELSE 1)
           /\ \/ DispositionIntent(role) \/ DispositionAccept(role)
              \/ DispositionStands(role) \/ DispositionRefused(role)
  /\ UNCHANGED <<clock, exists, session, receipt, providerVars>>

\* The root login ends; the command may be repeated.
Logout ==
  /\ Doing("logout")
  /\ CASE journal[S("logout")] = "none" ->
            Record(S("logout"), "intent") /\ UNCHANGED <<process, lock, cloud>>
       [] journal[S("logout")] # "none" /\ S("login") \notin cloud ->
            Record(S("logout"), "accepted") /\ Advance /\ UNCHANGED <<lock, cloud>>
       [] OTHER ->
            IF journal[S("logout")] = "intent"
            THEN Record(S("logout"), "started") /\ UNCHANGED <<process, lock, cloud>>
            ELSE /\ UNCHANGED journal
                 /\ IF clock < Deadline THEN cloud' = cloud \ {S("login")} /\ UNCHANGED <<process, lock>>
                    ELSE Reject /\ UNCHANGED cloud
  /\ UNCHANGED <<clock, exists, session, facts, receipt, trail, issued, flight, sent, losses>>

----------------------------------------------------------------------------
\* The sessions that a process is about to ask for, or has asked for.
Asked ==
  (flight \cap SessionIds)
  \cup {s \in SessionIds : journal[s] = "started" /\ process.stage = "send"}

\* Assumed of the network and of the host: the request of a session arrives
\* within the lag after the journal had its start, or never.
CeremonyTick ==
  /\ clock < CleanupExpires
  /\ \A s \in Asked : clock < session[s].at + Lag
  /\ clock' = clock + 1
  /\ UNCHANGED <<lock, durable, process, providerVars, losses>>

CeremonyNext ==
  \/ \E mode \in {"NEW", "RECONCILE_ONLY"} : TakeLock(mode)
  \/ OpenJournal \/ Crash \/ RecoverStaleLock
  \/ RecordIntent \/ SkipMutation \/ InspectBefore \/ Send \/ InspectAfter
  \/ \E m \in flight : ArrivesLate(m) \/ IsLost(m) \/ SessionArrivesLate(m)
  \/ \E s \in SessionIds : ReconcileLostSession(s)
  \/ SessionsReconciled \/ AssumeRoot \/ AssumeWriter \/ WriterSkipped
  \/ SealStart \/ SealSend \/ SealSkipped \/ PersistReceipt \/ SessionsExpired
  \/ EventsReconciled \/ DeletionsReconciled \/ GivesUp \/ Disposition \/ Logout
  \/ CeremonyTick

CeremonySpec == CeremonyInit /\ [][CeremonyNext]_ceremonyVars

----------------------------------------------------------------------------
(* Properties.                                                              *)

Live(s) == issued[s] # Never /\ clock < issued[s] + Duration

\* However often the runner dies, is refused or loses an answer, no mutation of
\* the provider is sent twice, and a role never has two sessions at one time:
\* the journal is written before the dispatch, and a replacement waits for the
\* end of what the lost session may have been.
CeremonyIsOneShot ==
  /\ \A m \in Mutations : sent[m] <= 1
  /\ \A kind \in {"root", "writer"} : Cardinality({s \in Sessions(kind) : Live(s)}) <= 1

\* A terminal receipt is true and stays true: neither the temporary role nor its
\* policy exists, even if a request sent earlier arrives only now, no session of
\* the ceremony lives, the root login has ended; and a completed ceremony has its
\* stacks protected and its secrets sealed.
TerminalReceiptIsTrue ==
  receipt # "none" =>
    /\ cloud \cap {S("role"), S("policy"), S("login")} = {}
    /\ \A s \in SessionIds : ~Live(s)
    /\ receipt = "completed" => ToSet(TargetSteps) \cup {S("sealed")} \subseteq cloud

\* The test suite has it that a cleanup resumes every durable crash boundary: a
\* journal left behind by a dead run can be opened by the next one.
EveryCrashBoundaryResumes == process = NoRun => ~Blocked
=============================================================================
