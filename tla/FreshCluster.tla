---------------------------- MODULE FreshCluster ----------------------------
(***************************************************************************)
(* The fresh-cluster provider controller: one operation that creates or     *)
(* adopts a CockroachDB cluster, lets the runner in, gives it a bootstrap   *)
(* administrator, installs the schema, publishes the recovery bundle,       *)
(* deletes the administrator, closes the ingress and writes one receipt     *)
(* (fresh-cluster-provider-controller.js), and the reconciler that revokes  *)
(* the access of an interrupted adoption                                    *)
(* (fresh-cluster-reconciliation-controller.js).  Both keep their history   *)
(* as a chain of transitions in one DynamoDB item                           *)
(* (fresh-cluster-aws-provider.js).                                         *)
(*                                                                          *)
(* The workflow runs one process per operation at a time, so there is one   *)
(* process, me.  It may die anywhere, and a request it gave up on after its *)
(* timeout may still arrive: late holds those.  A transition is its phase   *)
(* and the run that wrote it; the digest of the last one, which the updates *)
(* compare, is the chain itself.                                            *)
(***************************************************************************)
EXTENDS Integers, Sequences

CONSTANTS
  MaxRuns,          \* bound on the processes started
  MaxUnanswered     \* bound on the requests and reads that fail

VARIABLES
  clusterMode,      \* the command's: "CREATE_NEW" or "ADOPT_VERIFIED_EXISTING"
  present,          \* what exists at the providers
  item,             \* the controller table's item of the operation
  late,             \* requests on their way whose sender no longer waits
  returned,         \* accesses a late request created after the last absent readback
  sent,             \* sent[s]: requests sent by stage s
  me,               \* the process and its local variables
  approval,         \* "open", "expired" (no reservation) or "over" (no cleanup either)
  runs, unanswered

clusterVars == <<clusterMode, present, item, late, returned, sent, me, approval,
                 runs, unanswered>>

Access == {"admin", "ingress"}

\* What a stage that sends a request does: to `on', which is created or deleted.
\* Nothing can be read back of the last five.
Change ==
  [createCluster |-> [on |-> "cluster", to |-> TRUE],
   createIngress |-> [on |-> "ingress", to |-> TRUE],
   sealSecret    |-> [on |-> "secret", to |-> TRUE],
   createAdmin   |-> [on |-> "admin", to |-> TRUE],
   deleteAdmin   |-> [on |-> "admin", to |-> FALSE],
   deleteIngress |-> [on |-> "ingress", to |-> FALSE],
   revokeAdmin   |-> [on |-> "admin", to |-> FALSE],
   revokeIngress |-> [on |-> "ingress", to |-> FALSE],
   bootstrap     |-> [on |-> "schema", to |-> TRUE],
   prepare       |-> [on |-> "preparation", to |-> TRUE],
   append        |-> [on |-> "publication", to |-> TRUE],
   replay        |-> [on |-> "replayed", to |-> TRUE],
   queryMcp      |-> [on |-> "queried", to |-> TRUE]]

Blind == {"bootstrap", "prepare", "append", "replay", "queryMcp"}
Changing == DOMAIN Change
Revoking == {"revokeAdmin", "revokeIngress"}
Deleting == {"deleteAdmin", "deleteIngress"} \cup Revoking
Once == Changing \ Deleting

\* What a readback can and cannot show before the stage that follows it.
Observing == {"adopt", "ingressPrestate", "discardCredential", "adminPrestate",
              "adoptAdmin", "authenticateAdmin", "planMcp", "inventory"}

Modes == {"CREATE_NEW", "ADOPT_VERIFIED_EXISTING"}
CreateNew == clusterMode = "CREATE_NEW"

ClusterStage(m) == IF m = "CREATE_NEW" THEN "createCluster" ELSE "adopt"
IngressStages == <<"ingressPrestate", "createIngress">>
SecretStages == <<"sealSecret", "discardCredential">>
AdminStages(m) ==
  <<"adminPrestate", IF m = "CREATE_NEW" THEN "createAdmin" ELSE "adoptAdmin",
    "authenticateAdmin">>
InstallStages == <<"bootstrap">>
PublicationStages == <<"prepare", "append", "replay">>
McpStages == <<"planMcp", "queryMcp">>
DeletionStages == <<"inventory", "deleteAdmin", "deleteIngress">>
CleanupStages == <<"discover", "deleteAdmin", "deleteIngress", "terminalize">>
RecoveryStages == <<"start", "revokeAdmin", "revokeIngress", "revoked", "terminalize">>

Scripts ==
  [controller |-> [m \in Modes |->
     <<ClusterStage(m)>> \o IngressStages \o SecretStages \o AdminStages(m) \o InstallStages
     \o PublicationStages \o McpStages \o DeletionStages \o <<"finalize">>],
   cleanup |-> [m \in Modes |-> CleanupStages],
   recovery |-> [m \in Modes |-> RecoveryStages]]

StageOf(m) == Scripts[m.role][clusterMode][m.at]

Rest == [role |-> "none"]

Stage == StageOf(me)
Now(step) == me.role # "none" /\ me.step = step

NoItem == [owner |-> 0]
Item(owner) == [owner |-> owner, chain |-> <<>>, final |-> FALSE, terminal |-> FALSE]

\* The transitions of a stage.
Dispatching(s) == <<s, "dispatching">>
Reconciled(s) == <<s, "reconciled">>
Done(s) == <<s, "done">>

Phases(chain) == {chain[i][1] : i \in DOMAIN chain}

ClusterInit ==
  /\ clusterMode \in Modes
  /\ present = IF CreateNew THEN {} ELSE {"cluster", "admin"}
  /\ item = NoItem /\ late = {} /\ returned = {} /\ me = Rest
  /\ sent = [s \in Changing |-> 0]
  /\ approval = "open" /\ runs = 0 /\ unanswered = 0

-----------------------------------------------------------------------------
(* The controller table.                                                    *)

\* The condition of every update: version and last receipt are the expected
\* ones.  A final or terminal receipt changes both.
Expected(i, owner, chain) ==
  /\ i # NoItem
  /\ i.owner = owner /\ i.chain = chain /\ ~i.final /\ ~i.terminal

\* Fault: the reservation overwrites an item that is already there.
AppliesOver(i, u) ==
  IF u.new = Item(u.owner) THEN TRUE ELSE Expected(i, u.owner, u.chain)

\* A reservation needs an absent item.
Applies(i, u) ==
  IF u.new = Item(u.owner) THEN i = NoItem ELSE Expected(i, u.owner, u.chain)

\* The item after the update, which sets some attributes and leaves the others.
Updated(i, u) ==
  IF ~Applies(i, u) THEN i
  ELSE IF i = NoItem THEN u.new
  ELSE [u.new EXCEPT !.final = @ \/ i.final, !.terminal = @ \/ i.terminal]

Update(new) == [owner |-> me.owner, chain |-> me.chain, new |-> new]

\* One update, and the strong read that follows a lost acknowledgement: it is
\* applied and known to be (ok); refused (no); or no read shows the outcome, and
\* it was applied, is lost or arrives later.
Writes(new, ok, no) ==
  LET u == Update(new) IN
  \/ /\ item' = Updated(item, u)
     /\ me' = IF Applies(item, u) THEN ok ELSE no
     /\ UNCHANGED <<late, unanswered>>
  \/ /\ unanswered < MaxUnanswered /\ unanswered' = unanswered + 1
     /\ me' = no
     /\ \/ /\ item' = Updated(item, u)
           /\ UNCHANGED late
        \/ late' = late \cup {u} /\ UNCHANGED item

\* record: a phase that is already there is not written again.
Records(phase, ok, no) ==
  IF phase \in Phases(me.chain)
  THEN me' = ok /\ UNCHANGED <<item, late, unanswered>>
  ELSE LET chain == Append(me.chain, <<phase, me.run>>) IN
       Writes([owner |-> me.owner, chain |-> chain, final |-> FALSE, terminal |-> FALSE],
              [ok EXCEPT !.chain = chain], no)

-----------------------------------------------------------------------------
(* Where a process goes next.                                               *)

At(m, at) == [m EXCEPT !.at = at, !.step = "begin"]
Onward(m) == At(m, m.at + 1)

Settled(m, x) == [m EXCEPT !.absent = @ \cup {x}]

\* An error: the controller starts to clean up, a cleanup goes on with the next
\* resource but cannot report success, and outside of those the process ends.
Fails(m) ==
  CASE m.role = "controller" -> [At(m, 1) EXCEPT !.role = "cleanup"]
    [] m.role # "controller" /\ StageOf(m) \in Deleting \cup {"discover"} ->
         [Onward(m) EXCEPT !.ambiguous = TRUE]
    [] OTHER -> Rest

Idles == UNCHANGED <<item, late, unanswered>>
Untouched == UNCHANGED <<clusterMode, present, approval, runs>>

ReadFails ==
  /\ unanswered < MaxUnanswered /\ unanswered' = unanswered + 1
  /\ me' = Fails(me)
  /\ UNCHANGED <<item, late>>

-----------------------------------------------------------------------------
(* The controller.                                                          *)

\* authenticate needs the approval and an admin secret not yet sealed, and the
\* strong read no item.
Execute ==
  /\ me = Rest /\ runs < MaxRuns
  /\ approval = "open" /\ "secret" \notin present /\ item = NoItem
  /\ runs' = runs + 1
  /\ me' = [role |-> "controller", at |-> 1, step |-> "reserve", run |-> runs + 1,
            owner |-> runs + 1, chain |-> <<>>, ambiguous |-> FALSE,
            possible |-> {}, absent |-> IF CreateNew THEN Access ELSE {"ingress"}]
  /\ UNCHANGED <<clusterMode, present, item, late, returned, sent, approval, unanswered>>

\* A reservation acknowledged after the approval expired is not acted on.
Reserve ==
  /\ Now("reserve")
  /\ IF approval = "open"
     THEN Writes(Item(me.owner), At(me, 1), Rest)
     ELSE me' = Rest /\ Idles
  /\ Untouched /\ UNCHANGED <<returned, sent>>

\* What the stage's readbacks must show.
Shows(s) ==
  CASE s = "ingressPrestate" -> "ingress" \notin present
    [] s = "adminPrestate" -> ("admin" \in present) = ~CreateNew
    [] s \in {"adoptAdmin", "authenticateAdmin"} -> "admin" \in present
    [] s = "planMcp" -> Expected(item, me.owner, me.chain)
    [] s = "inventory" -> {"admin", "schema"} \subseteq present
    [] OTHER -> TRUE

\* A readback and its transition.  The SQL user prestate makes the administrator
\* one that the cleanup has to look for.
Observe ==
  /\ Now("begin") /\ Stage \in Observing
  /\ LET seen == [me EXCEPT !.possible = IF Stage = "adminPrestate" THEN @ \cup {"admin"} ELSE @]
     IN \/ Shows(Stage) /\ Records(Done(Stage), Onward(seen), Fails(me))
        \/ ~Shows(Stage) /\ me' = Fails(me) /\ Idles
        \/ ReadFails
  /\ Untouched /\ UNCHANGED <<returned, sent>>

\* Fault: absence stays what the prestate showed.
DispatchedAbsent(m) ==
  LET x == Change[Stage].on IN
  IF x \in Access /\ Stage \in Once THEN [m EXCEPT !.possible = @ \cup {x}] ELSE m

\* From the dispatch of a creation on, absence is unknown.
Dispatched(m) ==
  LET x == Change[Stage].on IN
  IF x \in Access /\ Stage \in Once
  THEN [m EXCEPT !.possible = @ \cup {x}, !.absent = @ \ {x}]
  ELSE m

\* A cleanup deletes what may be there and is not known to be absent.
Needed ==
  \/ me.role = "controller"
  \/ me.role = "cleanup" /\ Change[Stage].on \in me.possible \ me.absent
  \/ me.role = "recovery"

Skip ==
  /\ Now("begin") /\ Stage \in Changing /\ ~Needed
  /\ me' = Onward(me)
  /\ Idles /\ Untouched /\ UNCHANGED <<returned, sent>>

\* The reconciler reads first: it deletes what is there, once, and an ingress
\* only of an operation that dispatched its creation.
MayRevoke ==
  /\ Dispatching(Stage) \notin Phases(me.chain)
  /\ Stage = "revokeIngress" => Dispatching("createIngress") \in Phases(me.chain)

Dispatch ==
  /\ Now("begin") /\ Stage \in Changing /\ Needed
  /\ \/ /\ Stage \in Revoking /\ Change[Stage].on \notin present
        /\ me' = [me EXCEPT !.step = "confirm"] /\ Idles
     \/ /\ Stage \in Revoking => Change[Stage].on \in present
        /\ IF /\ \/ Stage \notin Deleting \/ approval # "over"
                 \/ Stage \notin Revoking /\ Dispatching(Stage) \in Phases(me.chain)
              /\ Stage \in Revoking => MayRevoke
           THEN Records(Dispatching(Stage), [Dispatched(me) EXCEPT !.step = "send"], Fails(me))
           ELSE me' = Fails(me) /\ Idles
     \/ Stage \in Revoking /\ ReadFails
  /\ Untouched /\ UNCHANGED <<returned, sent>>

Effect(c) == IF c.to THEN present \cup {c.on} ELSE present \ {c.on}

\* The runtime refuses a deletion after the retention deadline, and the MCP
\* client an external action when the item no longer ends with its plan.
MaySend ==
  /\ Stage \in Deleting => approval # "over"
  /\ Stage = "queryMcp" => Expected(item, me.owner, me.chain)

Unknown == IF Stage \in Blind THEN Fails(me) ELSE [me EXCEPT !.step = "unknown"]

\* The request is acknowledged; refused, when there is nothing to do; or not
\* answered, and it was applied, is lost or arrives later.
Send ==
  /\ Now("send")
  /\ LET c == Change[Stage] IN
     \/ ~MaySend /\ me' = Unknown /\ UNCHANGED <<present, late, sent, unanswered>>
     \/ /\ MaySend
        /\ sent' = [sent EXCEPT ![Stage] = IF @ = 2 THEN 2 ELSE @ + 1]
        /\ \/ /\ me' = [me EXCEPT !.step = "confirm"]
              /\ present' = Effect(c) /\ UNCHANGED <<late, unanswered>>
           \/ /\ Effect(c) = present /\ me' = Unknown
              /\ UNCHANGED <<present, late, unanswered>>
           \/ /\ unanswered < MaxUnanswered /\ unanswered' = unanswered + 1
              /\ me' = Unknown
              /\ \/ present' = Effect(c) /\ UNCHANGED late
                 \/ late' = late \cup {c} /\ UNCHANGED present
                 \/ UNCHANGED <<present, late>>
  /\ UNCHANGED <<clusterMode, item, returned, approval, runs>>

HasEffect(s) == (Change[s].on \in present) = Change[s].to

\* The readback that stands in for a missing acknowledgement.
ReconcileAcknowledgement ==
  /\ Now("unknown")
  /\ \/ /\ HasEffect(Stage)
        /\ Records(Reconciled(Stage), [me EXCEPT !.step = "confirm"], Fails(me))
     \/ ~HasEffect(Stage) /\ me' = Fails(me) /\ Idles
     \/ ReadFails
  /\ Untouched /\ UNCHANGED <<returned, sent>>

\* The readback of the stage and the transition that reports it.
Confirm ==
  /\ Now("confirm")
  /\ LET c == Change[Stage]
         known == IF c.to THEN me ELSE Settled(me, c.on)
     IN \/ /\ Stage \in Blind \/ HasEffect(Stage)
           /\ Records(Done(Stage), Onward(known), Fails(known))
           /\ returned' = IF c.to THEN returned ELSE returned \ {c.on}
        \/ /\ Stage \notin Blind /\ ~HasEffect(Stage)
           /\ me' = Fails(me) /\ Idles /\ UNCHANGED returned
        \/ Stage \notin Blind /\ ReadFails /\ UNCHANGED returned
  /\ Untouched /\ UNCHANGED sent

Finalize ==
  /\ Now("begin") /\ Stage = "finalize"
  /\ Writes([Item(me.owner) EXCEPT !.chain = me.chain, !.final = TRUE], Rest, Fails(me))
  /\ Untouched /\ UNCHANGED <<returned, sent>>

-----------------------------------------------------------------------------
(* The cleanup of a failed run.                                             *)

\* An adopted administrator that was not looked at yet.
Discover ==
  /\ Now("begin") /\ Stage = "discover"
  /\ IF "admin" \in me.possible \cup me.absent
     THEN me' = Onward(me) /\ Idles
     ELSE \/ LET found == IF "admin" \in present
                          THEN [me EXCEPT !.possible = @ \cup {"admin"}]
                          ELSE Settled(me, "admin")
             IN Records(Done(Stage), Onward(found), Fails(found))
          \/ ReadFails
  /\ Untouched /\ UNCHANGED <<returned, sent>>

Terminalize ==
  /\ Now("begin") /\ Stage = "terminalize"
  /\ IF me.ambiguous \/ ~(Access \subseteq me.absent)
     THEN me' = Rest /\ Idles
     ELSE Writes([Item(me.owner) EXCEPT !.chain = me.chain, !.terminal = TRUE], Rest, Rest)
  /\ Untouched /\ UNCHANGED <<returned, sent>>

-----------------------------------------------------------------------------
(* The reconciler, of adopted clusters only.                                *)

Reconcile ==
  /\ me = Rest /\ runs < MaxRuns /\ ~CreateNew
  /\ item # NoItem /\ ~item.final /\ ~item.terminal
  /\ runs' = runs + 1
  /\ me' = [role |-> "recovery", at |-> 1, step |-> "begin", run |-> runs + 1,
            owner |-> item.owner, chain |-> item.chain, ambiguous |-> FALSE,
            possible |-> Access, absent |-> {}]
  /\ UNCHANGED <<clusterMode, present, item, late, returned, sent, approval, unanswered>>

\* The first and the last transition of the reconciler; the first one needs the
\* cleanup approval.
Note ==
  /\ Now("begin") /\ Stage \in {"start", "revoked"}
  /\ IF \/ Stage = "start" /\ approval = "over" /\ Done(Stage) \notin Phases(me.chain)
        \/ Stage = "revoked" /\ (me.ambiguous \/ ~(Access \subseteq me.absent))
     THEN me' = Rest /\ Idles
     ELSE Records(Done(Stage), Onward(me), Rest)
  /\ Untouched /\ UNCHANGED <<returned, sent>>

-----------------------------------------------------------------------------

Die ==
  /\ me # Rest /\ me' = Rest
  /\ Idles /\ Untouched /\ UNCHANGED <<returned, sent>>

Arrives(r) ==
  /\ late' = late \ {r}
  /\ IF "on" \in DOMAIN r
     THEN /\ present' = Effect(r) /\ UNCHANGED item
          /\ returned' = IF r.to /\ r.on \in Access THEN returned \cup {r.on} ELSE returned
     ELSE /\ item' = Updated(item, r)
          /\ UNCHANGED <<present, returned>>
  /\ UNCHANGED <<clusterMode, sent, me, approval, runs, unanswered>>

TimePasses ==
  /\ approval # "over"
  /\ approval' = IF approval = "open" THEN "expired" ELSE "over"
  /\ UNCHANGED <<clusterMode, present, item, late, returned, sent, me, runs, unanswered>>

ControllerStep ==
  Execute \/ Reserve \/ Observe \/ Skip \/ Dispatch \/ Send \/ ReconcileAcknowledgement
  \/ Confirm \/ Finalize \/ Discover \/ Terminalize \/ Reconcile \/ Note

ClusterNext == ControllerStep \/ Die \/ TimePasses \/ \E r \in late : Arrives(r)

ClusterSpec == ClusterInit /\ [][ClusterNext]_clusterVars

-----------------------------------------------------------------------------
(* Properties.                                                              *)

\* A final or terminal receipt says that the bootstrap administrator is gone and
\* the allowlist empty, and so they are, whatever requests went unanswered on
\* the way: only a creation that nobody waited for any more, and that arrived
\* after the absent readback, brings one back.  A final receipt moreover stands
\* for a bootstrap, a publication and a query that all happened.
AccessRevokedWhenReported ==
  item # NoItem =>
    /\ item.final \/ item.terminal => present \cap Access \subseteq returned
    /\ item.final => {Change[s].on : s \in Once \ {"createAdmin", "createIngress"}} \subseteq present

\* No request that creates, installs or publishes is sent twice, in any number of
\* runs; each one sent stands in the chain for good, deletions included; and an
\* operation never ends both ways.
ClusterIsOneShot ==
  /\ \A s \in Once : sent[s] <= 1
  /\ LET phases == IF item = NoItem THEN {} ELSE Phases(item.chain)
     IN \A s \in Changing : sent[s] > 0 => Dispatching(s) \in phases
  /\ item # NoItem => ~(item.final /\ item.terminal)
=============================================================================
