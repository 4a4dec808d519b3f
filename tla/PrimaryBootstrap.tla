-------------------------- MODULE PrimaryBootstrap --------------------------
(***************************************************************************)
(* bootstrapPrimarySecurity (primary-security.js) with the posture checks of *)
(* database-security-posture.js: the program that creates the principals,    *)
(* the SQL functions and their grants, on a fresh database or over a         *)
(* deployment, and that may be interrupted, repeated, or run twice at once.  *)
(*                                                                          *)
(* A capability is EXECUTE on a function.  A posture that was tampered with  *)
(* in any other way is refused where EXECUTE outside the policy is.          *)
(***************************************************************************)
EXTENDS Naturals

CONSTANTS
  Boots,        \* processes that run the bootstrap
  Roles,        \* capability roles, each bound to one user
  UserOf,       \* UserOf[r]: the runtime user of a role
  Policy,       \* Policy[r]: the functions a role is to execute
  Retired,      \* Retired[r]: those it may still execute when a run starts
  Internal,     \* functions no role executes
  Roots         \* commitments to the recovery publisher's keys

VARIABLES
  shells,       \* the roles and users exist
  openDefault,  \* a new function is executable by public
  functions,
  executes,     \* <<grantee, function>>
  members,      \* <<role, user>>
  password,     \* password[u]: "none", "old", or the process that set it
  trustRoot,    \* g1_recovery_publisher_trust_roots
  boot,         \* boot[b]: the process
  cut           \* the memberships of an earlier deployment are gone

bootVars == <<shells, openDefault, functions, executes, members, password, trustRoot, boot, cut>>
database == <<shells, openDefault, functions, executes, members, password, trustRoot, cut>>

Users == {UserOf[r] : r \in Roles}
RoleBindings == {<<r, UserOf[r]>> : r \in Roles}
Created == UNION {Policy[r] : r \in Roles} \cup Internal
Granted(policy) == UNION {{<<r, f>> : f \in policy[r]} : r \in Roles}

\* Roles, users and public are different grantees (tp_*_role, tp_*_user),
\* and what stands for an earlier password is no process.
ASSUME BootAssumption ==
  /\ "public" \notin Roles \cup Users /\ Roles \cap Users = {}
  /\ "old" \notin Boots

Waiting == [at |-> 0, todo |-> {}, root |-> "none"]

\* A fresh database, a deployment with retired functions, or one where
\* someone has granted a function to public or to a user.
BootInit ==
  /\ openDefault \in BOOLEAN
  /\ boot = [b \in Boots |-> Waiting] /\ cut = FALSE
  /\ \/ /\ shells = FALSE /\ functions = {} /\ executes = {} /\ members = {}
        /\ password = [u \in Users |-> "none"] /\ trustRoot = "none"
     \/ /\ shells = TRUE /\ members = RoleBindings /\ trustRoot \in Roots
        /\ functions = Created \cup UNION {Retired[r] : r \in Roles}
        /\ password = [u \in Users |-> "old"]
        /\ \E more \in {{}} \cup {{<<g, f>>} : g \in Users \cup {"public"}, f \in Created} :
             executes = Granted(Retired) \cup Granted(Policy) \cup more

-----------------------------------------------------------------------------
(* The program: each step is a statement, or one for every item.            *)

Program ==
  <<"preflight", "lock", "shells", "posture", "relock", "scrub", "payload", "memberships", "credentials",
    "root", "occupancy", "functions", "ownership", "rescrub", "grant", "bind", "attest">>

Items(step) ==
  CASE step = "scrub" -> Roles \cup Users
    [] step = "rescrub" -> Roles \cup Users \cup {"public"}
    [] step = "memberships" -> Roles \X Users
    [] step = "credentials" -> Users
    [] step \in {"functions", "ownership"} -> Created
    [] step = "grant" -> Roles
    [] step = "bind" -> RoleBindings
    [] OTHER -> {}

StepName(b) == IF boot[b].at \in DOMAIN Program THEN Program[boot[b].at] ELSE "none"

Enters(b, k) ==
  boot' = [boot EXCEPT ![b].at = k, ![b].todo = IF k \in DOMAIN Program THEN Items(Program[k]) ELSE {}]

Advances(b) == Enters(b, boot[b].at + 1)

\* Behind the seventeen steps.
Attested == 18
Rejected == 19

Rejects(b) == Enters(b, Rejected) /\ UNCHANGED database

BeginBoot(b, root) ==
  /\ boot[b].at = 0
  /\ boot' = [boot EXCEPT ![b].at = 1, ![b].root = root]
  /\ UNCHANGED database

\* validateDatabaseSecurityPosture: nothing but what the policy names.
Within(policy) == executes \subseteq Granted(policy) /\ members \subseteq RoleBindings

WithRetired == [r \in Roles |-> Policy[r] \cup Retired[r]]

\* Before and after the principals are created, with the retired functions.
CheckPosture(b) ==
  /\ StepName(b) \in {"preflight", "posture"}
  /\ IF Within(WithRetired) /\ (StepName(b) = "posture" => shells) THEN Advances(b) /\ UNCHANGED database ELSE Rejects(b)

\* Fault: new functions stay executable by public.
LeaveRoutineDefaults(b) ==
  /\ StepName(b) \in {"lock", "relock"}
  /\ Advances(b) /\ UNCHANGED database

\* lockPublicRoutineDefaults for the administrator, who creates the functions.
LockRoutineDefaults(b) ==
  /\ StepName(b) \in {"lock", "relock"}
  /\ openDefault' = FALSE /\ Advances(b)
  /\ UNCHANGED <<shells, functions, executes, members, password, trustRoot, cut>>

CreateShells(b) ==
  /\ StepName(b) = "shells"
  /\ shells' = TRUE /\ Advances(b)
  /\ UNCHANGED <<openDefault, functions, executes, members, password, trustRoot, cut>>

\* Stored proposals, or occupancy rows, that the new functions could not read.
CheckRows(b) ==
  /\ StepName(b) \in {"payload", "occupancy"}
  /\ (Advances(b) /\ UNCHANGED database) \/ Rejects(b)

\* createAuditObjects: the first commitment stays, and must be this one.
CommitTrustRoot(b) ==
  /\ StepName(b) = "root"
  /\ LET committed == IF trustRoot = "none" THEN boot[b].root ELSE trustRoot
     IN /\ trustRoot' = committed
        /\ IF committed = boot[b].root THEN Advances(b) ELSE Enters(b, Rejected)
  /\ UNCHANGED <<shells, openDefault, functions, executes, members, password, cut>>

-----------------------------------------------------------------------------

\* One item of a step, and on to the next step behind the last.
Item(b, x) ==
  /\ x \in boot[b].todo
  /\ IF boot[b].todo = {x} THEN Advances(b) ELSE boot' = [boot EXCEPT ![b].todo = @ \ {x}]

\* scrubManagedPrivileges, and applyGrants for public.
Scrub(b, x) ==
  /\ StepName(b) \in {"scrub", "rescrub"} /\ Item(b, x)
  /\ executes' = {g \in executes : g[1] # x}
  /\ UNCHANGED <<shells, openDefault, functions, members, password, trustRoot, cut>>

ScrubMembership(b, x) ==
  /\ StepName(b) = "memberships" /\ Item(b, x)
  /\ members' = members \ {x}
  /\ cut' = (cut \/ boot[b].todo = {x})
  /\ UNCHANGED <<shells, openDefault, functions, executes, password, trustRoot>>

SetPassword(b, u) ==
  /\ StepName(b) = "credentials" /\ Item(b, u)
  /\ password' = [password EXCEPT ![u] = b]
  /\ UNCHANGED <<shells, openDefault, functions, executes, members, trustRoot, cut>>

\* CREATE OR REPLACE FUNCTION keeps the grants of a function that exists.
CreateFunction(b, f) ==
  /\ StepName(b) = "functions" /\ Item(b, f)
  /\ functions' = functions \cup {f}
  /\ executes' = executes \cup (IF f \notin functions /\ openDefault THEN {<<"public", f>>} ELSE {})
  /\ UNCHANGED <<shells, openDefault, members, password, trustRoot, cut>>

TransferOwnership(b, f) ==
  /\ StepName(b) = "ownership" /\ Item(b, f)
  /\ executes' = executes \ {<<"public", f>>}
  /\ UNCHANGED <<shells, openDefault, functions, members, password, trustRoot, cut>>

ApplyGrants(b, r) ==
  /\ StepName(b) = "grant" /\ Item(b, r)
  /\ executes' = executes \cup {<<r, f>> : f \in Policy[r]}
  /\ UNCHANGED <<shells, openDefault, functions, members, password, trustRoot, cut>>

GrantMembership(b, x) ==
  /\ StepName(b) = "bind" /\ Item(b, x)
  /\ members' = members \cup {x}
  /\ UNCHANGED <<shells, openDefault, functions, executes, password, trustRoot, cut>>

\* The posture is the policy exactly; thirty attempts, then an error.
Attest(b) ==
  /\ StepName(b) = "attest"
  /\ IF executes = Granted(Policy) /\ members = RoleBindings
     THEN Enters(b, Attested) /\ UNCHANGED database
     ELSE Rejects(b)

\* The process is killed, or a statement fails.
Interrupted(b) == StepName(b) # "none" /\ Rejects(b)

BootStep(b) ==
  \/ \E root \in Roots : BeginBoot(b, root)
  \/ CheckPosture(b) \/ LockRoutineDefaults(b) \/ CreateShells(b) \/ CheckRows(b) \/ CommitTrustRoot(b)
  \/ Attest(b) \/ Interrupted(b)
  \/ \E x \in boot[b].todo :
       \/ Scrub(b, x) \/ ScrubMembership(b, x) \/ SetPassword(b, x) \/ CreateFunction(b, x)
       \/ TransferOwnership(b, x) \/ ApplyGrants(b, x) \/ GrantMembership(b, x)

BootNext == \E b \in Boots : BootStep(b)

BootSpec == BootInit /\ [][BootNext]_bootVars

-----------------------------------------------------------------------------

Holds(u, f) ==
  \/ <<"public", f>> \in executes \/ <<u, f>> \in executes
  \/ \E r \in Roles : <<r, u>> \in members /\ <<r, f>> \in executes

\* Once a run has cut the memberships of an earlier deployment, a runtime
\* user holds only functions of its own role's policy, no retired one and
\* none through public, and only under a password set since: at every
\* statement of bootstrapPrimarySecurity, wherever it is interrupted and
\* however another run overlaps it.
CapabilitiesFollowPolicy ==
  cut => \A u \in Users, f \in functions :
           Holds(u, f) => password[u] # "old" /\ \E r \in Roles : u = UserOf[r] /\ f \in Policy[r]
=============================================================================
