-------------------------- MODULE ProviderDispatch --------------------------
(***************************************************************************)
(* The one-shot provider dispatch ledger of the primary database            *)
(* (primary-security.js): the occupancy of an effect, the control row of an *)
(* authorization, and its activation row.  Every g1_*_provider_dispatch     *)
(* function is one serializable statement, so one step; a call that raises  *)
(* an exception changes nothing and is not a step.  The roles that call the *)
(* functions are other processes: here any of them calls at any time.       *)
(*                                                                          *)
(* An order is the signed control binding together with the worker          *)
(* specification it is to be executed by.  A grant is a grant id with the   *)
(* execution capability drawn with it and the completion capability derived *)
(* from both: a process holds all three or none.                            *)
(***************************************************************************)
EXTENDS Integers, FiniteSets

CONSTANTS
  Orders,           \* the orders that may be presented
  Grants,
  Legacy,           \* rows of the superseded g1_provider_dispatch_controls
  Results,          \* digests of a result and of its session close
  NoResult,
  MaxTime           \* bound on the database clock

VARIABLES
  now,              \* clock_timestamp(), read after the row lock is held
  installed,        \* the functions exist
  occupancy,        \* g1_provider_effect_occupancy
  controls,         \* g1_provider_dispatch_controls_v2
  activations       \* g1_provider_dispatch_activations_v2

dispatchVars == <<now, installed, occupancy, controls, activations>>

Time == 0..MaxTime
Auths == {o.auth : o \in Orders}
Keys == {o.key : o \in Orders}
Bindings == {o.binding : o \in Orders}

\* The binding digest is taken over the identifiers and the validity; the
\* order's worker specification is not part of it.
ASSUME DispatchAssumption ==
  /\ MaxTime \in Nat
  /\ NoResult \notin Results
  /\ \A o \in Orders : o.issued \in Nat /\ o.expires \in Nat /\ o.issued < o.expires
  /\ \A o, p \in Orders : o.binding = p.binding =>
       o.auth = p.auth /\ o.key = p.key /\ o.issued = p.issued /\ o.expires = p.expires
  /\ \A l, m \in Legacy : (l.key = m.key \/ l.auth = m.auth) => l = m

Live == {"GRANTED", "EXECUTING", "CREDENTIAL_REDEEMED"}
Terminal == {"COMPLETED", "UNKNOWN_DO_NOT_ACT", "EXPIRED"}

Controls ==
  [order: Orders, grant: Grants, state: Live \cup Terminal,
   result: Results \cup {NoResult}]

Occupancies ==
  [key: Keys \cup {l.key : l \in Legacy}, version: {"LEGACY_V1", "CURRENT_V2"},
   auth: Auths \cup {l.auth : l \in Legacy},
   binding: Bindings \cup {l.binding : l \in Legacy}]

Activations == [auth: Auths, grant: Grants, binding: Bindings, at: Time]

DispatchTypeOK ==
  /\ now \in Time
  /\ installed \in BOOLEAN
  /\ occupancy \subseteq Occupancies
  /\ controls \subseteq Controls
  /\ activations \subseteq Activations

DispatchInit ==
  /\ now = 0
  /\ installed = FALSE
  /\ occupancy = {}
  /\ controls = {}
  /\ activations = {}

Tick ==
  /\ now < MaxTime
  /\ now' = now + 1
  /\ UNCHANGED <<installed, occupancy, controls, activations>>

InWindow(o) == o.issued <= now /\ now < o.expires

-----------------------------------------------------------------------------
(* bootstrapPrimarySecurity: the occupancy of both ledgers, then the        *)
(* functions.  It may be run again on a database in use.                    *)

OccupancyOfLegacy(l) ==
  [key |-> l.key, version |-> "LEGACY_V1", auth |-> l.auth, binding |-> l.binding]

OccupancyOf(o) ==
  [key |-> o.key, version |-> "CURRENT_V2", auth |-> o.auth, binding |-> o.binding]

OccupiedKeys(rows) == {r.key : r \in rows}

\* Two INSERT ... SELECT ... ON CONFLICT (provider_effect_key) DO NOTHING.
Reconciled ==
  LET withLegacy == occupancy \cup
        {OccupancyOfLegacy(l) : l \in {m \in Legacy : m.key \notin OccupiedKeys(occupancy)}}
  IN  withLegacy \cup
        {OccupancyOf(c.order) : c \in {d \in controls :
                                   d.order.key \notin OccupiedKeys(withLegacy)}}

\* PROVIDER_EFFECT_OCCUPANCY_PROVENANCE_CONFLICT is not raised.
ProvenanceAgrees(rows) ==
  /\ \A l \in Legacy : OccupancyOfLegacy(l) \in rows
  /\ \A c \in controls : OccupancyOf(c.order) \in rows

Reconcile ==
  /\ ProvenanceAgrees(Reconciled)
  /\ occupancy' = Reconciled
  /\ installed' = TRUE
  /\ UNCHANGED <<now, controls, activations>>

-----------------------------------------------------------------------------
(* The control row. *)

\* UPDATE ... SET state, and the columns that go with it.
Update(c, state, result) ==
  /\ controls' = (controls \ {c}) \cup {[c EXCEPT !.state = state, !.result = result]}
  /\ UNCHANGED <<now, installed, occupancy, activations>>

NoChange == UNCHANGED dispatchVars

Claimed(o) == {c \in controls : c.order.auth = o.auth \/ c.order.key = o.key}

\* Every column but the grant and its capability must agree; two orders with
\* one binding differ in the worker specification.
Presents(c, o) == c.order = o

\* What a caller that shows order o and grant g is compared with.
Owned(o, g) == {c \in controls : c.order = o /\ c.grant = g}

\* The occupancy row is inserted, or is already there for this very binding;
\* the second key of the table is (ledger_version, authorization_id).
MayOccupy(o) ==
  \/ OccupancyOf(o) \in occupancy
  \/ /\ o.key \notin OccupiedKeys(occupancy)
     /\ \A r \in occupancy : ~(r.version = "CURRENT_V2" /\ r.auth = o.auth)

NewControl(o, g) ==
  [order |-> o, grant |-> g, result |-> NoResult,
   state |-> IF InWindow(o) THEN "GRANTED" ELSE "EXPIRED"]

\* g1_claim_provider_dispatch_inner_v2, first claim of the order.  A grant id
\* already in the table makes the insert do nothing and the claim fail.
ClaimNew(o, g) ==
  /\ installed
  /\ MayOccupy(o)
  /\ Claimed(o) = {}
  /\ \A c \in controls : c.grant # g
  /\ occupancy' = occupancy \cup {OccupancyOf(o)}
  /\ controls' = controls \cup {NewControl(o, g)}
  /\ UNCHANGED <<now, installed, activations>>

\* A later claim of the same order, under this or another grant.  The row of
\* a claim that comes outside the window is expired.
ClaimAgain(o, g) ==
  /\ installed
  /\ MayOccupy(o)
  /\ \E c \in controls :
       /\ Claimed(o) = {c}
       /\ Presents(c, o)
       /\ IF c.state = "GRANTED" /\ ~InWindow(o)
            THEN Update(c, "EXPIRED", c.result)
            ELSE NoChange

\* g1_begin_provider_dispatch_inner_v2
Begin(o, g) ==
  \E c \in Owned(o, g) :
    CASE c.state = "GRANTED" /\ InWindow(o) -> Update(c, "EXECUTING", c.result)
      [] c.state = "GRANTED" /\ ~InWindow(o) -> Update(c, "EXPIRED", c.result)
      [] OTHER -> NoChange

\* Fault: a redeemed row past its window is expired as well.
RedeemExpiring(o, g) ==
  \E c \in Owned(o, g) :
    CASE c.state = "EXECUTING" /\ InWindow(o) -> Update(c, "CREDENTIAL_REDEEMED", c.result)
      [] c.state \in {"EXECUTING", "CREDENTIAL_REDEEMED"} /\ ~InWindow(o)
           -> Update(c, "EXPIRED", c.result)
      [] OTHER -> NoChange

\* g1_redeem_provider_dispatch_inner_v2
Redeem(o, g) ==
  \E c \in Owned(o, g) :
    CASE c.state = "EXECUTING" /\ InWindow(o) -> Update(c, "CREDENTIAL_REDEEMED", c.result)
      [] c.state = "EXECUTING" /\ ~InWindow(o) -> Update(c, "EXPIRED", c.result)
      [] OTHER -> NoChange

\* The activator shows the binding and the grant id.
ActivationRow(o, g) == [auth |-> o.auth, grant |-> g, binding |-> o.binding, at |-> now]

ActivatedAuths == {a.auth : a \in activations}

\* g1_activate_provider_dispatch_inner_v2: ACTIVATION_GRANTED
ActivateFirst(o, g) ==
  /\ \E c \in controls :
       /\ c.order.binding = o.binding /\ c.grant = g
       /\ c.state = "CREDENTIAL_REDEEMED" /\ InWindow(c.order)
  /\ o.auth \notin ActivatedAuths
  /\ activations' = activations \cup {ActivationRow(o, g)}
  /\ UNCHANGED <<now, installed, occupancy, controls>>

\* Fault: a result may be recorded before the dispatch was activated.
CompleteUnactivated(o, g, r) ==
  \E c \in controls :
    /\ c.order.binding = o.binding /\ c.grant = g
    /\ c.state = "CREDENTIAL_REDEEMED"
    /\ Update(c, "COMPLETED", r)

\* g1_complete_provider_dispatch_inner_v2.  The window is not consulted: a
\* result that arrives late is recorded if the row was not terminalized.
Complete(o, g, r) ==
  \E c \in controls :
    /\ c.order.binding = o.binding /\ c.grant = g
    /\ c.state = "CREDENTIAL_REDEEMED"
    /\ o.auth \in ActivatedAuths
    /\ Update(c, "COMPLETED", r)

\* g1_mark_provider_dispatch_unknown_inner_v2
MarkUnknown(o, g) ==
  \E c \in controls :
    /\ c.order.binding = o.binding /\ c.grant = g
    /\ c.state = "CREDENTIAL_REDEEMED"
    /\ Update(c, "UNKNOWN_DO_NOT_ACT", c.result)

\* Fault: a redeemed credential is left alone after it has expired.
TerminalizeUnredeemed(o, g) ==
  \E c \in Owned(o, g) :
    IF c.state \in {"GRANTED", "EXECUTING"} /\ now >= o.expires
      THEN Update(c, "EXPIRED", c.result)
      ELSE NoChange

\* g1_terminalize_provider_dispatch_inner_v2
Terminalize(o, g) ==
  \E c \in Owned(o, g) :
    IF c.state \in Live /\ now >= o.expires
      THEN Update(c, IF c.state = "CREDENTIAL_REDEEMED" THEN "UNKNOWN_DO_NOT_ACT"
                                                        ELSE "EXPIRED", c.result)
      ELSE NoChange

DispatchNext ==
  \/ Tick
  \/ Reconcile
  \/ \E o \in Orders, g \in Grants :
       \/ ClaimNew(o, g)
       \/ ClaimAgain(o, g)
       \/ Begin(o, g)
       \/ Redeem(o, g)
       \/ ActivateFirst(o, g)
       \/ \E r \in Results : Complete(o, g, r)
       \/ MarkUnknown(o, g)
       \/ Terminalize(o, g)

DispatchSpec == DispatchInit /\ [][DispatchNext]_dispatchVars

-----------------------------------------------------------------------------
(* Properties *)

\* An effect is dispatched at most once over both ledgers: no two control
\* rows share an authorization, an effect key or a grant, and none is for an
\* effect of the superseded ledger (the unique keys and the occupancy table
\* of g1_claim_provider_dispatch_inner_v2).
OneControlPerEffect ==
  /\ \A c, d \in controls :
       (c.order.auth = d.order.auth \/ c.order.key = d.order.key \/ c.grant = d.grant)
         => c = d
  /\ \A c \in controls, l \in Legacy : c.order.key # l.key

\* Running bootstrapPrimarySecurity again on a database in use never stops on
\* a provenance conflict and never changes an occupancy row.
ReconciliationIsIdempotent ==
  installed => Reconciled = occupancy /\ ProvenanceAgrees(occupancy)

\* What was activated was redeemed first and is never reported as EXPIRED, the
\* state that says the provider cannot have been called; a result is only ever
\* recorded for an activated dispatch, under the grant it was activated with;
\* and all of that for one row per effect, over any number of installations.
ActivationsAreAccountedFor ==
  /\ OneControlPerEffect
  /\ ReconciliationIsIdempotent
  /\ \A a \in activations : \E c \in controls :
       /\ c.order.auth = a.auth /\ c.order.binding = a.binding /\ c.grant = a.grant
       /\ c.state \in {"CREDENTIAL_REDEEMED", "COMPLETED", "UNKNOWN_DO_NOT_ACT"}
       /\ c.order.issued <= a.at /\ a.at < c.order.expires
  /\ \A c \in controls : c.state = "COMPLETED" =>
       \E a \in activations : a.auth = c.order.auth /\ a.grant = c.grant
=============================================================================
