--------------------------- MODULE RecoveryProofs ---------------------------
(***************************************************************************)
(* Proofs about the recovery of context: the audit trail of                 *)
(* recovery-broker.js and the worker of                                     *)
(* integrated-live-drill-provider-recovery.js that drives it.               *)
(***************************************************************************)
EXTENDS ProviderRecovery, RecoveryGrants, SequenceTheorems, TLAPS

-----------------------------------------------------------------------------
(* The two tables. *)

\* A phase of an interaction has one event; a version or a source one bundle.
OneEventPerPhase ==
  \A e, f \in events : e.interaction = f.interaction /\ e.phase = f.phase => e = f

OneBundle == \A b, d \in bundles : b.version = d.version \/ b.source = d.source => b = d

\* Rows stay, and a write that is accepted contradicts none of them.
LEMMA CommitKeeps ==
  ASSUME OneEventPerPhase, OneBundle, NEW w, Accepted(w), Commit(w)
  PROVE  /\ OneEventPerPhase' /\ OneBundle' /\ events \subseteq events' /\ bundles \subseteq bundles'
         /\ Present(w)'
  <1>1. CASE w.table = "events"
    <2>1. EventAccepted(w.row) /\ events' = events \cup {w.row} /\ bundles' = bundles
      BY <1>1 DEF Accepted, Commit
    <2>2. PICK same : same = {x \in events :
                                \/ x.id = w.row.id
                                \/ x.interaction = w.row.interaction /\ x.phase = w.row.phase}
      OBVIOUS
    <2>3. same = {} \/ same = {w.row}
      BY <2>1, <2>2 DEF EventAccepted
    <2>4. \A x \in events : x.interaction = w.row.interaction /\ x.phase = w.row.phase => x = w.row
      BY <2>2, <2>3
    <2>5. OneEventPerPhase'
      BY <2>1, <2>4 DEF OneEventPerPhase
    <2>6. OneBundle'
      BY <2>1 DEF OneBundle
    <2> QED BY <1>1, <2>1, <2>5, <2>6 DEF Present, EventPresent
  <1>2. CASE w.table # "events"
    <2>1. BundleAccepted(w.row) /\ bundles' = bundles \cup {w.row} /\ events' = events
      BY <1>2 DEF Accepted, Commit
    <2>2. \A x \in bundles : x.version = w.row.version \/ x.source = w.row.source => x = w.row
      BY <2>1 DEF BundleAccepted
    <2>3. OneBundle'
      BY <2>1, <2>2 DEF OneBundle
    <2>4. OneEventPerPhase'
      BY <2>1 DEF OneEventPerPhase
    <2> QED BY <1>2, <2>1, <2>3, <2>4 DEF Present, BundlePresent
  <1> QED BY <1>1, <1>2

-----------------------------------------------------------------------------
(* The writes of the clients. *)

SinkPlaces == {"idle", "write", "resolve", "done", "error"}

Outcomes == {"read_authorized", "unknown_do_not_act", "recovered_context_only"}

EventRows ==
  {Event(i, phase, outcome, result, started, at) :
     i \in Clients \cup {Drill}, phase \in {"pre_read", "terminal"}, outcome \in Outcomes,
     result \in Bundles \cup {None}, started \in Nat, at \in Nat}

Rows == EventRows \cup Bundles \cup {None}

SinkShape == [at: SinkPlaces, table: {"events", "bundles", None}, row: Rows]

\* Only a bundle goes to the table of bundles.
Sound(w) == w.table = "events" \/ w.row \in Bundles

\* A write that was answered with success is in its table.
WriteInv(x) ==
  /\ sink[x].at # "idle" => Sound(sink[x])
  /\ sink[x].at = "done" => Present(sink[x])

SinkInv ==
  /\ sink \in [Clients -> SinkShape]
  /\ bundles \subseteq Bundles /\ OneEventPerPhase /\ OneBundle
  /\ \A w \in late : Sound(w)
  /\ \A x \in Clients : WriteInv(x)

\* What the requests of a client do to its own write.
LEMMA SinkMoves ==
  ASSUME SinkInv, NEW x \in Clients
  PROVE  /\ \A at \in SinkPlaces : Goto(x, at) =>
              /\ sink' \in [Clients -> SinkShape]
              /\ sink'[x].at = at /\ sink'[x].table = sink[x].table /\ sink'[x].row = sink[x].row
              /\ \A y \in Clients : y # x => sink'[y] = sink[y]
         /\ \A table \in {"events", "bundles"}, row \in Rows : Asks(x, table, row) =>
              /\ sink' \in [Clients -> SinkShape]
              /\ sink'[x].at = "write" /\ sink'[x].table = table /\ sink'[x].row = row
              /\ \A y \in Clients : y # x => sink'[y] = sink[y]
         /\ Forgets(x) =>
              /\ sink' \in [Clients -> SinkShape]
              /\ sink'[x].at = "idle"
              /\ \A y \in Clients : y # x => sink'[y] = sink[y]
  <1>1. sink \in [Clients -> SinkShape]
    BY DEF SinkInv
  <1>2. ASSUME NEW at \in SinkPlaces, Goto(x, at)
        PROVE  /\ sink' \in [Clients -> SinkShape]
               /\ sink'[x].at = at /\ sink'[x].table = sink[x].table /\ sink'[x].row = sink[x].row
               /\ \A y \in Clients : y # x => sink'[y] = sink[y]
    BY <1>1, <1>2 DEF Goto, SinkShape
  <1>3. ASSUME NEW table \in {"events", "bundles"}, NEW row \in Rows, Asks(x, table, row)
        PROVE  /\ sink' \in [Clients -> SinkShape]
               /\ sink'[x].at = "write" /\ sink'[x].table = table /\ sink'[x].row = row
               /\ \A y \in Clients : y # x => sink'[y] = sink[y]
    BY <1>1, <1>3 DEF Asks, SinkShape, SinkPlaces
  <1>4. ASSUME Forgets(x)
        PROVE  /\ sink' \in [Clients -> SinkShape]
               /\ sink'[x].at = "idle"
               /\ \A y \in Clients : y # x => sink'[y] = sink[y]
    <2>1. Quiet \in SinkShape /\ Quiet.at = "idle"
      BY DEF Quiet, SinkShape, SinkPlaces, Rows
    <2> QED BY <1>1, <1>4, <2>1 DEF Forgets
  <1> QED BY <1>2, <1>3, <1>4

TablesGrow == events \subseteq events' /\ bundles \subseteq bundles'

\* A write that is left alone stays where it is.
LEMMA OtherWritesKeep ==
  ASSUME NEW x \in Clients, WriteInv(x), TablesGrow, sink'[x] = sink[x]
  PROVE  WriteInv(x)'
  BY DEF WriteInv, TablesGrow, Sound, Present, EventPresent, BundlePresent

\* RecoveryAuditSink.append and RecoveryStore.appendBundle, request by request.
LEMMA SinkStepKeeps ==
  ASSUME SinkInv, SinkStep
  PROVE  /\ SinkInv' /\ TablesGrow
         /\ \A x \in Clients : sink'[x].table = sink[x].table /\ sink'[x].row = sink[x].row
  <1>1. ASSUME NEW x \in Clients, WriteFails(x)
        PROVE  /\ SinkInv' /\ TablesGrow
               /\ \A y \in Clients : sink'[y].table = sink[y].table /\ sink'[y].row = sink[y].row
    <2>1. Goto(x, "error") /\ UNCHANGED <<bundles, events, late>> /\ sink[x].at = "write"
      BY <1>1 DEF WriteFails, tables
    <2>2. /\ sink' \in [Clients -> SinkShape]
          /\ sink'[x].at = "error" /\ sink'[x].table = sink[x].table /\ sink'[x].row = sink[x].row
          /\ \A y \in Clients : y # x => sink'[y] = sink[y]
      BY <2>1, SinkMoves DEF SinkPlaces
    <2>3. WriteInv(x)'
      BY <2>1, <2>2 DEF SinkInv, WriteInv, Sound
    <2>4. TablesGrow
      BY <2>1 DEF TablesGrow
    <2>5. \A y \in Clients : WriteInv(y)'
      BY <2>2, <2>3, <2>4, OtherWritesKeep DEF SinkInv
    <2> QED BY <2>1, <2>2, <2>4, <2>5 DEF SinkInv, OneEventPerPhase, OneBundle
  <1>2. ASSUME NEW x \in Clients, NEW at \in {"done", "resolve"}, sink[x].at = "write",
               Accepted(sink[x]), Commit(sink[x]), Goto(x, at), UNCHANGED late
        PROVE  /\ SinkInv' /\ TablesGrow
               /\ \A y \in Clients : sink'[y].table = sink[y].table /\ sink'[y].row = sink[y].row
    <2>0. SinkInv /\ WriteInv(x)
      BY DEF SinkInv
    <2>1. /\ sink' \in [Clients -> SinkShape]
          /\ sink'[x].at = at /\ sink'[x].table = sink[x].table /\ sink'[x].row = sink[x].row
          /\ \A y \in Clients : y # x => sink'[y] = sink[y]
      BY <1>2, SinkMoves DEF SinkPlaces
    <2>2. PICK w : w = sink[x]
      OBVIOUS
    <2>3. Accepted(w) /\ Commit(w)
      BY <1>2, <2>2
    <2>4. /\ OneEventPerPhase' /\ OneBundle' /\ TablesGrow /\ Present(w)'
      BY <2>0, <2>3, CommitKeeps DEF SinkInv, TablesGrow
    <2>5. bundles' \subseteq Bundles
      BY <1>2, <2>0, <2>2, <2>3 DEF SinkInv, WriteInv, Sound, Commit
    <2>6. WriteInv(x)'
      <3>1. Sound(w)
        BY <1>2, <2>0, <2>2 DEF WriteInv
      <3>2. Sound(sink[x])'
        BY <2>1, <2>2, <3>1 DEF Sound
      <3>3. Present(sink[x])'
        BY <2>1, <2>2, <2>4 DEF Present, EventPresent, BundlePresent
      <3> QED BY <3>2, <3>3 DEF WriteInv
    <2>7. \A y \in Clients : WriteInv(y)'
      BY <2>0, <2>1, <2>4, <2>6, OtherWritesKeep DEF SinkInv
    <2> QED BY <1>2, <2>0, <2>1, <2>4, <2>5, <2>7 DEF SinkInv, Sound
  <1>3. ASSUME NEW x \in Clients, NEW at \in {"done", "resolve", "error"},
               sink[x].at \in {"write", "resolve"}, at = "done" => Present(sink[x]),
               Goto(x, at), UNCHANGED tables, late' \subseteq late \cup {sink[x]}
        PROVE  /\ SinkInv' /\ TablesGrow
               /\ \A y \in Clients : sink'[y].table = sink[y].table /\ sink'[y].row = sink[y].row
    <2>0. SinkInv /\ WriteInv(x) /\ UNCHANGED <<events, bundles>>
      BY <1>3 DEF SinkInv, tables
    <2>1. /\ sink' \in [Clients -> SinkShape]
          /\ sink'[x].at = at /\ sink'[x].table = sink[x].table /\ sink'[x].row = sink[x].row
          /\ \A y \in Clients : y # x => sink'[y] = sink[y]
      BY <1>3, SinkMoves DEF SinkPlaces
    <2>2. Sound(sink[x])
      BY <1>3, <2>0 DEF WriteInv
    <2>3. \A w \in late' : Sound(w)
      BY <1>3, <2>0, <2>2 DEF SinkInv
    <2>4. WriteInv(x)'
      <3>1. Sound(sink[x])'
        BY <2>1, <2>2 DEF Sound
      <3>2. sink'[x].at = "done" => Present(sink[x])'
        BY <1>3, <2>0, <2>1 DEF Present, EventPresent, BundlePresent
      <3> QED BY <3>1, <3>2 DEF WriteInv
    <2>5. TablesGrow
      BY <2>0 DEF TablesGrow
    <2>6. \A y \in Clients : WriteInv(y)'
      BY <2>0, <2>1, <2>4, <2>5, OtherWritesKeep DEF SinkInv
    <2>7. OneEventPerPhase' /\ OneBundle' /\ bundles' \subseteq Bundles
      BY <2>0 DEF SinkInv, OneEventPerPhase, OneBundle
    <2>8. (\A w \in late : Sound(w))'
      BY <2>3 DEF Sound
    <2> QED BY <2>1, <2>5, <2>6, <2>7, <2>8 DEF SinkInv
  <1>4. ASSUME NEW x \in Clients, WriteCommits(x)
        PROVE  /\ SinkInv' /\ TablesGrow
               /\ \A y \in Clients : sink'[y].table = sink[y].table /\ sink'[y].row = sink[y].row
    <2>1. CASE Commit(sink[x]) /\ Goto(x, "done") /\ UNCHANGED <<late, faults>>
      BY <1>2, <1>4, <2>1 DEF WriteCommits
    <2>2. CASE Commit(sink[x]) /\ Goto(x, "resolve") /\ Fault /\ UNCHANGED late
      BY <1>2, <1>4, <2>2 DEF WriteCommits
    <2>3. CASE Goto(x, "resolve") /\ UNCHANGED tables /\ late' \in {late, late \cup {sink[x]}}
      <3>1. sink[x].at = "write" /\ late' \subseteq late \cup {sink[x]}
        BY <1>4, <2>3 DEF WriteCommits
      <3> QED BY <1>3, <2>3, <3>1
    <2> QED BY <1>4, <2>1, <2>2, <2>3 DEF WriteCommits
  <1>5. ASSUME NEW x \in Clients, Resolve(x)
        PROVE  /\ SinkInv' /\ TablesGrow
               /\ \A y \in Clients : sink'[y].table = sink[y].table /\ sink'[y].row = sink[y].row
    <2>1. PICK at \in {"done", "error"} :
            Goto(x, at) /\ (at = "done" => Present(sink[x])) /\ UNCHANGED <<tables, late>>
            /\ sink[x].at = "resolve"
      BY <1>5 DEF Resolve
    <2>2. at \in {"done", "resolve", "error"} /\ late' \subseteq late \cup {sink[x]}
      BY <2>1
    <2> QED BY <1>3, <2>1, <2>2
  <1>6. ASSUME NEW w \in late, CommitsLate(w)
        PROVE  /\ SinkInv' /\ TablesGrow
               /\ \A y \in Clients : sink'[y].table = sink[y].table /\ sink'[y].row = sink[y].row
    <2>1. late' \subseteq late /\ UNCHANGED sink
      BY <1>6 DEF CommitsLate
    <2>2. /\ OneEventPerPhase' /\ OneBundle' /\ TablesGrow /\ bundles' \subseteq Bundles
      <3>1. CASE Accepted(w) /\ Commit(w)
        <4>1. bundles' \subseteq Bundles
          BY <3>1 DEF SinkInv, Sound, Commit
        <4> QED BY <3>1, <4>1, CommitKeeps DEF SinkInv, TablesGrow
      <3>2. CASE UNCHANGED tables
        BY <3>2 DEF SinkInv, tables, TablesGrow, OneEventPerPhase, OneBundle
      <3> QED BY <1>6, <3>1, <3>2 DEF CommitsLate
    <2>3. \A y \in Clients : WriteInv(y)'
      BY <2>1, <2>2, OtherWritesKeep DEF SinkInv
    <2>4. (\A v \in late : Sound(v))'
      BY <2>1 DEF SinkInv, Sound
    <2> QED BY <2>1, <2>2, <2>3, <2>4 DEF SinkInv
  <1> QED BY <1>1, <1>4, <1>5, <1>6 DEF SinkStep

\* A client asks for a write, or is done with it.
LEMMA ClientAsks ==
  ASSUME SinkInv, NEW x \in Clients, UNCHANGED <<tables, late>>
  PROVE  /\ \A row \in EventRows : Asks(x, "events", row) => SinkInv'
         /\ \A b \in Bundles : Asks(x, "bundles", b) => SinkInv'
         /\ Forgets(x) => SinkInv'
         /\ UNCHANGED sink => SinkInv'
         /\ TablesGrow
  <1>0. UNCHANGED <<events, bundles, late>> /\ TablesGrow
    BY DEF tables, TablesGrow
  <1>1. ASSUME sink' \in [Clients -> SinkShape], \A y \in Clients : y # x => sink'[y] = sink[y],
               WriteInv(x)'
        PROVE  SinkInv'
    <2>1. \A y \in Clients : WriteInv(y)'
      BY <1>0, <1>1, OtherWritesKeep DEF SinkInv
    <2> QED BY <1>0, <1>1, <2>1 DEF SinkInv, OneEventPerPhase, OneBundle, Sound
  <1>2. ASSUME NEW row \in EventRows, Asks(x, "events", row) PROVE SinkInv'
    <2>1. row \in Rows
      BY DEF Rows
    <2>2. /\ sink' \in [Clients -> SinkShape]
          /\ sink'[x].at = "write" /\ sink'[x].table = "events"
          /\ \A y \in Clients : y # x => sink'[y] = sink[y]
      BY <1>2, <2>1, SinkMoves
    <2>3. WriteInv(x)'
      BY <2>2 DEF WriteInv, Sound
    <2> QED BY <1>1, <2>2, <2>3
  <1>3. ASSUME NEW b \in Bundles, Asks(x, "bundles", b) PROVE SinkInv'
    <2>1. b \in Rows
      BY DEF Rows
    <2>2. /\ sink' \in [Clients -> SinkShape]
          /\ sink'[x].at = "write" /\ sink'[x].row = b
          /\ \A y \in Clients : y # x => sink'[y] = sink[y]
      BY <1>3, <2>1, SinkMoves
    <2>3. WriteInv(x)'
      BY <2>2 DEF WriteInv, Sound
    <2> QED BY <1>1, <2>2, <2>3
  <1>4. ASSUME Forgets(x) PROVE SinkInv'
    <2>1. /\ sink' \in [Clients -> SinkShape] /\ sink'[x].at = "idle"
          /\ \A y \in Clients : y # x => sink'[y] = sink[y]
      BY <1>4, SinkMoves
    <2>2. WriteInv(x)'
      BY <2>1 DEF WriteInv
    <2> QED BY <1>1, <2>1, <2>2
  <1>5. ASSUME UNCHANGED sink PROVE SinkInv'
    <2>1. WriteInv(x)'
      BY <1>0, <1>5, OtherWritesKeep DEF SinkInv
    <2> QED BY <1>1, <1>5, <2>1 DEF SinkInv
  <1> QED BY <1>0, <1>2, <1>3, <1>4, <1>5

-----------------------------------------------------------------------------
(* The callers of recover. *)

CallerPlaces == {"idle", "pre", "query", "read", "failing", "completing", "returned"}

CallerShape ==
  [at: CallerPlaces, source: Sources \cup {None}, started: Nat, result: Bundles \cup {None}]

Told == [said: {None, "UNKNOWN", "RECOVERED_CONTEXT_ONLY"}, bundle: Bundles \cup {None}]

\* The write of a caller is that of the place it waits in.
Waiting(c) ==
  /\ caller[c].at = "pre" =>
       /\ sink[c].table = "events"
       /\ sink[c].row.interaction = c /\ sink[c].row.phase = "pre_read"
  /\ caller[c].at = "completing" =>
       /\ sink[c].table = "events"
       /\ sink[c].row.interaction = c /\ sink[c].row.phase = "terminal"
       /\ sink[c].row.outcome = "recovered_context_only"
       /\ sink[c].row.result = caller[c].result
       /\ sink[c].row.at < caller[c].result.until

\* What a caller has behind it stands in the tables.
Behind(c) ==
  /\ caller[c].at \in {"query", "read", "completing"} => EventOf(c, "pre_read") # {}
  /\ caller[c].at \in {"read", "completing"} => caller[c].result \in bundles
  /\ told[c].said = "RECOVERED_CONTEXT_ONLY" =>
       \E e \in EventOf(c, "terminal") :
         /\ e.outcome = "recovered_context_only" /\ e.result = told[c].bundle
         /\ e.result \in bundles /\ e.at < e.result.until

BrokerInv ==
  /\ SinkInv /\ now \in Nat
  /\ caller \in [Callers -> CallerShape] /\ told \in [Callers -> Told]
  /\ \A c \in Callers : Waiting(c) /\ Behind(c)

\* A caller that does not move keeps what it has.
LEMMA OtherCallersKeep ==
  ASSUME BrokerInv, TablesGrow, NEW c \in Callers, caller'[c] = caller[c], told'[c] = told[c],
         sink'[c].table = sink[c].table, sink'[c].row = sink[c].row
  PROVE  Waiting(c)' /\ Behind(c)'
  <1>1. Waiting(c) /\ Behind(c)
    BY DEF BrokerInv
  <1>2. Waiting(c)'
    BY <1>1 DEF Waiting
  <1>3. Behind(c)'
    BY <1>1 DEF Behind, EventOf, TablesGrow
  <1> QED BY <1>2, <1>3

\* A step of one caller.
LEMMA CallerMoves ==
  ASSUME BrokerInv, NEW c \in Callers, UNCHANGED now, SinkInv', TablesGrow,
         caller' \in [Callers -> CallerShape], told' \in [Callers -> Told],
         \A d \in Callers : d # c => /\ caller'[d] = caller[d] /\ told'[d] = told[d]
                                     /\ sink'[d] = sink[d],
         Waiting(c)', Behind(c)'
  PROVE  BrokerInv'
  <1>1. \A d \in Callers : Waiting(d)' /\ Behind(d)'
    BY OtherCallersKeep
  <1> QED BY <1>1 DEF BrokerInv

\* The shapes a caller takes.
LEMMA CallerShapes ==
  ASSUME BrokerInv, NEW c \in Callers
  PROVE  /\ \A at \in CallerPlaces : caller' = [caller EXCEPT ![c].at = at] =>
              /\ caller' \in [Callers -> CallerShape]
              /\ caller'[c].at = at /\ caller'[c].result = caller[c].result
              /\ \A d \in Callers : d # c => caller'[d] = caller[d]
         /\ \A said \in {"UNKNOWN", "RECOVERED_CONTEXT_ONLY"}, b \in Bundles \cup {None} :
              Ends(c, said, b) =>
                /\ caller' \in [Callers -> CallerShape] /\ told' \in [Callers -> Told]
                /\ caller'[c].at = "returned" /\ told'[c].said = said /\ told'[c].bundle = b
                /\ \A d \in Callers : d # c => caller'[d] = caller[d] /\ told'[d] = told[d]
  <1>1. caller \in [Callers -> CallerShape] /\ told \in [Callers -> Told]
    BY DEF BrokerInv
  <1>2. ASSUME NEW at \in CallerPlaces, caller' = [caller EXCEPT ![c].at = at]
        PROVE  /\ caller' \in [Callers -> CallerShape]
               /\ caller'[c].at = at /\ caller'[c].result = caller[c].result
               /\ \A d \in Callers : d # c => caller'[d] = caller[d]
    BY <1>1, <1>2 DEF CallerShape
  <1>3. ASSUME NEW said \in {"UNKNOWN", "RECOVERED_CONTEXT_ONLY"}, NEW b \in Bundles \cup {None},
               Ends(c, said, b)
        PROVE  /\ caller' \in [Callers -> CallerShape] /\ told' \in [Callers -> Told]
               /\ caller'[c].at = "returned" /\ told'[c].said = said /\ told'[c].bundle = b
               /\ \A d \in Callers : d # c => caller'[d] = caller[d] /\ told'[d] = told[d]
    <2>1. PICK n : n = [Resting EXCEPT !.at = "returned"]
      OBVIOUS
    <2>2. n \in CallerShape /\ n.at = "returned"
      BY <2>1 DEF Resting, CallerShape, CallerPlaces
    <2>3. PICK m : m = [said |-> said, bundle |-> b]
      OBVIOUS
    <2>4. m \in Told /\ m.said = said /\ m.bundle = b
      BY <2>3 DEF Told
    <2>5. caller' = [caller EXCEPT ![c] = n] /\ told' = [told EXCEPT ![c] = m]
      BY <1>3, <2>1, <2>3 DEF Ends
    <2> QED BY <1>1, <2>2, <2>4, <2>5
  <1> QED BY <1>2, <1>3

\* The columns of an event.
LEMMA EventRow ==
  ASSUME NEW i \in Clients, NEW phase \in {"pre_read", "terminal"}, NEW outcome \in Outcomes,
         NEW result \in Bundles \cup {None}, NEW started \in Nat, NEW at \in Nat
  PROVE  /\ Event(i, phase, outcome, result, started, at) \in EventRows
         /\ Event(i, phase, outcome, result, started, at).interaction = i
         /\ Event(i, phase, outcome, result, started, at).phase = phase
         /\ Event(i, phase, outcome, result, started, at).outcome = outcome
         /\ Event(i, phase, outcome, result, started, at).result = result
         /\ Event(i, phase, outcome, result, started, at).at = at
  <1>1. Event(i, phase, outcome, result, started, at) \in EventRows
    BY DEF EventRows
  <1> QED BY <1>1 DEF Event

\* A caller that gives up waits for an event nothing depends on.
LEMMA GivesUp ==
  ASSUME BrokerInv, NEW c \in Callers, caller' = [caller EXCEPT ![c].at = "failing"],
         AsksUnknown(c), UNCHANGED <<now, tables, late, told>>
  PROVE  BrokerInv'
  <1>0. c \in Clients /\ caller[c] \in CallerShape /\ now \in Nat /\ SinkInv
    BY BrokerAssumption DEF BrokerInv
  <1>1. PICK row : row = Event(c, "terminal", "unknown_do_not_act", caller[c].result,
                               caller[c].started, now)
    OBVIOUS
  <1>2. row \in EventRows
    BY <1>0, <1>1, EventRow DEF CallerShape, Outcomes
  <1>3. Asks(c, "events", row)
    BY <1>1 DEF AsksUnknown
  <1>4. SinkInv' /\ TablesGrow
    BY <1>0, <1>2, <1>3, ClientAsks
  <1>5. \A d \in Clients : d # c => sink'[d] = sink[d]
    BY <1>0, <1>2, <1>3, SinkMoves DEF Rows
  <1>6. /\ caller' \in [Callers -> CallerShape] /\ caller'[c].at = "failing"
        /\ \A d \in Callers : d # c => caller'[d] = caller[d]
    BY CallerShapes DEF CallerPlaces
  <1>7. Waiting(c)'
    BY <1>6 DEF Waiting
  <1>8. Behind(c)'
    BY <1>4, <1>6 DEF BrokerInv, Behind, EventOf, TablesGrow
  <1> QED BY <1>4, <1>5, <1>6, <1>7, <1>8, CallerMoves, BrokerAssumption DEF BrokerInv

\* The steps of recover.
LEMMA RecoverKeeps ==
  ASSUME BrokerInv, NEW c \in Callers, RecoverStep(c)
  PROVE  BrokerInv'
  <1>0. /\ c \in Clients /\ Callers \subseteq Clients /\ caller[c] \in CallerShape /\ now \in Nat
        /\ SinkInv /\ WriteInv(c) /\ Waiting(c) /\ Behind(c) /\ sink[c] \in SinkShape
        /\ caller \in [Callers -> CallerShape] /\ told \in [Callers -> Told]
    BY BrokerAssumption DEF BrokerInv, SinkInv
  <1>1. ASSUME NEW src \in Sources, PrepareRecovery(c, src) PROVE BrokerInv'
    <2>1. PICK row : row = Event(c, "pre_read", "read_authorized", None, now, now)
      OBVIOUS
    <2>2. row \in EventRows /\ row.interaction = c /\ row.phase = "pre_read"
      BY <1>0, <2>1, EventRow DEF Outcomes
    <2>3. Asks(c, "events", row) /\ UNCHANGED <<now, tables, late, told>>
      BY <1>1, <2>1 DEF PrepareRecovery
    <2>4. SinkInv' /\ TablesGrow
      BY <1>0, <2>2, <2>3, ClientAsks
    <2>5. sink'[c].table = "events" /\ sink'[c].row = row /\ \A d \in Clients : d # c => sink'[d] = sink[d]
      BY <1>0, <2>2, <2>3, SinkMoves DEF Rows
    <2>6. PICK n : n = [at |-> "pre", source |-> src, started |-> now, result |-> None]
      OBVIOUS
    <2>7. n \in CallerShape /\ n.at = "pre"
      BY <1>0, <2>6 DEF CallerShape, CallerPlaces
    <2>8. caller' = [caller EXCEPT ![c] = n]
      BY <1>1, <2>6 DEF PrepareRecovery
    <2>9. /\ caller' \in [Callers -> CallerShape] /\ caller'[c].at = "pre"
          /\ \A d \in Callers : d # c => caller'[d] = caller[d]
      BY <1>0, <2>7, <2>8
    <2>10. Waiting(c)'
      BY <2>2, <2>5, <2>9 DEF Waiting
    <2>11. Behind(c)'
      BY <1>0, <2>3, <2>4, <2>9 DEF Behind, EventOf, TablesGrow
    <2> QED BY <1>0, <2>3, <2>4, <2>5, <2>9, <2>10, <2>11, CallerMoves
  <1>2. ASSUME PreReadCommitted(c) PROVE BrokerInv'
    <2>1. /\ caller[c].at = "pre" /\ sink[c].at = "done" /\ Forgets(c)
          /\ caller' = [caller EXCEPT ![c].at = "query"] /\ UNCHANGED <<now, tables, late, told>>
      BY <1>2 DEF PreReadCommitted, At, Replied
    <2>2. SinkInv' /\ TablesGrow /\ \A d \in Clients : d # c => sink'[d] = sink[d]
      BY <1>0, <2>1, ClientAsks, SinkMoves
    <2>3. /\ caller' \in [Callers -> CallerShape] /\ caller'[c].at = "query"
          /\ \A d \in Callers : d # c => caller'[d] = caller[d]
      BY <2>1, CallerShapes DEF CallerPlaces
    <2>4. sink[c].row \in EventOf(c, "pre_read")
      BY <1>0, <2>1 DEF WriteInv, Waiting, Present, EventPresent, EventOf
    <2>5. Waiting(c)'
      BY <2>3 DEF Waiting
    <2>6. Behind(c)'
      BY <1>0, <2>1, <2>2, <2>3, <2>4 DEF Behind, EventOf, TablesGrow
    <2> QED BY <1>0, <2>1, <2>2, <2>3, <2>5, <2>6, CallerMoves
  <1>3. ASSUME Ends(c, "UNKNOWN", None), Forgets(c), UNCHANGED <<now, tables, late>> PROVE BrokerInv'
    <2>1. SinkInv' /\ TablesGrow /\ \A d \in Clients : d # c => sink'[d] = sink[d]
      BY <1>0, <1>3, ClientAsks, SinkMoves
    <2>2. /\ caller' \in [Callers -> CallerShape] /\ told' \in [Callers -> Told]
          /\ caller'[c].at = "returned" /\ told'[c].said = "UNKNOWN"
          /\ \A d \in Callers : d # c => caller'[d] = caller[d] /\ told'[d] = told[d]
      BY <1>3, CallerShapes
    <2>3. Waiting(c)' /\ Behind(c)'
      BY <2>2 DEF Waiting, Behind
    <2> QED BY <1>0, <1>3, <2>1, <2>2, <2>3, CallerMoves
  <1>4. ASSUME ExecutePreparedRecovery(c) PROVE BrokerInv'
    <2>1. caller[c].at = "query" /\ UNCHANGED <<now, tables, late, told>>
      BY <1>4 DEF ExecutePreparedRecovery, At
    <2>2. ASSUME NEW b \in bundles, UNCHANGED sink,
                 caller' = [caller EXCEPT ![c].at = "read", ![c].result = b]
          PROVE  BrokerInv'
      <3>1. SinkInv' /\ TablesGrow
        BY <1>0, <2>1, <2>2, ClientAsks
      <3>2. b \in Bundles
        BY <1>0 DEF SinkInv
      <3>3. /\ caller' \in [Callers -> CallerShape] /\ caller'[c].at = "read" /\ caller'[c].result = b
            /\ \A d \in Callers : d # c => caller'[d] = caller[d]
        BY <1>0, <2>2, <3>2 DEF CallerShape, CallerPlaces
      <3>4. Waiting(c)'
        BY <3>3 DEF Waiting
      <3>5. Behind(c)'
        BY <1>0, <2>1, <3>1, <3>3 DEF Behind, EventOf, TablesGrow
      <3> QED BY <1>0, <2>1, <2>2, <3>1, <3>3, <3>4, <3>5, CallerMoves
    <2>3. CASE caller' = [caller EXCEPT ![c].at = "failing"] /\ AsksUnknown(c)
      BY <2>1, <2>3, GivesUp
    <2> QED BY <1>4, <2>2, <2>3 DEF ExecutePreparedRecovery
  <1>5. ASSUME CompletePreparedRecovery(c) PROVE BrokerInv'
    <2>1. caller[c].at = "read" /\ UNCHANGED <<now, tables, late, told>>
      BY <1>5 DEF CompletePreparedRecovery, At
    <2>2. CASE ~Fresh(caller[c].result)
      BY <1>5, <2>1, <2>2, GivesUp DEF CompletePreparedRecovery
    <2>3. CASE Fresh(caller[c].result)
      <3>1. PICK row : row = Event(c, "terminal", "recovered_context_only", caller[c].result,
                                   caller[c].started, now)
        OBVIOUS
      <3>2. /\ row \in EventRows /\ row.interaction = c /\ row.phase = "terminal"
            /\ row.outcome = "recovered_context_only" /\ row.result = caller[c].result /\ row.at = now
        <4>1. PICK result, started : result = caller[c].result /\ started = caller[c].started
          OBVIOUS
        <4>2. result \in Bundles \cup {None} /\ started \in Nat /\ "recovered_context_only" \in Outcomes
          BY <1>0, <4>1 DEF CallerShape, Outcomes
        <4>3. row = Event(c, "terminal", "recovered_context_only", result, started, now)
          BY <3>1, <4>1
        <4>4. row \in EventRows
          BY <1>0, <4>2, <4>3, EventRow
        <4> QED BY <4>1, <4>3, <4>4 DEF Event
      <3>3. Asks(c, "events", row) /\ caller' = [caller EXCEPT ![c].at = "completing"]
        BY <1>5, <2>3, <3>1 DEF CompletePreparedRecovery
      <3>4. SinkInv' /\ TablesGrow
        BY <1>0, <2>1, <3>2, <3>3, ClientAsks
      <3>5. sink'[c].table = "events" /\ sink'[c].row = row /\ \A d \in Clients : d # c => sink'[d] = sink[d]
        BY <1>0, <3>2, <3>3, SinkMoves DEF Rows
      <3>6. /\ caller' \in [Callers -> CallerShape] /\ caller'[c].at = "completing"
            /\ caller'[c].result = caller[c].result
            /\ \A d \in Callers : d # c => caller'[d] = caller[d]
        BY <3>3, CallerShapes DEF CallerPlaces
      <3>7. Waiting(c)'
        BY <2>3, <3>2, <3>5, <3>6 DEF Waiting, Fresh
      <3>8. Behind(c)'
        BY <1>0, <2>1, <3>4, <3>6 DEF Behind, EventOf, TablesGrow
      <3> QED BY <1>0, <2>1, <3>4, <3>5, <3>6, <3>7, <3>8, CallerMoves
    <2> QED BY <2>2, <2>3
  <1>6. ASSUME Completed(c) PROVE BrokerInv'
    <2>1. /\ caller[c].at = "completing" /\ sink[c].at = "done" /\ Forgets(c)
          /\ Ends(c, "RECOVERED_CONTEXT_ONLY", caller[c].result) /\ UNCHANGED <<now, tables, late>>
      BY <1>6 DEF Completed, At, Replied
    <2>2. SinkInv' /\ TablesGrow /\ \A d \in Clients : d # c => sink'[d] = sink[d]
      BY <1>0, <2>1, ClientAsks, SinkMoves
    <2>3. PICK b : b = caller[c].result
      OBVIOUS
    <2>4. b \in Bundles \cup {None} /\ b \in bundles
      BY <1>0, <2>1, <2>3 DEF CallerShape, Behind
    <2>5. /\ caller' \in [Callers -> CallerShape] /\ told' \in [Callers -> Told]
          /\ caller'[c].at = "returned" /\ told'[c].bundle = b
          /\ \A d \in Callers : d # c => caller'[d] = caller[d] /\ told'[d] = told[d]
      BY <2>1, <2>3, <2>4, CallerShapes
    <2>6. PICK e : e = sink[c].row
      OBVIOUS
    <2>7. /\ e \in EventOf(c, "terminal") /\ e.outcome = "recovered_context_only" /\ e.result = b
          /\ e.at < b.until
      BY <1>0, <2>1, <2>3, <2>6 DEF WriteInv, Waiting, Present, EventPresent, EventOf
    <2>8. Waiting(c)'
      BY <2>5 DEF Waiting
    <2>9. Behind(c)'
      BY <2>2, <2>4, <2>5, <2>7 DEF Behind, EventOf, TablesGrow
    <2> QED BY <1>0, <2>1, <2>2, <2>5, <2>8, <2>9, CallerMoves
  <1>7. ASSUME FailPreparedRecovery(c) PROVE BrokerInv'
    BY <1>7, GivesUp DEF FailPreparedRecovery
  <1> QED BY <1>1, <1>2, <1>3, <1>4, <1>5, <1>6, <1>7
       DEF RecoverStep, PreReadUnavailable, Failed

\* The sink, the publishers and the clock.
LEMMA BrokerStepKeeps ==
  ASSUME BrokerInv, [BrokerNext]_brokerVars
  PROVE  BrokerInv'
  <1>0. SinkInv /\ now \in Nat /\ Callers \subseteq Clients /\ Publishers \subseteq Clients
    BY BrokerAssumption DEF BrokerInv
  <1>1. ASSUME SinkInv', TablesGrow, UNCHANGED <<caller, told>>, now' \in Nat,
               \A x \in Callers : sink'[x].table = sink[x].table /\ sink'[x].row = sink[x].row
        PROVE  BrokerInv'
    <2>1. \A d \in Callers : Waiting(d)' /\ Behind(d)'
      BY <1>1, OtherCallersKeep
    <2> QED BY <1>1, <2>1 DEF BrokerInv
  <1>2. ASSUME SinkStep PROVE BrokerInv'
    <2>1. /\ SinkInv' /\ TablesGrow
          /\ \A x \in Clients : sink'[x].table = sink[x].table /\ sink'[x].row = sink[x].row
      BY <1>0, <1>2, SinkStepKeeps
    <2>2. UNCHANGED <<now, caller, told>>
      BY <1>2 DEF SinkStep
    <2> QED BY <1>0, <1>1, <2>1, <2>2
  <1>3. ASSUME NEW p \in Publishers, NEW b \in Bundles, AppendBundle(p, b) PROVE BrokerInv'
    <2>1. Asks(p, "bundles", b) /\ UNCHANGED <<now, tables, late, caller, told>>
      BY <1>3 DEF AppendBundle
    <2>2. SinkInv' /\ TablesGrow /\ \A d \in Clients : d # p => sink'[d] = sink[d]
      BY <1>0, <2>1, ClientAsks, SinkMoves DEF Rows
    <2> QED BY <1>0, <1>1, <2>1, <2>2, BrokerAssumption
  <1>4. ASSUME NEW p \in Publishers, Published(p) PROVE BrokerInv'
    <2>1. Forgets(p) /\ UNCHANGED <<now, tables, late, caller, told>>
      BY <1>4 DEF Published
    <2>2. SinkInv' /\ TablesGrow /\ \A d \in Clients : d # p => sink'[d] = sink[d]
      BY <1>0, <2>1, ClientAsks, SinkMoves
    <2> QED BY <1>0, <1>1, <2>1, <2>2, BrokerAssumption
  <1>5. ASSUME UNCHANGED <<tables, late, sink, caller, told>>, now' \in Nat PROVE BrokerInv'
    <2>1. TablesGrow
      BY <1>5 DEF tables, TablesGrow
    <2>2. SinkInv'
      <3>1. \A x \in Clients : WriteInv(x)'
        BY <1>0, <1>5, <2>1, OtherWritesKeep DEF SinkInv
      <3> QED BY <1>0, <1>5, <3>1 DEF SinkInv, tables, OneEventPerPhase, OneBundle, Sound
    <2> QED BY <1>1, <1>5, <2>1, <2>2
  <1>6. ASSUME Tick \/ UNCHANGED brokerVars PROVE BrokerInv'
    BY <1>0, <1>5, <1>6 DEF Tick, brokerVars, tables
  <1> QED BY <1>2, <1>3, <1>4, <1>6, RecoverKeeps DEF BrokerNext

\* At first nothing was asked, written or told.
LEMMA BrokerStarts ==
  ASSUME NEW rows \in SUBSET Bundles, StartsWith(rows),
         \A b, d \in rows : b.version = d.version \/ b.source = d.source => b = d
  PROVE  BrokerInv
  <1>1. Quiet \in SinkShape /\ Quiet.at = "idle"
    BY DEF Quiet, SinkShape, SinkPlaces, Rows
  <1>2. Resting \in CallerShape /\ Resting.at = "idle"
    BY DEF Resting, CallerShape, CallerPlaces
  <1>3. PICK m : m = [said |-> None, bundle |-> None]
    OBVIOUS
  <1>4. m \in Told
    BY <1>3 DEF Told
  <1>5. SinkInv
    BY <1>1 DEF StartsWith, SinkInv, WriteInv, OneEventPerPhase, OneBundle
  <1>6. caller \in [Callers -> CallerShape] /\ told \in [Callers -> Told] /\ now \in Nat
    BY <1>2, <1>3, <1>4 DEF StartsWith
  <1>7. ASSUME NEW c \in Callers PROVE Waiting(c) /\ Behind(c)
    BY <1>2, BrokerAssumption DEF StartsWith, Waiting, Behind
  <1> QED BY <1>5, <1>6, <1>7 DEF BrokerInv

\* RecoveryBroker.RecoveredIsAudited: DeterministicRecoveryBroker.recover
\* hands out context only behind a committed terminal event that names the
\* very bundle, and queries only behind its pre_read event, for any number of
\* callers and publishers and whatever writes are lost, late or refused.
THEOREM RecoveryIsAudited == BrokerSpec => []RecoveredIsAudited
  <1>1. BrokerInit => BrokerInv
    BY BrokerStarts DEF BrokerInit
  <1>2. BrokerInv => RecoveredIsAudited
    BY DEF BrokerInv, SinkInv, Behind, OneEventPerPhase, OneBundle, RecoveredIsAudited
  <1> QED BY <1>1, <1>2, BrokerStepKeeps, PTL DEF BrokerSpec

-----------------------------------------------------------------------------
(* The worker of a live drill: the shape of its state.                      *)

ProcShape ==
  \E A, S, P, B, R : proc \in [Workers -> [at: A, sticky: S, post: P, born: B, row: R]]

FileShape == \E F : file \in [Artefacts -> F]

WriteShape == \E A, T, R : sink \in [Clients -> [at: A, table: T, row: R]]

\* A process moves on; only what the step names changes in it.
LEMMA ProcMoves ==
  ASSUME ProcShape, NEW p \in Workers
  PROVE  /\ \A at : Step(p, at) =>
              /\ ProcShape' /\ proc'[p].at = at
              /\ proc'[p].row = proc[p].row /\ proc'[p].born = proc[p].born
              /\ \A q \in Workers : q # p => proc'[q] = proc[q]
         /\ \A at, sticks : proc' = [proc EXCEPT ![p].sticky = sticks, ![p].at = at] =>
              /\ ProcShape' /\ proc'[p].at = at
              /\ proc'[p].row = proc[p].row /\ proc'[p].born = proc[p].born
              /\ \A q \in Workers : q # p => proc'[q] = proc[q]
         /\ \A at, post : proc' = [proc EXCEPT ![p].at = at, ![p].post = post] =>
              /\ ProcShape' /\ proc'[p].at = at
              /\ proc'[p].row = proc[p].row /\ proc'[p].born = proc[p].born
              /\ \A q \in Workers : q # p => proc'[q] = proc[q]
         /\ \A at, born : proc' = [proc EXCEPT ![p] = [Dead EXCEPT !.at = at, !.born = born]] =>
              /\ ProcShape' /\ proc'[p].at = at /\ proc'[p].born = born
              /\ \A q \in Workers : q # p => proc'[q] = proc[q]
         /\ proc' = [proc EXCEPT ![p] = Dead] =>
              /\ ProcShape' /\ proc'[p].at = "idle" /\ proc'[p].born = FALSE
              /\ \A q \in Workers : q # p => proc'[q] = proc[q]
  <1>1. PICK A, S, P, B, R : proc \in [Workers -> [at: A, sticky: S, post: P, born: B, row: R]]
    BY DEF ProcShape
  <1>2. ASSUME NEW at, Step(p, at)
        PROVE  /\ ProcShape' /\ proc'[p].at = at
               /\ proc'[p].row = proc[p].row /\ proc'[p].born = proc[p].born
               /\ \A q \in Workers : q # p => proc'[q] = proc[q]
    <2>1. proc' \in [Workers -> [at: A \cup {at}, sticky: S, post: P, born: B, row: R]]
      BY <1>1, <1>2 DEF Step
    <2>2. ProcShape'
      BY <2>1 DEF ProcShape
    <2> QED BY <1>1, <1>2, <2>2 DEF Step
  <1>3. ASSUME NEW at, NEW sticks, proc' = [proc EXCEPT ![p].sticky = sticks, ![p].at = at]
        PROVE  /\ ProcShape' /\ proc'[p].at = at
               /\ proc'[p].row = proc[p].row /\ proc'[p].born = proc[p].born
               /\ \A q \in Workers : q # p => proc'[q] = proc[q]
    <2>1. proc' \in [Workers -> [at: A \cup {at}, sticky: S \cup {sticks}, post: P, born: B, row: R]]
      BY <1>1, <1>3
    <2>2. ProcShape'
      BY <2>1 DEF ProcShape
    <2> QED BY <1>1, <1>3, <2>2
  <1>4. ASSUME NEW at, NEW post, proc' = [proc EXCEPT ![p].at = at, ![p].post = post]
        PROVE  /\ ProcShape' /\ proc'[p].at = at
               /\ proc'[p].row = proc[p].row /\ proc'[p].born = proc[p].born
               /\ \A q \in Workers : q # p => proc'[q] = proc[q]
    <2>1. proc' \in [Workers -> [at: A \cup {at}, sticky: S, post: P \cup {post}, born: B, row: R]]
      BY <1>1, <1>4
    <2>2. ProcShape'
      BY <2>1 DEF ProcShape
    <2> QED BY <1>1, <1>4, <2>2
  <1>5. ASSUME NEW at, NEW born, proc' = [proc EXCEPT ![p] = [Dead EXCEPT !.at = at, !.born = born]]
        PROVE  /\ ProcShape' /\ proc'[p].at = at /\ proc'[p].born = born
               /\ \A q \in Workers : q # p => proc'[q] = proc[q]
    <2>1. proc' \in [Workers -> [at: A \cup {at}, sticky: S \cup {FALSE}, post: P \cup {FALSE},
                                 born: B \cup {born}, row: R \cup {None}]]
      BY <1>1, <1>5 DEF Dead
    <2>2. ProcShape'
      BY <2>1 DEF ProcShape
    <2> QED BY <1>1, <1>5, <2>2 DEF Dead
  <1>6. ASSUME proc' = [proc EXCEPT ![p] = Dead]
        PROVE  /\ ProcShape' /\ proc'[p].at = "idle" /\ proc'[p].born = FALSE
               /\ \A q \in Workers : q # p => proc'[q] = proc[q]
    <2>1. proc' \in [Workers -> [at: A \cup {"idle"}, sticky: S \cup {FALSE}, post: P \cup {FALSE},
                                 born: B \cup {FALSE}, row: R \cup {None}]]
      BY <1>1, <1>6 DEF Dead
    <2>2. ProcShape'
      BY <2>1 DEF ProcShape
    <2> QED BY <1>1, <1>6, <2>2 DEF Dead
  <1> QED BY <1>2, <1>3, <1>4, <1>5, <1>6

\* A process moves on with a row it has planned.
Takes(p, at, row) == proc' = [proc EXCEPT ![p].at = at, ![p].row = row]

\* What taking a row leaves of the process and of the others.
LEMMA RowTaken ==
  ASSUME ProcShape, NEW p \in Workers, NEW at, NEW row, Takes(p, at, row)
  PROVE  /\ ProcShape' /\ proc'[p].at = at
         /\ proc'[p].row = row /\ proc'[p].born = proc[p].born
         /\ \A q \in Workers : q # p => proc'[q] = proc[q]
  <1>1. PICK A, S, P, B, R : proc \in [Workers -> [at: A, sticky: S, post: P, born: B, row: R]]
    BY DEF ProcShape
  <1>2. proc' \in [Workers -> [at: A \cup {at}, sticky: S, post: P, born: B, row: R \cup {row}]]
    BY <1>1 DEF Takes
  <1>3. ProcShape'
    BY <1>2 DEF ProcShape
  <1> QED BY <1>1, <1>3 DEF Takes

\* An artefact is made and the others stay.
LEMMA ArtefactMade ==
  ASSUME FileShape, NEW a \in Artefacts, NEW v, Put(a, v)
  PROVE  /\ FileShape' /\ file'[a] = v
         /\ \A b \in Artefacts : b # a => file'[b] = file[b]
  <1>1. PICK F : file \in [Artefacts -> F]
    BY DEF FileShape
  <1>2. file' \in [Artefacts -> F \cup {v}]
    BY <1>1 DEF Put
  <1>3. FileShape'
    BY <1>2 DEF FileShape
  <1> QED BY <1>1, <1>3 DEF Put

-----------------------------------------------------------------------------
(* The worker of a live drill: what its places and artefacts mean.          *)

AfterTerminalPlan == {"terminal", "terminalAppend", "terminalResolve", "w3"}
AfterControl == {"terminalPlan", "terminalPlanned"} \cup AfterTerminalPlan
AfterPreRead == {"w2", "call", "dispatch", "store", "failed", "control"} \cup AfterControl
AfterPlan == {"preRead", "preAppend", "preResolve"} \cup AfterPreRead

\* A process in a later place has the artefacts of the earlier ones behind it.
WorkerInv(p) ==
  /\ proc[p].born => file["burn"] # None
  /\ proc[p].at = "planned" => proc[p].row # None
  /\ proc[p].at \in AfterPlan => file["plan"] # None
  /\ proc[p].at \in AfterPreRead => file["preRead"] # None
  /\ proc[p].at \in AfterControl \cup {"control"} => journal = "complete"
  /\ proc[p].at \in AfterControl => file["mcp"] # None /\ control = "COMPLETED"
  /\ proc[p].at = "terminalPlanned" => proc[p].row # None /\ proc[p].row.result = file["mcp"].answer
  /\ proc[p].at \in AfterTerminalPlan => file["terminalPlan"] # None
  /\ proc[p].at = "w3" => file["terminal"] # None

\* The artefacts tell the truth about the audit table and about each other.
FilesInv ==
  /\ file["preRead"] # None => file["preRead"] = file["plan"] /\ file["plan"] \in events
  /\ file["terminalPlan"] # None =>
       file["mcp"] # None /\ file["terminalPlan"].result = file["mcp"].answer
  /\ file["terminal"] # None =>
       file["terminal"] = file["terminalPlan"] /\ file["terminal"] \in events
  /\ transcript # None => transcript.answer \in Bundles \cup {None}
  /\ file["mcp"] # None => file["mcp"].answer \in Bundles \cup {None}

\* Every handoff repeats the artefacts.
HandedInv(h) ==
  /\ h.recovery = file["terminal"] /\ h.evidence = file["mcp"]
  /\ file["terminal"] # None /\ file["preRead"] # None
  /\ control = "COMPLETED" /\ journal = "complete"

\* The workers write events only, so the bundles stay what they were.
EventsOnly ==
  /\ \A x \in Clients : sink[x].at # "idle" => sink[x].table = "events"
  /\ \A w \in late : w.table = "events"
  /\ bundles \subseteq Bundles

ProviderInv ==
  /\ ProcShape /\ FileShape /\ WriteShape /\ now \in 0 .. MaxTime
  /\ EventsOnly /\ FilesInv
  /\ \A p \in Workers : WorkerInv(p)
  /\ \A h \in handed : HandedInv(h) /\ h = [recovery |-> h.recovery, evidence |-> h.evidence]
  /\ \A s \in sends : s.authorized /\ ~s.born

\* What a place asks for, place by place.
LEMMA Arrives ==
  ASSUME NEW p \in Workers, proc'[p].born => file'["burn"] # None
  PROVE  /\ proc'[p].at \in {"idle", "entry", "evidence", "plan", "ended"} => WorkerInv(p)'
         /\ proc'[p].at = "planned" /\ proc'[p].row # None => WorkerInv(p)'
         /\ proc'[p].at \in {"preRead", "preAppend", "preResolve"} /\ file'["plan"] # None => WorkerInv(p)'
         /\ file'["plan"] # None /\ file'["preRead"] # None =>
              /\ proc'[p].at \in {"w2", "call", "dispatch", "store", "failed"} => WorkerInv(p)'
              /\ journal' = "complete" =>
                   /\ proc'[p].at = "control" => WorkerInv(p)'
                   /\ file'["mcp"] # None /\ control' = "COMPLETED" =>
                        /\ proc'[p].at = "terminalPlan" => WorkerInv(p)'
                        /\ proc'[p].at = "terminalPlanned" /\ proc'[p].row # None
                             /\ proc'[p].row.result = file'["mcp"].answer => WorkerInv(p)'
                        /\ file'["terminalPlan"] # None =>
                             /\ proc'[p].at \in {"terminal", "terminalAppend", "terminalResolve"} => WorkerInv(p)'
                             /\ proc'[p].at = "w3" /\ file'["terminal"] # None => WorkerInv(p)'
  BY DEF WorkerInv, AfterPlan, AfterPreRead, AfterControl, AfterTerminalPlan

\* Create-only artefacts, an append-only table, and two final states.
Grows ==
  /\ \A a \in Artefacts : file[a] # None => file'[a] = file[a]
  /\ events \subseteq events'
  /\ journal = "complete" => journal' = "complete"
  /\ control = "COMPLETED" => control' = "COMPLETED"

\* So what other processes and the handoffs rely on stays.
LEMMA OthersRely ==
  ASSUME ProviderInv, Grows
  PROVE  /\ \A q \in Workers : proc'[q] = proc[q] => WorkerInv(q)'
         /\ \A h \in handed : HandedInv(h)'
  <1>1. ASSUME NEW q \in Workers, proc'[q] = proc[q] PROVE WorkerInv(q)'
    <2>1. WorkerInv(q)
      BY DEF ProviderInv
    <2>2. \A a \in Artefacts : file[a] # None => file'[a] = file[a]
      BY DEF Grows
    <2>3. proc[q].at = "terminalPlanned" => proc[q].at \in AfterControl
      BY DEF AfterControl
    <2> QED BY <1>1, <2>1, <2>2, <2>3 DEF WorkerInv, Grows, Artefacts
  <1>2. ASSUME NEW h \in handed PROVE HandedInv(h)'
    <2>1. HandedInv(h) /\ FilesInv
      BY DEF ProviderInv
    <2>2. file["mcp"] # None /\ file["terminal"] # None /\ file["preRead"] # None
      BY <2>1 DEF HandedInv, FilesInv
    <2>3. /\ file'["mcp"] = file["mcp"] /\ file'["terminal"] = file["terminal"]
          /\ file'["preRead"] = file["preRead"]
      BY <2>2 DEF Grows, Artefacts
    <2> QED BY <2>1, <2>2, <2>3 DEF HandedInv, Grows
  <1> QED BY <1>1, <1>2

\* A step of one process.
LEMMA WorkerMoves ==
  ASSUME ProviderInv, NEW p \in Workers, Grows, UNCHANGED <<handed, sends>>, now' \in 0 .. MaxTime,
         ProcShape', FileShape', WriteShape', EventsOnly', FilesInv',
         \A q \in Workers : q # p => proc'[q] = proc[q], WorkerInv(p)'
  PROVE  ProviderInv'
  <1>1. \A q \in Workers : WorkerInv(q)'
    BY OthersRely
  <1>2. \A h \in handed' : HandedInv(h)'
    BY OthersRely
  <1> QED BY <1>1, <1>2 DEF ProviderInv

\* Artefacts that nothing is read from but their presence.
Marks == {"preparation", "burn", "attempt"}

\* The artefacts stay, but for a mark that is made.
LEMMA MarksOnly ==
  ASSUME FileShape, FilesInv, events \subseteq events', UNCHANGED transcript,
         \/ UNCHANGED file
         \/ \E a \in Marks : \E v : file[a] = None /\ Put(a, v)
  PROVE  /\ FileShape' /\ FilesInv'
         /\ \A a \in Artefacts : file[a] # None => file'[a] = file[a]
         /\ \A a \in Artefacts \ Marks : file'[a] = file[a]
  <1>1. FileShape' /\ \A a \in Artefacts \ Marks : file'[a] = file[a]
    BY ArtefactMade DEF Marks, Artefacts, FileShape
  <1>2. \A a \in Artefacts : file[a] # None => file'[a] = file[a]
    BY ArtefactMade DEF Marks, Artefacts
  <1>3. /\ file'["plan"] = file["plan"] /\ file'["preRead"] = file["preRead"]
        /\ file'["mcp"] = file["mcp"] /\ file'["terminalPlan"] = file["terminalPlan"]
        /\ file'["terminal"] = file["terminal"]
    BY <1>1 DEF Marks, Artefacts
  <1>4. FilesInv'
    BY <1>3 DEF FilesInv
  <1> QED BY <1>1, <1>2, <1>4

\* The sink, when no step of it is taken.
LEMMA QuietSink ==
  ASSUME ProviderInv, NEW p \in Workers, UNCHANGED <<bundles, late>>,
         \/ UNCHANGED sink
         \/ Forgets(p)
         \/ \E row : Asks(p, "events", row)
  PROVE  WriteShape' /\ EventsOnly'
  <1>0. p \in Clients /\ EventsOnly
    BY WorkerAssumption DEF ProviderInv
  <1>1. PICK A, T, R : sink \in [Clients -> [at: A, table: T, row: R]]
    BY DEF ProviderInv, WriteShape
  <1>2. CASE UNCHANGED sink
    BY <1>0, <1>1, <1>2 DEF WriteShape, EventsOnly
  <1>3. CASE Forgets(p)
    <2>1. sink' \in [Clients -> [at: A \cup {"idle"}, table: T \cup {None}, row: R \cup {None}]]
      BY <1>1, <1>3 DEF Forgets, Quiet
    <2>2. sink'[p].at = "idle" /\ \A x \in Clients : x # p => sink'[x] = sink[x]
      BY <1>0, <1>1, <1>3 DEF Forgets, Quiet
    <2>3. WriteShape'
      BY <2>1 DEF WriteShape
    <2> QED BY <1>0, <2>2, <2>3 DEF EventsOnly
  <1>4. ASSUME NEW row, Asks(p, "events", row) PROVE WriteShape' /\ EventsOnly'
    <2>1. sink' \in [Clients -> [at: A \cup {"write"}, table: T \cup {"events"}, row: R \cup {row}]]
      BY <1>1, <1>4 DEF Asks
    <2>2. sink'[p].table = "events" /\ \A x \in Clients : x # p => sink'[x] = sink[x]
      BY <1>0, <1>1, <1>4 DEF Asks
    <2>3. WriteShape'
      BY <2>1 DEF WriteShape
    <2> QED BY <1>0, <2>2, <2>3 DEF EventsOnly
  <1> QED BY <1>2, <1>3, <1>4

\* A guard that refuses moves the process and burns the authority at most.
LEMMA RefusalMoves ==
  ASSUME ProviderInv, NEW p \in Workers, NEW at, Refused(p, at)
  PROVE  /\ ProcShape' /\ proc'[p].at = at /\ proc'[p].born = proc[p].born
         /\ \A q \in Workers : q # p => proc'[q] = proc[q]
         /\ \/ UNCHANGED file
            \/ \E a \in Marks : \E v : file[a] = None /\ Put(a, v)
  <1>1. PICK sticks : proc' = [proc EXCEPT ![p].sticky = sticks, ![p].at = at]
    BY DEF Refused
  <1>2. UNCHANGED file \/ (file["burn"] = None /\ Put("burn", "burned"))
    BY DEF Refused
  <1>3. /\ ProcShape' /\ proc'[p].at = at /\ proc'[p].born = proc[p].born
        /\ \A q \in Workers : q # p => proc'[q] = proc[q]
    BY <1>1, ProcMoves DEF ProviderInv
  <1>4. "burn" \in Marks
    BY DEF Marks
  <1> QED BY <1>2, <1>3, <1>4

\* A step of a process that makes no artefact but a mark.
LEMMA PlainMove ==
  ASSUME ProviderInv, NEW p \in Workers,
         UNCHANGED <<now, bundles, events, late, transcript, handed, sends>>,
         UNCHANGED sink \/ Forgets(p) \/ (\E row : Asks(p, "events", row)),
         UNCHANGED file \/ (\E a \in Marks : \E v : file[a] = None /\ Put(a, v)),
         journal = "complete" => journal' = "complete",
         control = "COMPLETED" => control' = "COMPLETED",
         ProcShape', \A q \in Workers : q # p => proc'[q] = proc[q]
  PROVE  /\ file'["plan"] = file["plan"] /\ file'["preRead"] = file["preRead"]
         /\ file'["mcp"] = file["mcp"] /\ file'["terminalPlan"] = file["terminalPlan"]
         /\ file'["terminal"] = file["terminal"]
         /\ proc[p].born => file'["burn"] # None
         /\ WorkerInv(p)' => ProviderInv'
  <1>1. /\ FileShape' /\ FilesInv'
        /\ \A a \in Artefacts : file[a] # None => file'[a] = file[a]
        /\ \A a \in Artefacts \ Marks : file'[a] = file[a]
    BY MarksOnly DEF ProviderInv
  <1>2. WriteShape' /\ EventsOnly'
    BY QuietSink
  <1>3. Grows
    BY <1>1 DEF Grows
  <1>4. proc[p].born => file'["burn"] # None
    BY <1>1 DEF ProviderInv, WorkerInv, Artefacts
  <1>5. /\ file'["plan"] = file["plan"] /\ file'["preRead"] = file["preRead"]
        /\ file'["mcp"] = file["mcp"] /\ file'["terminalPlan"] = file["terminalPlan"]
        /\ file'["terminal"] = file["terminal"]
    BY <1>1 DEF Artefacts, Marks
  <1>6. now' \in 0 .. MaxTime
    BY DEF ProviderInv
  <1> QED BY <1>1, <1>2, <1>3, <1>4, <1>5, <1>6, WorkerMoves

\* Up to the plan of the read.
LEMMA EntryKeeps ==
  ASSUME ProviderInv, NEW p \in Workers,
         Start(p) \/ Entry(p) \/ EvidenceOnly(p) \/ PlanRecovery(p)
  PROVE  ProviderInv'
  <1>0. ProcShape /\ WorkerInv(p) /\ now \in 0 .. MaxTime
    BY DEF ProviderInv
  <1>1. ASSUME Start(p) PROVE ProviderInv'
    <2>1. PICK born : born = (file["burn"] # None)
      OBVIOUS
    <2>2. /\ proc' = [proc EXCEPT ![p] = [Dead EXCEPT !.at = "entry", !.born = born]]
          /\ UNCHANGED <<now, bundles, events, late, sink, file, journal, control, transcript, sends, handed>>
      BY <1>1, <2>1 DEF Start, world
    <2>3. /\ ProcShape' /\ proc'[p].at = "entry" /\ proc'[p].born = born
          /\ \A q \in Workers : q # p => proc'[q] = proc[q]
      BY <1>0, <2>2, ProcMoves
    <2>4. proc'[p].born => file'["burn"] # None
      BY <2>1, <2>2, <2>3
    <2> QED BY <2>2, <2>3, <2>4, PlainMove, Arrives
  <1>2. ASSUME NEW at \in {"ended", "evidence"}, Refused(p, at),
               UNCHANGED <<world, sink, journal, control, transcript, sends, handed>>
        PROVE  ProviderInv'
    <2>1. UNCHANGED <<now, bundles, events, late, sink, journal, control, transcript, sends, handed>>
      BY <1>2 DEF world
    <2>2. /\ ProcShape' /\ proc'[p].at = at /\ proc'[p].born = proc[p].born
          /\ \A q \in Workers : q # p => proc'[q] = proc[q]
          /\ UNCHANGED file \/ (\E a \in Marks : \E v : file[a] = None /\ Put(a, v))
      BY <1>2, RefusalMoves
    <2>3. proc[p].born => file'["burn"] # None
      BY <2>1, <2>2, PlainMove
    <2>4. WorkerInv(p)'
      BY <2>2, <2>3, Arrives
    <2> QED BY <2>1, <2>2, <2>4, PlainMove
  <1>3. ASSUME NEW post, proc' = [proc EXCEPT ![p].at = "plan", ![p].post = post],
               UNCHANGED <<world, sink, file, transcript, sends, handed>>,
               journal = "complete" => journal' = "complete",
               control = "COMPLETED" => control' = "COMPLETED"
        PROVE  ProviderInv'
    <2>1. UNCHANGED <<now, bundles, events, late, sink, file, transcript, sends, handed>>
      BY <1>3 DEF world
    <2>2. /\ ProcShape' /\ proc'[p].at = "plan" /\ proc'[p].born = proc[p].born
          /\ \A q \in Workers : q # p => proc'[q] = proc[q]
      BY <1>0, <1>3, ProcMoves
    <2>3. proc[p].born => file'["burn"] # None
      BY <1>3, <2>1, <2>2, PlainMove
    <2>4. WorkerInv(p)'
      BY <2>2, <2>3, Arrives
    <2> QED BY <1>3, <2>1, <2>2, <2>4, PlainMove
  <1>4. ASSUME Ends2(p), UNCHANGED <<world, sink, file, transcript, sends, handed, journal, control>>
        PROVE  ProviderInv'
    <2>1. UNCHANGED <<now, bundles, events, late, sink, file, journal, control, transcript, sends, handed>>
      BY <1>4 DEF world
    <2>2. /\ ProcShape' /\ proc'[p].at = "ended" /\ proc'[p].born = proc[p].born
          /\ \A q \in Workers : q # p => proc'[q] = proc[q]
      BY <1>0, <1>4, ProcMoves DEF Ends2
    <2>3. proc[p].born => file'["burn"] # None
      BY <2>1, <2>2, PlainMove
    <2>4. WorkerInv(p)'
      BY <2>2, <2>3, Arrives
    <2> QED BY <2>1, <2>2, <2>4, PlainMove
  <1>5. ASSUME Entry(p) PROVE ProviderInv'
    <2>1. UNCHANGED <<world, sink, journal, control, transcript, sends, handed>>
      BY <1>5 DEF Entry
    <2> QED BY <1>2, <1>3, <1>5, <2>1 DEF Entry
  <1>6. ASSUME EvidenceOnly(p) PROVE ProviderInv'
    <2>1. UNCHANGED <<world, sink, file, transcript, sends, handed>>
      BY <1>6 DEF EvidenceOnly
    <2> QED BY <1>3, <1>4, <1>6, <2>1 DEF EvidenceOnly, Completes
  <1>7. ASSUME PlanRecovery(p) PROVE ProviderInv'
    <2>1. UNCHANGED <<world, sink, journal, control, transcript, sends, handed>>
      BY <1>7 DEF PlanRecovery
    <2>2. UNCHANGED <<now, bundles, events, late, sink, journal, control, transcript, sends, handed>>
      BY <2>1 DEF world
    <2>3. CASE PlanOnFile /\ Step(p, "preRead") /\ UNCHANGED file
      <3>1. /\ ProcShape' /\ proc'[p].at = "preRead" /\ proc'[p].born = proc[p].born
            /\ \A q \in Workers : q # p => proc'[q] = proc[q]
        BY <1>0, <2>3, ProcMoves
      <3>2. proc[p].born => file'["burn"] # None
        BY <2>2, <2>3, <3>1, PlainMove
      <3>3. file'["plan"] # None
        BY <2>3 DEF PlanOnFile
      <3>4. WorkerInv(p)'
        BY <3>1, <3>2, <3>3, Arrives
      <3> QED BY <2>2, <2>3, <3>1, <3>4, PlainMove
    <2>4. ASSUME UNCHANGED file, proc' = [proc EXCEPT ![p].at = "planned",
                      ![p].row = Event(Drill, "pre_read", "read_authorized", None, 0, now)]
          PROVE  ProviderInv'
      <3>1. PICK row : row = Event(Drill, "pre_read", "read_authorized", None, 0, now)
        OBVIOUS
      <3>2. row # None
        BY <1>0, <3>1, WorkerAssumption
      <3>3. PICK at : at = "planned"
        OBVIOUS
      <3>4. /\ ProcShape' /\ proc'[p].at = "planned" /\ proc'[p].born = proc[p].born
            /\ proc'[p].row = row
            /\ \A q \in Workers : q # p => proc'[q] = proc[q]
        <4>1. Takes(p, at, row)
          BY <2>4, <3>1, <3>3 DEF Takes
        <4> QED BY <1>0, <3>3, <4>1, RowTaken
      <3>5. proc[p].born => file'["burn"] # None
        BY <2>2, <2>4, <3>4, PlainMove
      <3>6. WorkerInv(p)'
        BY <3>2, <3>4, <3>5, Arrives
      <3> QED BY <2>2, <2>4, <3>4, <3>6, PlainMove
    <2> QED BY <1>2, <1>7, <2>1, <2>3, <2>4 DEF PlanRecovery
  <1> QED BY <1>1, <1>5, <1>6, <1>7

\* A step to the next place that makes no artefact but a mark.
LEMMA MovesOn ==
  ASSUME ProviderInv, NEW p \in Workers, NEW at, Step(p, at),
         UNCHANGED <<now, bundles, events, late, transcript, handed, sends>>,
         UNCHANGED sink \/ Forgets(p) \/ (\E row : Asks(p, "events", row)),
         UNCHANGED file \/ (\E a \in Marks : \E v : file[a] = None /\ Put(a, v)),
         journal = "complete" => journal' = "complete",
         control = "COMPLETED" => control' = "COMPLETED"
  PROVE  /\ proc'[p].at = at /\ proc'[p].row = proc[p].row
         /\ proc'[p].born => file'["burn"] # None
         /\ file'["plan"] = file["plan"] /\ file'["preRead"] = file["preRead"]
         /\ file'["mcp"] = file["mcp"] /\ file'["terminalPlan"] = file["terminalPlan"]
         /\ file'["terminal"] = file["terminal"]
         /\ WorkerInv(p)' => ProviderInv'
         /\ at = "ended" => ProviderInv'
  <1>1. /\ ProcShape' /\ proc'[p].at = at /\ proc'[p].row = proc[p].row /\ proc'[p].born = proc[p].born
        /\ \A q \in Workers : q # p => proc'[q] = proc[q]
    BY ProcMoves DEF ProviderInv
  <1>2. /\ file'["plan"] = file["plan"] /\ file'["preRead"] = file["preRead"]
        /\ file'["mcp"] = file["mcp"] /\ file'["terminalPlan"] = file["terminalPlan"]
        /\ file'["terminal"] = file["terminal"]
        /\ proc[p].born => file'["burn"] # None
        /\ WorkerInv(p)' => ProviderInv'
    BY <1>1, PlainMove
  <1>3. at = "ended" => WorkerInv(p)'
    BY <1>1, <1>2, Arrives
  <1> QED BY <1>1, <1>2, <1>3

\* A refusal ends the process, or is the failure of its dispatch.
LEMMA RefusedEnds ==
  ASSUME ProviderInv, NEW p \in Workers, NEW at, Refused(p, at),
         UNCHANGED <<now, bundles, events, late, transcript, handed, sends, control>>,
         UNCHANGED sink \/ Forgets(p),
         journal = "complete" => journal' = "complete",
         at = "ended" \/ (at = "failed" /\ proc[p].at = "dispatch")
  PROVE  ProviderInv'
  <1>1. /\ ProcShape' /\ proc'[p].at = at /\ proc'[p].born = proc[p].born
        /\ \A q \in Workers : q # p => proc'[q] = proc[q]
        /\ UNCHANGED file \/ (\E a \in Marks : \E v : file[a] = None /\ Put(a, v))
    BY RefusalMoves
  <1>2. /\ file'["plan"] = file["plan"] /\ file'["preRead"] = file["preRead"]
        /\ proc[p].born => file'["burn"] # None
        /\ WorkerInv(p)' => ProviderInv'
    BY <1>1, PlainMove
  <1>3. CASE at = "ended"
    BY <1>1, <1>2, <1>3, Arrives
  <1>4. CASE at = "failed" /\ proc[p].at = "dispatch"
    <2>1. file["plan"] # None /\ file["preRead"] # None
      BY <1>4 DEF ProviderInv, WorkerInv, AfterPlan, AfterPreRead
    <2> QED BY <1>1, <1>2, <1>4, <2>1, Arrives
  <1> QED BY <1>3, <1>4

\* A process makes an artefact, or finds it as it would have made it.
LEMMA MakesArtefact ==
  ASSUME ProviderInv, NEW p \in Workers, NEW at, Step(p, at),
         NEW a \in Artefacts, NEW v, Agrees(a, v), Put(a, v),
         UNCHANGED <<now, bundles, events, late, sink, transcript, handed, sends, control>>,
         journal = "complete" => journal' = "complete"
  PROVE  /\ proc'[p].at = at /\ proc'[p].row = proc[p].row
         /\ a # "burn" /\ proc'[p].born => file'["burn"] # None
         /\ file'[a] = v /\ \A b \in Artefacts : b # a => file'[b] = file[b]
         /\ \A b \in Artefacts : file[b] # None => file'[b] = file[b]
         /\ FilesInv' /\ WorkerInv(p)' => ProviderInv'
         /\ FilesInv /\ WorkerInv(p)
  <1>1. /\ ProcShape' /\ proc'[p].at = at /\ proc'[p].row = proc[p].row /\ proc'[p].born = proc[p].born
        /\ \A q \in Workers : q # p => proc'[q] = proc[q]
    BY ProcMoves DEF ProviderInv
  <1>2. /\ FileShape' /\ file'[a] = v
        /\ \A b \in Artefacts : b # a => file'[b] = file[b]
    BY ArtefactMade DEF ProviderInv
  <1>3. \A b \in Artefacts : file[b] # None => file'[b] = file[b]
    BY <1>2 DEF Agrees
  <1>4. Grows
    BY <1>3 DEF Grows
  <1>5. WriteShape' /\ EventsOnly'
    BY QuietSink
  <1>6. now' \in 0 .. MaxTime /\ FilesInv /\ WorkerInv(p)
    BY DEF ProviderInv
  <1>7. FilesInv' /\ WorkerInv(p)' => ProviderInv'
    BY <1>1, <1>2, <1>4, <1>5, <1>6, WorkerMoves
  <1>8. a # "burn" /\ proc'[p].born => file'["burn"] # None
    BY <1>1, <1>2, <1>6 DEF WorkerInv, Artefacts
  <1> QED BY <1>1, <1>2, <1>3, <1>6, <1>7, <1>8

\* The plan and the pre_read event.
LEMMA PreReadKeeps ==
  ASSUME ProviderInv, NEW p \in Workers,
         PersistPlan(p) \/ PreRead(p) \/ PreAppended(p) \/ PreResolve(p)
  PROVE  ProviderInv'
  <1>0. WorkerInv(p) /\ FilesInv
    BY DEF ProviderInv
  <1>1. ASSUME PersistPlan(p) PROVE ProviderInv'
    <2>1. /\ UNCHANGED <<now, bundles, events, late, sink, journal, control, transcript, sends, handed>>
          /\ proc[p].at = "planned" /\ proc[p].row # None
      BY <1>0, <1>1 DEF PersistPlan, Is, world, WorkerInv
    <2>2. CASE Step(p, "ended") /\ UNCHANGED file
      BY <2>1, <2>2, MovesOn
    <2>3. CASE Agrees("plan", proc[p].row) /\ Put("plan", proc[p].row) /\ Step(p, "preRead")
      <3>1. "plan" \in Artefacts
        BY DEF Artefacts
      <3>2. /\ proc'[p].at = "preRead"
            /\ proc'[p].born => file'["burn"] # None
            /\ file'["plan"] = proc[p].row /\ \A b \in Artefacts : b # "plan" => file'[b] = file[b]
            /\ \A b \in Artefacts : file[b] # None => file'[b] = file[b]
            /\ FilesInv' /\ WorkerInv(p)' => ProviderInv'
        BY <2>1, <2>3, <3>1, MakesArtefact
      <3>3. FilesInv'
        BY <1>0, <2>1, <3>2 DEF FilesInv, Artefacts
      <3>4. WorkerInv(p)'
        BY <2>1, <3>2, Arrives
      <3> QED BY <3>2, <3>3, <3>4
    <2> QED BY <1>1, <2>2, <2>3 DEF PersistPlan, Ends2
  <1>2. ASSUME PreRead(p) PROVE ProviderInv'
    <2>1. /\ UNCHANGED <<now, bundles, events, late, journal, control, transcript, sends, handed>>
          /\ proc[p].at = "preRead" /\ file["plan"] # None
      BY <1>0, <1>2 DEF PreRead, Is, world, WorkerInv, AfterPlan
    <2>2. CASE PreReadOnFile /\ Step(p, "w2") /\ UNCHANGED <<sink, file>>
      <3>1. /\ proc'[p].at = "w2"
            /\ proc'[p].born => file'["burn"] # None
            /\ file'["plan"] = file["plan"] /\ file'["preRead"] = file["preRead"]
            /\ WorkerInv(p)' => ProviderInv'
        BY <2>1, <2>2, MovesOn
      <3> QED BY <2>1, <2>2, <3>1, Arrives DEF PreReadOnFile
    <2>3. ASSUME NEW at \in {"preResolve", "preAppend"}, Step(p, at), UNCHANGED file,
                 UNCHANGED sink \/ \E row : Asks(p, "events", row)
          PROVE  ProviderInv'
      <3>1. /\ proc'[p].at = at
            /\ proc'[p].born => file'["burn"] # None
            /\ file'["plan"] = file["plan"]
            /\ WorkerInv(p)' => ProviderInv'
        BY <2>1, <2>3, MovesOn
      <3> QED BY <2>1, <2>3, <3>1, Arrives
    <2>4. CASE Refused(p, "ended") /\ UNCHANGED sink
      BY <2>1, <2>4, RefusedEnds
    <2> QED BY <1>2, <2>2, <2>3, <2>4 DEF PreRead
  <1>3. ASSUME PreAppended(p) PROVE ProviderInv'
    <2>1. /\ UNCHANGED <<now, bundles, events, late, journal, control, transcript, sends, handed>>
          /\ proc[p].at = "preAppend" /\ file["plan"] # None /\ Forgets(p)
      BY <1>0, <1>3 DEF PreAppended, Is, world, WorkerInv, AfterPlan
    <2>2. CASE Step(p, "preResolve") /\ UNCHANGED file
      <3>1. /\ proc'[p].at = "preResolve"
            /\ proc'[p].born => file'["burn"] # None
            /\ file'["plan"] = file["plan"]
            /\ WorkerInv(p)' => ProviderInv'
        BY <2>1, <2>2, MovesOn
      <3> QED BY <2>1, <3>1, Arrives
    <2>3. CASE Refused(p, "ended")
      BY <2>1, <2>3, RefusedEnds
    <2>4. CASE Step(p, "ended") /\ UNCHANGED file
      BY <2>1, <2>4, MovesOn
    <2> QED BY <1>3, <2>2, <2>3, <2>4 DEF PreAppended, Ends2
  <1>4. ASSUME PreResolve(p) PROVE ProviderInv'
    <2>1. /\ UNCHANGED <<now, bundles, events, late, sink, journal, control, transcript, sends, handed>>
          /\ proc[p].at = "preResolve" /\ file["plan"] # None
      BY <1>0, <1>4 DEF PreResolve, Is, world, WorkerInv, AfterPlan
    <2>2. CASE /\ file["plan"] \in events /\ Agrees("preRead", file["plan"])
               /\ Put("preRead", file["plan"]) /\ Step(p, "w2")
      <3>1. "preRead" \in Artefacts
        BY DEF Artefacts
      <3>2. /\ proc'[p].at = "w2"
            /\ proc'[p].born => file'["burn"] # None
            /\ file'["preRead"] = file["plan"] /\ \A b \in Artefacts : b # "preRead" => file'[b] = file[b]
            /\ FilesInv' /\ WorkerInv(p)' => ProviderInv'
        BY <2>1, <2>2, <3>1, MakesArtefact
      <3>3. FilesInv' /\ file'["plan"] = file["plan"]
        BY <1>0, <2>1, <2>2, <3>2 DEF FilesInv, Artefacts
      <3> QED BY <2>1, <3>2, <3>3, Arrives
    <2>3. CASE Refused(p, "ended")
      BY <2>1, <2>3, RefusedEnds
    <2>4. CASE Step(p, "ended") /\ UNCHANGED file
      BY <2>1, <2>4, MovesOn
    <2> QED BY <1>4, <2>2, <2>3, <2>4 DEF PreResolve, Ends2
  <1> QED BY <1>1, <1>2, <1>3, <1>4

\* A result on record lets the process go on to the control record.
LEMMA RecordsResult ==
  ASSUME ProviderInv, NEW p \in Workers, RecordResult(p),
         proc[p].at \in {"call", "store"}
  PROVE  /\ file["plan"] # None /\ file["preRead"] # None
         /\ journal = "complete" => journal' = "complete"
         /\ \E at : /\ Step(p, at)
                    /\ at = "ended" \/ (at = "control" /\ journal' = "complete")
  <1>1. file["plan"] # None /\ file["preRead"] # None
    BY DEF ProviderInv, WorkerInv, AfterPlan, AfterPreRead
  <1> QED BY <1>1 DEF RecordResult, Ends2

\* W2 and the attempt.
LEMMA CallKeeps ==
  ASSUME ProviderInv, NEW p \in Workers, W2(p) \/ ExecuteOrRecover(p)
  PROVE  ProviderInv'
  <1>0. WorkerInv(p) /\ ProcShape
    BY DEF ProviderInv
  <1>1. ASSUME NEW at, Step(p, at),
               UNCHANGED <<now, bundles, events, late, sink, control, transcript, sends, handed, file>>,
               journal = "complete" => journal' = "complete",
               file["plan"] # None, file["preRead"] # None,
               at \in {"ended", "call", "dispatch"} \/ (at = "control" /\ journal' = "complete")
        PROVE  ProviderInv'
    <2>1. /\ proc'[p].at = at
          /\ proc'[p].born => file'["burn"] # None
          /\ file'["plan"] = file["plan"] /\ file'["preRead"] = file["preRead"]
          /\ WorkerInv(p)' => ProviderInv'
      BY <1>1, MovesOn
    <2> QED BY <1>1, <2>1, Arrives
  <1>2. ASSUME W2(p) PROVE ProviderInv'
    <2>1. /\ UNCHANGED <<now, bundles, events, late, sink, control, transcript, sends, handed, file>>
          /\ file["plan"] # None /\ file["preRead"] # None
      BY <1>0, <1>2 DEF W2, Is, world, WorkerInv, AfterPlan, AfterPreRead
    <2>2. \E at : /\ Step(p, at)
                  /\ journal = "complete" => journal' = "complete"
                  /\ at \in {"ended", "call", "dispatch"} \/ (at = "control" /\ journal' = "complete")
      BY <1>2 DEF W2, Ends2
    <2> QED BY <1>1, <2>1, <2>2
  <1>3. ASSUME ExecuteOrRecover(p) PROVE ProviderInv'
    <2>1. /\ UNCHANGED <<now, bundles, events, late, sink, control, transcript, sends, handed>>
          /\ file["plan"] # None /\ file["preRead"] # None /\ proc[p].at = "call"
      BY <1>0, <1>3 DEF ExecuteOrRecover, Is, world, WorkerInv, AfterPlan, AfterPreRead
    <2>2. CASE RecordResult(p) /\ UNCHANGED file
      BY <1>1, <2>1, <2>2, RecordsResult
    <2>3. CASE file["attempt"] = None /\ Put("attempt", "claimed") /\ UNCHANGED <<proc, journal>>
      <3>1. "attempt" \in Marks
        BY DEF Marks
      <3>2. /\ ProcShape' /\ proc'[p] = proc[p]
            /\ \A q \in Workers : q # p => proc'[q] = proc[q]
        BY <1>0, <2>3 DEF ProcShape
      <3>3. \E a \in Marks : \E v : file[a] = None /\ Put(a, v)
        BY <2>3, <3>1
      <3>4. /\ file'["plan"] = file["plan"] /\ file'["preRead"] = file["preRead"]
            /\ proc[p].born => file'["burn"] # None
            /\ WorkerInv(p)' => ProviderInv'
        BY <2>1, <2>3, <3>2, <3>3, PlainMove
      <3> QED BY <2>1, <3>2, <3>4, Arrives
    <2>4. CASE Step(p, "dispatch") /\ UNCHANGED <<file, journal>>
      BY <1>1, <2>1, <2>4
    <2>5. CASE Refused(p, "ended") /\ HoldUnknown
      BY <2>1, <2>5, RefusedEnds DEF HoldUnknown
    <2> QED BY <1>3, <2>2, <2>3, <2>4, <2>5 DEF ExecuteOrRecover
  <1> QED BY <1>2, <1>3

\* The dispatch, the evidence and the control record.
LEMMA DispatchKeeps ==
  ASSUME ProviderInv, NEW p \in Workers,
         Dispatch(p) \/ StoreResult(p) \/ DispatchFailed(p) \/ ReconcileControl(p)
  PROVE  ProviderInv'
  <1>0. WorkerInv(p) /\ ProcShape /\ FilesInv
    BY DEF ProviderInv
  <1>1. ASSUME Dispatch(p) PROVE ProviderInv'
    <2>1. /\ UNCHANGED <<now, bundles, events, late, sink, journal, control, handed>>
          /\ file["plan"] # None /\ file["preRead"] # None /\ proc[p].at = "dispatch"
      BY <1>0, <1>1 DEF Dispatch, Is, world, WorkerInv, AfterPlan, AfterPreRead
    <2>2. ASSUME NEW at \in {"store", "failed"}, Step(p, at), UNCHANGED <<file, sends, transcript>>
          PROVE  ProviderInv'
      <3>1. /\ proc'[p].at = at
            /\ proc'[p].born => file'["burn"] # None
            /\ file'["plan"] = file["plan"] /\ file'["preRead"] = file["preRead"]
            /\ WorkerInv(p)' => ProviderInv'
        BY <2>1, <2>2, MovesOn
      <3> QED BY <2>1, <2>2, <3>1, Arrives
    <2>3. CASE Refused(p, "failed") /\ UNCHANGED <<sends, transcript>>
      BY <2>1, <2>3, RefusedEnds
    <2>4. ASSUME NEW at \in {"store", "failed"}, Step(p, at), Admitted(p), UNCHANGED file,
                 sends' = {[who |-> p, born |-> proc[p].born, authorized |-> file["preRead"] \in events]},
                 UNCHANGED transcript \/ \E a \in Answers : transcript' = [answer |-> a]
          PROVE  ProviderInv'
      <3>1. file["preRead"] \in events
        BY <1>0, <2>1 DEF FilesInv
      <3>2. ~proc[p].born
        BY <1>0, <2>4 DEF WorkerInv, Admitted
      <3>3. \A s \in sends' : s.authorized /\ ~s.born
        <4>1. PICK yes : yes = (file["preRead"] \in events)
          OBVIOUS
        <4>2. sends' = {[who |-> p, born |-> proc[p].born, authorized |-> yes]}
          BY <2>4, <4>1
        <4>3. \A s \in sends' : s.authorized = yes /\ s.born = proc[p].born
          BY <4>2
        <4>4. yes
          BY <3>1, <4>1, Zenon
        <4> QED BY <3>2, <4>3, <4>4, Zenon
      <3>4. transcript' # None => transcript'.answer \in Bundles \cup {None}
        <4>1. bundles \subseteq Bundles
          BY DEF ProviderInv, EventsOnly
        <4>2. \A a \in Answers : a \in Bundles \cup {None}
          BY <4>1 DEF Answers
        <4> QED BY <1>0, <2>4, <4>2 DEF FilesInv
      <3>5. FilesInv' /\ FileShape' /\ WriteShape' /\ EventsOnly'
        BY <1>0, <2>1, <2>4, <3>4, QuietSink DEF FilesInv, ProviderInv, FileShape
      <3>6. /\ ProcShape' /\ proc'[p].at = at /\ proc'[p].born = proc[p].born
            /\ \A q \in Workers : q # p => proc'[q] = proc[q]
        BY <1>0, <2>4, ProcMoves
      <3>7. WorkerInv(p)'
        BY <2>1, <2>4, <3>2, <3>6, Arrives
      <3>8. Grows
        BY <2>1, <2>4 DEF Grows
      <3>9. (\A q \in Workers : WorkerInv(q)') /\ \A h \in handed : HandedInv(h)'
        BY <3>6, <3>7, <3>8, OthersRely
      <3> QED BY <2>1, <3>3, <3>5, <3>6, <3>9 DEF ProviderInv
    <2> QED BY <1>1, <2>2, <2>3, <2>4 DEF Dispatch
  <1>2. ASSUME StoreResult(p) PROVE ProviderInv'
    <2>1. /\ UNCHANGED <<now, bundles, events, late, sink, control, transcript, sends, handed>>
          /\ proc[p].at = "store" /\ Agrees("mcp", transcript) /\ Put("mcp", transcript)
          /\ RecordResult(p)
      BY <1>2 DEF StoreResult, Is, world
    <2>2. PICK at : /\ Step(p, at)
                    /\ at = "ended" \/ (at = "control" /\ journal' = "complete")
      BY <2>1, RecordsResult
    <2>3. /\ file["plan"] # None /\ file["preRead"] # None
          /\ journal = "complete" => journal' = "complete"
      BY <2>1, RecordsResult
    <2>4. "mcp" \in Artefacts
      BY DEF Artefacts
    <2>5. /\ proc'[p].at = at
          /\ proc'[p].born => file'["burn"] # None
          /\ file'["mcp"] = transcript /\ \A b \in Artefacts : b # "mcp" => file'[b] = file[b]
          /\ \A b \in Artefacts : file[b] # None => file'[b] = file[b]
          /\ FilesInv' /\ WorkerInv(p)' => ProviderInv'
      BY <2>1, <2>2, <2>3, <2>4, MakesArtefact
    <2>6. FilesInv' /\ file'["plan"] # None /\ file'["preRead"] # None
      BY <1>0, <2>1, <2>3, <2>5 DEF FilesInv, Artefacts
    <2> QED BY <2>2, <2>5, <2>6, Arrives
  <1>3. ASSUME DispatchFailed(p) PROVE ProviderInv'
    <2>1. /\ UNCHANGED <<now, bundles, events, late, sink, file, transcript, sends, handed>>
          /\ control = "COMPLETED" => control' = "COMPLETED"
          /\ journal = "complete" => journal' = "complete"
          /\ Step(p, "ended")
      BY <1>3 DEF DispatchFailed, HoldUnknown, Ends2, world
    <2> QED BY <2>1, MovesOn
  <1>4. ASSUME ReconcileControl(p) PROVE ProviderInv'
    <2>1. /\ UNCHANGED <<now, bundles, events, late, sink, file, journal, transcript, sends, handed>>
          /\ control = "COMPLETED" => control' = "COMPLETED"
          /\ file["plan"] # None /\ file["preRead"] # None /\ file["mcp"] # None
          /\ journal = "complete"
      BY <1>0, <1>4 DEF ReconcileControl, Is, Completes, EvidenceOnFile, world, WorkerInv,
         AfterPlan, AfterPreRead
    <2>2. CASE Completes /\ Step(p, "terminalPlan")
      <3>1. /\ proc'[p].at = "terminalPlan"
            /\ proc'[p].born => file'["burn"] # None
            /\ WorkerInv(p)' => ProviderInv'
        BY <2>1, <2>2, MovesOn
      <3> QED BY <2>1, <2>2, <3>1, Arrives DEF Completes
    <2>3. CASE Step(p, "ended")
      BY <2>1, <2>3, MovesOn
    <2> QED BY <1>4, <2>2, <2>3 DEF ReconcileControl, Ends2
  <1> QED BY <1>1, <1>2, <1>3, <1>4

\* The terminal event and the handoff.
LEMMA TerminalKeeps ==
  ASSUME ProviderInv, NEW p \in Workers,
         \/ PlanCompletion(p) \/ PersistCompletion(p) \/ CommitCompletion(p)
         \/ TerminalAppended(p) \/ TerminalResolve(p) \/ Handoff(p)
  PROVE  ProviderInv'
  <1>0. WorkerInv(p) /\ ProcShape /\ FilesInv /\ now \in 0 .. MaxTime
    BY DEF ProviderInv
  <1>1. ASSUME proc[p].at \in AfterControl
        PROVE  /\ file["plan"] # None /\ file["preRead"] # None /\ file["mcp"] # None
               /\ journal = "complete" /\ control = "COMPLETED"
               /\ file["mcp"].answer \in Bundles \cup {None}
    BY <1>0, <1>1 DEF WorkerInv, FilesInv, AfterPlan, AfterPreRead
  <1>2. ASSUME NEW at \in {"terminal", "terminalAppend", "terminalResolve"}, Step(p, at),
               UNCHANGED <<now, bundles, events, late, file, journal, control, transcript, sends, handed>>,
               UNCHANGED sink \/ Forgets(p) \/ \E row : Asks(p, "events", row),
               proc[p].at \in AfterControl, file["terminalPlan"] # None
        PROVE  ProviderInv'
    <2>1. /\ proc'[p].at = at
          /\ proc'[p].born => file'["burn"] # None
          /\ WorkerInv(p)' => ProviderInv'
      BY <1>2, MovesOn
    <2> QED BY <1>1, <1>2, <2>1, Arrives
  <1>3. ASSUME PlanCompletion(p) PROVE ProviderInv'
    <2>1. UNCHANGED <<now, bundles, events, late, sink, file, journal, control, transcript, sends, handed>>
      BY <1>3 DEF PlanCompletion, world
    <2>2. proc[p].at = "terminalPlan" /\ proc[p].at \in AfterControl
      BY <1>3 DEF PlanCompletion, Is, AfterControl
    <2>3. CASE TerminalPlanOnFile /\ Step(p, "terminal")
      BY <1>2, <2>1, <2>2, <2>3 DEF TerminalPlanOnFile
    <2>4. CASE Step(p, "ended")
      BY <2>1, <2>4, MovesOn
    <2>5. ASSUME Answer # None,
                 proc' = [proc EXCEPT ![p].at = "terminalPlanned",
                   ![p].row = Event(Drill, "terminal", "recovered_context_only", Answer, 0, now)]
          PROVE  ProviderInv'
      <3>1. PICK at, row : at = "terminalPlanned"
              /\ row = Event(Drill, "terminal", "recovered_context_only", Answer, 0, now)
        OBVIOUS
      <3>2. Answer \in Bundles
        BY <1>1, <2>2, <2>5 DEF Answer
      <3>3. row # None /\ row.result = file["mcp"].answer
        BY <1>0, <3>1, <3>2, WorkerAssumption DEF Event, Answer
      <3>4. Takes(p, at, row)
        BY <2>5, <3>1 DEF Takes
      <3>5. /\ ProcShape' /\ proc'[p].at = at /\ proc'[p].row = row /\ proc'[p].born = proc[p].born
            /\ \A q \in Workers : q # p => proc'[q] = proc[q]
        BY <1>0, <3>4, RowTaken
      <3>6. /\ proc[p].born => file'["burn"] # None
            /\ WorkerInv(p)' => ProviderInv'
        BY <2>1, <3>5, PlainMove
      <3>7. /\ file'["plan"] # None /\ file'["preRead"] # None /\ file'["mcp"] # None
            /\ journal' = "complete" /\ control' = "COMPLETED"
        BY <1>1, <2>1, <2>2
      <3>8. proc'[p].at = "terminalPlanned" /\ proc'[p].row # None
            /\ proc'[p].row.result = file'["mcp"].answer
        BY <2>1, <3>1, <3>3, <3>5
      <3>9. WorkerInv(p)'
        BY <3>5, <3>6, <3>7, <3>8, Arrives
      <3> QED BY <3>6, <3>9
    <2> QED BY <1>3, <2>3, <2>4, <2>5 DEF PlanCompletion, Ends2
  <1>4. ASSUME PersistCompletion(p) PROVE ProviderInv'
    <2>1. UNCHANGED <<now, bundles, events, late, sink, journal, control, transcript, sends, handed>>
      BY <1>4 DEF PersistCompletion, world
    <2>2. proc[p].at = "terminalPlanned" /\ proc[p].at \in AfterControl
      BY <1>4 DEF PersistCompletion, Is, AfterControl
    <2>3. proc[p].row # None /\ proc[p].row.result = file["mcp"].answer
      BY <1>0, <2>2 DEF WorkerInv
    <2>4. CASE Step(p, "ended") /\ UNCHANGED file
      BY <2>1, <2>4, MovesOn
    <2>5. CASE Agrees("terminalPlan", proc[p].row) /\ Put("terminalPlan", proc[p].row) /\ Step(p, "terminal")
      <3>1. "terminalPlan" \in Artefacts
        BY DEF Artefacts
      <3>2. /\ proc'[p].at = "terminal"
            /\ proc'[p].born => file'["burn"] # None
            /\ file'["terminalPlan"] = proc[p].row
            /\ \A b \in Artefacts : b # "terminalPlan" => file'[b] = file[b]
            /\ \A b \in Artefacts : file[b] # None => file'[b] = file[b]
            /\ FilesInv' /\ WorkerInv(p)' => ProviderInv'
        BY <2>1, <2>5, <3>1, MakesArtefact
      <3>3. /\ file'["plan"] = file["plan"] /\ file'["preRead"] = file["preRead"]
            /\ file'["mcp"] = file["mcp"] /\ file'["terminal"] = file["terminal"]
            /\ file["terminalPlan"] # None => file'["terminalPlan"] = file["terminalPlan"]
        BY <3>2 DEF Artefacts
      <3>4. FilesInv'
        BY <1>0, <1>1, <2>1, <2>2, <2>3, <3>2, <3>3 DEF FilesInv
      <3>5. WorkerInv(p)'
        BY <1>1, <2>1, <2>2, <2>3, <3>2, <3>3, Arrives
      <3> QED BY <3>2, <3>4, <3>5
    <2> QED BY <1>4, <2>4, <2>5 DEF PersistCompletion, Ends2
  <1>5. ASSUME CommitCompletion(p) \/ TerminalAppended(p) PROVE ProviderInv'
    <2>1. UNCHANGED <<now, bundles, events, late, file, journal, control, transcript, sends, handed>>
      BY <1>5 DEF CommitCompletion, TerminalAppended, world
    <2>2. proc[p].at \in AfterTerminalPlan
      BY <1>5 DEF CommitCompletion, TerminalAppended, Is, AfterTerminalPlan
    <2>3. proc[p].at \in AfterControl /\ file["terminalPlan"] # None
      BY <1>0, <2>2 DEF WorkerInv, AfterControl
    <2>4. UNCHANGED sink \/ Forgets(p) \/ \E row : Asks(p, "events", row)
      BY <1>5 DEF CommitCompletion, TerminalAppended
    <2>5. \E at \in {"terminalAppend", "terminalResolve", "ended"} : Step(p, at)
      BY <1>5 DEF CommitCompletion, TerminalAppended, Ends2
    <2>6. CASE Step(p, "ended")
      BY <2>1, <2>4, <2>6, MovesOn
    <2> QED BY <1>2, <2>1, <2>3, <2>4, <2>5, <2>6
  <1>6. ASSUME TerminalResolve(p) PROVE ProviderInv'
    <2>1. UNCHANGED <<now, bundles, events, late, sink, journal, control, transcript, sends, handed>>
      BY <1>6 DEF TerminalResolve, world
    <2>2. proc[p].at \in AfterTerminalPlan
      BY <1>6 DEF TerminalResolve, Is, AfterTerminalPlan
    <2>3. proc[p].at \in AfterControl /\ file["terminalPlan"] # None
      BY <1>0, <2>2 DEF WorkerInv, AfterControl
    <2>4. CASE Step(p, "ended") /\ UNCHANGED file
      BY <2>1, <2>4, MovesOn
    <2>5. CASE /\ file["terminalPlan"] \in events /\ Agrees("terminal", file["terminalPlan"])
               /\ Put("terminal", file["terminalPlan"]) /\ Step(p, "w3")
      <3>1. "terminal" \in Artefacts
        BY DEF Artefacts
      <3>2. /\ proc'[p].at = "w3"
            /\ proc'[p].born => file'["burn"] # None
            /\ file'["terminal"] = file["terminalPlan"]
            /\ \A b \in Artefacts : b # "terminal" => file'[b] = file[b]
            /\ FilesInv' /\ WorkerInv(p)' => ProviderInv'
        BY <2>1, <2>5, <3>1, MakesArtefact
      <3>3. /\ file'["plan"] = file["plan"] /\ file'["preRead"] = file["preRead"]
            /\ file'["mcp"] = file["mcp"] /\ file'["terminalPlan"] = file["terminalPlan"]
        BY <3>2 DEF Artefacts
      <3>4. FilesInv'
        BY <1>0, <2>1, <2>5, <3>2, <3>3 DEF FilesInv
      <3>5. WorkerInv(p)'
        BY <1>1, <2>1, <2>3, <3>2, <3>3, Arrives
      <3> QED BY <3>2, <3>4, <3>5
    <2> QED BY <1>6, <2>4, <2>5 DEF TerminalResolve, Ends2
  <1>7. ASSUME Handoff(p) PROVE ProviderInv'
    <2>1. /\ UNCHANGED <<now, bundles, events, late, sink, file, journal, control, transcript, sends>>
          /\ proc[p].at = "w3" /\ Step(p, "ended")
      BY <1>7 DEF Handoff, Is, Ends2, world
    <2>2. PICK h : h = [recovery |-> file["terminal"], evidence |-> file["mcp"]]
      OBVIOUS
    <2>3. handed' = handed \cup {h}
      BY <1>7, <2>2 DEF Handoff
    <2>4. proc[p].at \in AfterControl /\ file["terminal"] # None
      BY <1>0, <2>1 DEF WorkerInv, AfterControl, AfterTerminalPlan
    <2>5. HandedInv(h)' /\ h = [recovery |-> h.recovery, evidence |-> h.evidence]
      BY <1>1, <2>1, <2>2, <2>4 DEF HandedInv
    <2>6. /\ ProcShape' /\ proc'[p].at = "ended" /\ proc'[p].born = proc[p].born
          /\ \A q \in Workers : q # p => proc'[q] = proc[q]
      BY <1>0, <2>1, ProcMoves
    <2>7. WorkerInv(p)'
      BY <1>0, <2>1, <2>6, Arrives DEF WorkerInv
    <2>8. Grows
      BY <2>1 DEF Grows
    <2>9. (\A q \in Workers : WorkerInv(q)') /\ \A g \in handed : HandedInv(g)'
      BY <2>6, <2>7, <2>8, OthersRely
    <2>10. FilesInv' /\ FileShape' /\ WriteShape' /\ EventsOnly'
      BY <1>0, <2>1, QuietSink DEF FilesInv, ProviderInv, FileShape
    <2> QED BY <2>1, <2>3, <2>5, <2>6, <2>9, <2>10 DEF ProviderInv
  <1> QED BY <1>3, <1>4, <1>5, <1>6, <1>7

\* The sink writes what the workers asked for, late or not.
LEMMA SinkOfEvents ==
  ASSUME ProviderInv, SinkStep
  PROVE  WriteShape' /\ EventsOnly' /\ events \subseteq events' /\ now' = now
  <1>0. EventsOnly /\ now' = now
    BY DEF ProviderInv, SinkStep
  <1>1. PICK A, T, R : sink \in [Clients -> [at: A, table: T, row: R]]
    BY DEF ProviderInv, WriteShape
  <1>2. ASSUME NEW w, w.table = "events", Commit(w)
        PROVE  events \subseteq events' /\ bundles' = bundles
    BY <1>2 DEF Commit
  <1>3. ASSUME NEW x \in Clients, NEW at, Goto(x, at), sink[x].at \in {"write", "resolve"},
               events \subseteq events', bundles' = bundles, late' \subseteq late \cup {sink[x]}
        PROVE  WriteShape' /\ EventsOnly' /\ events \subseteq events'
    <2>1. sink' \in [Clients -> [at: A \cup {at}, table: T, row: R]]
      BY <1>1, <1>3 DEF Goto
    <2>2. /\ sink'[x].table = sink[x].table
          /\ \A y \in Clients : y # x => sink'[y] = sink[y]
      BY <1>1, <1>3 DEF Goto
    <2>3. sink[x].table = "events"
      BY <1>0, <1>3 DEF EventsOnly
    <2>4. WriteShape'
      BY <2>1 DEF WriteShape
    <2>5. EventsOnly'
      BY <1>0, <1>3, <2>2, <2>3 DEF EventsOnly
    <2> QED BY <1>3, <2>4, <2>5
  <1>4. ASSUME NEW x \in Clients, WriteFails(x) \/ WriteCommits(x) \/ Resolve(x)
        PROVE  WriteShape' /\ EventsOnly' /\ events \subseteq events'
    <2>1. sink[x].at \in {"write", "resolve"} /\ late' \subseteq late \cup {sink[x]}
      BY <1>4 DEF WriteFails, WriteCommits, Resolve
    <2>2. \E at : Goto(x, at)
      BY <1>4 DEF WriteFails, WriteCommits, Resolve
    <2>3. Commit(sink[x]) \/ UNCHANGED <<bundles, events>>
      BY <1>4 DEF WriteFails, WriteCommits, Resolve, tables
    <2>4. sink[x].table = "events"
      BY <1>0, <2>1 DEF EventsOnly
    <2>5. events \subseteq events' /\ bundles' = bundles
      BY <1>2, <2>3, <2>4
    <2> QED BY <1>3, <2>1, <2>2, <2>5
  <1>5. ASSUME NEW w \in late, CommitsLate(w)
        PROVE  WriteShape' /\ EventsOnly' /\ events \subseteq events'
    <2>1. late' \subseteq late /\ sink' = sink /\ (Commit(w) \/ UNCHANGED <<bundles, events>>)
      BY <1>5 DEF CommitsLate, tables
    <2>2. w.table = "events"
      BY <1>0 DEF EventsOnly
    <2>3. events \subseteq events' /\ bundles' = bundles
      BY <1>2, <2>1, <2>2
    <2>4. WriteShape'
      BY <1>1, <2>1 DEF WriteShape
    <2> QED BY <1>0, <2>1, <2>3, <2>4 DEF EventsOnly
  <1> QED BY <1>0, <1>4, <1>5 DEF SinkStep

\* The host: a process dies, the sink writes, the clock is set, the record is
\* terminalized; no process goes on.
LEMMA HostKeeps ==
  ASSUME ProviderInv,
         \/ \E p \in Workers : Die(p)
         \/ SinkStep /\ UNCHANGED workVars
         \/ Prepare \/ SetClock \/ Terminalize
         \/ UNCHANGED providerVars
  PROVE  ProviderInv'
  <1>0. /\ ProcShape /\ FileShape /\ WriteShape /\ EventsOnly /\ FilesInv /\ now \in 0 .. MaxTime
        /\ \A q \in Workers : WorkerInv(q)
    BY DEF ProviderInv
  <1>1. ASSUME UNCHANGED <<proc, handed, sends>>, Grows, now' \in 0 .. MaxTime,
               FileShape', FilesInv', WriteShape', EventsOnly'
        PROVE  ProviderInv'
    <2>1. (\A q \in Workers : WorkerInv(q)') /\ \A h \in handed : HandedInv(h)'
      BY <1>1, OthersRely
    <2>2. ProcShape'
      BY <1>0, <1>1 DEF ProcShape
    <2> QED BY <1>1, <2>1, <2>2 DEF ProviderInv
  <1>2. ASSUME NEW p \in Workers, Die(p) PROVE ProviderInv'
    <2>1. /\ UNCHANGED <<now, bundles, events, file, journal, control, transcript, sends, handed>>
          /\ proc' = [proc EXCEPT ![p] = Dead] /\ Forgets(p)
          /\ late' \in {late} \cup (IF sink[p].at = "write" THEN {late \cup {sink[p]}} ELSE {})
      BY <1>2 DEF Die, tables, Forgets
    <2>2. /\ ProcShape' /\ proc'[p].at = "idle" /\ proc'[p].born = FALSE
          /\ \A q \in Workers : q # p => proc'[q] = proc[q]
      BY <1>0, <2>1, ProcMoves
    <2>3. WorkerInv(p)'
      BY <2>2, Arrives
    <2>4. Grows
      BY <2>1 DEF Grows
    <2>5. p \in Clients
      BY WorkerAssumption
    <2>6. \A w \in late' : w.table = "events"
      BY <1>0, <2>1, <2>5 DEF EventsOnly
    <2>7. PICK A, T, R : sink \in [Clients -> [at: A, table: T, row: R]]
      BY <1>0 DEF WriteShape
    <2>8. sink' \in [Clients -> [at: A \cup {"idle"}, table: T \cup {None}, row: R \cup {None}]]
      BY <2>1, <2>7 DEF Forgets, Quiet
    <2>9. sink'[p].at = "idle" /\ \A x \in Clients : x # p => sink'[x] = sink[x]
      BY <2>1, <2>5, <2>7 DEF Forgets, Quiet
    <2>10. WriteShape' /\ EventsOnly'
      BY <1>0, <2>1, <2>6, <2>8, <2>9 DEF WriteShape, EventsOnly
    <2>11. FileShape' /\ FilesInv' /\ now' \in 0 .. MaxTime
      BY <1>0, <2>1 DEF FileShape, FilesInv
    <2> QED BY <2>1, <2>2, <2>3, <2>4, <2>10, <2>11, WorkerMoves
  <1>3. ASSUME SinkStep, UNCHANGED workVars PROVE ProviderInv'
    <2>1. UNCHANGED <<file, journal, control, transcript, sends, proc, handed>>
      BY <1>3 DEF workVars
    <2>2. WriteShape' /\ EventsOnly' /\ events \subseteq events' /\ now' = now
      BY <1>3, SinkOfEvents
    <2>3. FileShape' /\ FilesInv' /\ Grows
      BY <1>0, <2>1, <2>2 DEF FileShape, FilesInv, Grows
    <2> QED BY <1>0, <1>1, <2>1, <2>2, <2>3
  <1>4. ASSUME UNCHANGED <<bundles, events, late, sink, transcript, proc, handed, sends, journal>>,
               now' \in 0 .. MaxTime, control = "COMPLETED" => control' = "COMPLETED",
               UNCHANGED file \/ \E a \in Marks : \E v : file[a] = None /\ Put(a, v)
        PROVE  ProviderInv'
    <2>1. /\ FileShape' /\ FilesInv'
          /\ \A a \in Artefacts : file[a] # None => file'[a] = file[a]
      BY <1>0, <1>4, MarksOnly
    <2>2. WriteShape' /\ EventsOnly'
      BY <1>0, <1>4 DEF WriteShape, EventsOnly
    <2>3. Grows
      BY <1>4, <2>1 DEF Grows
    <2> QED BY <1>1, <1>4, <2>1, <2>2, <2>3
  <1>5. ASSUME Prepare PROVE ProviderInv'
    <2>1. "preparation" \in Marks
      BY DEF Marks
    <2>2. \E a \in Marks : \E v : file[a] = None /\ Put(a, v)
      BY <1>5, <2>1 DEF Prepare
    <2>3. UNCHANGED <<now, bundles, events, late, sink, transcript, proc, handed, sends, journal, control>>
      BY <1>5 DEF Prepare, world
    <2> QED BY <1>0, <1>4, <2>2, <2>3
  <1>6. ASSUME SetClock PROVE ProviderInv'
    BY <1>4, <1>6 DEF SetClock, tables, workVars
  <1>7. ASSUME Terminalize PROVE ProviderInv'
    BY <1>0, <1>4, <1>7 DEF Terminalize, world
  <1>8. ASSUME UNCHANGED providerVars PROVE ProviderInv'
    BY <1>0, <1>4, <1>8 DEF providerVars, brokerVars, workVars
  <1> QED BY <1>2, <1>3, <1>5, <1>6, <1>7, <1>8

\* At first there is no artefact, no event and no handoff.
LEMMA WorkersStart == ProviderInit => ProviderInv
  <1> SUFFICES ASSUME ProviderInit PROVE ProviderInv
    OBVIOUS
  <1>1. PICK b \in Bundles : StartsWith({b})
    BY DEF ProviderInit
  <1>2. /\ WorkersRest /\ now = 0 /\ bundles = {b} /\ events = {} /\ late = {}
        /\ sink = [x \in Clients |-> Quiet]
    BY <1>1 DEF ProviderInit, StartsWith
  <1>3. proc \in [Workers -> [at: {"idle"}, sticky: {FALSE}, post: {FALSE}, born: {FALSE}, row: {None}]]
    BY <1>2 DEF WorkersRest, Dead
  <1>4. file \in [Artefacts -> {None}] /\ handed = {} /\ sends = {} /\ transcript = None
    BY <1>2 DEF WorkersRest
  <1>5. sink \in [Clients -> [at: {"idle"}, table: {None}, row: {None}]]
    BY <1>2 DEF Quiet
  <1>6. ProcShape /\ FileShape
    BY <1>3, <1>4 DEF ProcShape, FileShape
  <1>7. WriteShape
    BY <1>5 DEF WriteShape
  <1>8. EventsOnly
    BY <1>2, <1>5 DEF EventsOnly
  <1>9. FilesInv
    BY <1>4 DEF FilesInv, Artefacts
  <1>10. \A p \in Workers : WorkerInv(p)
    BY <1>3, <1>4 DEF WorkerInv, AfterPlan, AfterPreRead, AfterControl, AfterTerminalPlan
  <1>11. now \in 0 .. MaxTime
    BY <1>2, BrokerAssumption
  <1> QED BY <1>4, <1>6, <1>7, <1>8, <1>9, <1>10, <1>11 DEF ProviderInv

\* ProviderRecovery.HandoffIsBacked: runIntegratedLiveDrillProviderRecovery sends
\* its request only under a committed pre_read event and never from a process
\* started after the burn; all its handoffs are one, and stand on committed
\* events, on the evidence on file and on a COMPLETED record, for any number
\* of processes and restarts, late COMMITs and a clock set back.
THEOREM HandoffsAreBacked == ProviderSpec => []HandoffIsBacked
  <1>1. ASSUME ProviderInv, [ProviderNext]_providerVars PROVE ProviderInv'
    BY <1>1, EntryKeeps, PreReadKeeps, CallKeeps, DispatchKeeps, TerminalKeeps, HostKeeps
       DEF ProviderNext, Work
  <1>2. ASSUME ProviderInv PROVE HandoffIsBacked
    <2>1. FilesInv /\ \A s \in sends : s.authorized /\ ~s.born
      BY <1>2 DEF ProviderInv
    <2>2. \A h \in handed : HandedInv(h) /\ h = [recovery |-> h.recovery, evidence |-> h.evidence]
      BY <1>2 DEF ProviderInv
    <2>3. \A h, g \in handed : h = g
      BY <2>2 DEF HandedInv
    <2>4. \A h \in handed :
            /\ h.recovery \in events /\ h.recovery.result = h.evidence.answer
            /\ h.evidence = file["mcp"] /\ control = "COMPLETED" /\ journal = "complete"
            /\ file["plan"] \in events
      BY <2>1, <2>2 DEF HandedInv, FilesInv
    <2> QED BY <2>1, <2>3, <2>4 DEF HandoffIsBacked
  <1> QED BY <1>1, <1>2, WorkersStart, PTL DEF ProviderSpec

-----------------------------------------------------------------------------
(* The repair of the grants: the processes and what they may leave behind.  *)

Places == {"idle", "preflight", "reserve", "writing", "journal", "dispatch", "verify", "ended"}

Words == {"rejected", "applied", "restored", "hold", "died"}

ToolShape ==
  [at: Places, mode: {"repair", "disable"}, op: Operations \cup {"none"}, step: 1 .. 3,
   held: BOOLEAN, emergency: BOOLEAN]

GrantTypes ==
  /\ tool \in [Tools -> ToolShape] /\ reports \in Seq(Words)
  /\ \A t \in Tools : tool[t].emergency => tool[t].at \notin {"idle", "preflight"}

\* The view is exposed: somebody will still find out, or has said so.
Watches(t) ==
  \/ tool[t].at = "verify" /\ tool[t].mode = "repair" /\ tool[t].step \in {2, 3}
  \/ tool[t].at = "verify" /\ tool[t].mode = "disable" /\ tool[t].step = 3
  \/ tool[t].emergency /\ tool[t].at \notin {"idle", "ended"}

Exposed == ~overtaken /\ Everything \subseteq grants

ExposureInv ==
  Exposed => Said("hold") \/ Said("died") \/ AppliedLast \/ \E t \in Tools : Watches(t)

\* A process moves on; what the step does not name stays.
LEMMA ToolGoes ==
  ASSUME tool \in [Tools -> ToolShape], NEW t \in Tools, NEW x \in ToolShape, Goes(t, x)
  PROVE  /\ tool' \in [Tools -> ToolShape] /\ tool'[t] = x
         /\ \A u \in Tools : u # t => tool'[u] = tool[u]
  BY DEF Goes

\* A change of place or of step keeps a process of the tool a process of the tool.
LEMMA ToolPlaces ==
  ASSUME tool \in [Tools -> ToolShape], NEW t \in Tools
  PROVE  /\ \A place \in Places :
              /\ [tool[t] EXCEPT !.at = place] \in ToolShape
              /\ [tool[t] EXCEPT !.at = place].at = place
              /\ [tool[t] EXCEPT !.at = place].mode = tool[t].mode
              /\ [tool[t] EXCEPT !.at = place].op = tool[t].op
              /\ [tool[t] EXCEPT !.at = place].step = tool[t].step
              /\ [tool[t] EXCEPT !.at = place].held = tool[t].held
              /\ [tool[t] EXCEPT !.at = place].emergency = tool[t].emergency
         /\ tool[t] \in ToolShape
  BY DEF ToolShape

\* What was said stays said.
LEMMA Reported ==
  ASSUME reports \in Seq(Words), NEW word \in Words, reports' = Append(reports, word)
  PROVE  /\ reports' \in Seq(Words)
         /\ \A w : Said(w)' <=> Said(w) \/ w = word
         /\ AppliedLast /\ word # "restored" => AppliedLast'
         /\ word = "applied" => AppliedLast'
  <1>1. /\ reports' \in Seq(Words) /\ Len(reports') = Len(reports) + 1 /\ Len(reports) \in Nat
        /\ reports'[Len(reports) + 1] = word
        /\ \A i \in 1 .. Len(reports) : reports'[i] = reports[i]
    BY AppendProperties
  <1>2. DOMAIN reports = 1 .. Len(reports) /\ DOMAIN reports' = 1 .. Len(reports) + 1
    BY <1>1
  <1>3. ASSUME NEW w PROVE Said(w)' <=> Said(w) \/ w = word
    <2>1. Said(w) => Said(w)'
      BY <1>1, <1>2 DEF Said
    <2>2. w = word => Said(w)'
      BY <1>1, <1>2 DEF Said
    <2>3. Said(w)' => Said(w) \/ w = word
      BY <1>1, <1>2 DEF Said
    <2> QED BY <2>1, <2>2, <2>3
  <1>4. ASSUME AppliedLast, word # "restored" PROVE AppliedLast'
    <2>1. PICK i \in DOMAIN reports :
            reports[i] = "applied" /\ \A j \in DOMAIN reports : j > i => reports[j] # "restored"
      BY <1>4 DEF AppliedLast
    <2>2. /\ i \in DOMAIN reports' /\ reports'[i] = "applied"
          /\ \A j \in DOMAIN reports' : j > i => reports'[j] # "restored"
      BY <1>1, <1>2, <1>4, <2>1
    <2> QED BY <2>2 DEF AppliedLast
  <1>5. ASSUME word = "applied" PROVE AppliedLast'
    <2>1. /\ Len(reports) + 1 \in DOMAIN reports' /\ reports'[Len(reports) + 1] = "applied"
          /\ \A j \in DOMAIN reports' : ~(j > Len(reports) + 1)
      BY <1>1, <1>2, <1>5
    <2> QED BY <2>1 DEF AppliedLast
  <1> QED BY <1>1, <1>3, <1>4, <1>5

\* A process ends with a word.
LEMMA SaysEnds ==
  ASSUME GrantTypes, NEW t \in Tools, NEW word \in Words, Says(t, word)
  PROVE  /\ tool' \in [Tools -> ToolShape] /\ tool'[t].at = "ended"
         /\ tool'[t].mode = tool[t].mode /\ tool'[t].step = tool[t].step
         /\ \A u \in Tools : u # t => tool'[u] = tool[u]
         /\ reports' \in Seq(Words)
         /\ \A w : Said(w)' <=> Said(w) \/ w = word
         /\ AppliedLast /\ word # "restored" => AppliedLast'
         /\ word = "applied" => AppliedLast'
  <1>1. "ended" \in Places
    BY DEF Places
  <1>2. PICK x : x = [tool[t] EXCEPT !.at = "ended"]
    OBVIOUS
  <1>3. x \in ToolShape /\ x.at = "ended" /\ x.mode = tool[t].mode /\ x.step = tool[t].step
    BY <1>1, <1>2, ToolPlaces DEF GrantTypes
  <1>4. Goes(t, x) /\ reports' = Append(reports, word)
    BY <1>2 DEF Says
  <1>5. /\ tool' \in [Tools -> ToolShape] /\ tool'[t] = x
        /\ \A u \in Tools : u # t => tool'[u] = tool[u]
    BY <1>3, <1>4, ToolGoes DEF GrantTypes
  <1>6. /\ reports' \in Seq(Words)
        /\ \A w : Said(w)' <=> Said(w) \/ w = word
        /\ AppliedLast /\ word # "restored" => AppliedLast'
        /\ word = "applied" => AppliedLast'
    BY <1>4, Reported DEF GrantTypes
  <1> QED BY <1>3, <1>5, <1>6

\* An end is safe unless it is an ordinary error of one that watched.
LEMMA EndsSafely ==
  ASSUME GrantTypes, ExposureInv, NEW t \in Tools, NEW word \in Words, Says(t, word),
         UNCHANGED <<grants, overtaken>>,
         \/ word \in {"hold", "died"} \/ ~Exposed
         \/ word = "applied"
         \/ word # "restored" /\ ~Watches(t)
  PROVE  GrantTypes' /\ ExposureInv'
  <1>1. /\ tool' \in [Tools -> ToolShape] /\ tool'[t].at = "ended"
        /\ \A u \in Tools : u # t => tool'[u] = tool[u]
        /\ reports' \in Seq(Words)
        /\ \A w : Said(w)' <=> Said(w) \/ w = word
        /\ AppliedLast /\ word # "restored" => AppliedLast'
        /\ word = "applied" => AppliedLast'
    BY SaysEnds
  <1>2. GrantTypes'
    BY <1>1 DEF GrantTypes
  <1>3. \A u \in Tools : u # t /\ Watches(u) => Watches(u)'
    BY <1>1 DEF Watches
  <1>4. Exposed' <=> Exposed
    BY DEF Exposed
  <1>5. ASSUME Exposed, word \notin {"hold", "died", "applied"}, word # "restored", ~Watches(t)
        PROVE  Said("hold")' \/ Said("died")' \/ AppliedLast' \/ \E u \in Tools : Watches(u)'
    BY <1>1, <1>3, <1>5 DEF ExposureInv
  <1>6. ExposureInv'
    BY <1>1, <1>4, <1>5 DEF ExposureInv
  <1> QED BY <1>2, <1>6

\* A process moves on and keeps watching if it did.
LEMMA MovesSafely ==
  ASSUME GrantTypes, ExposureInv, NEW t \in Tools, NEW x \in ToolShape, Goes(t, x),
         UNCHANGED <<reports, overtaken>>,
         x.emergency => x.at \notin {"idle", "preflight"},
         Exposed' => \/ Watches(t)'
                     \/ Exposed /\ ~Watches(t)
  PROVE  GrantTypes' /\ ExposureInv'
  <1>1. /\ tool' \in [Tools -> ToolShape] /\ tool'[t] = x
        /\ \A u \in Tools : u # t => tool'[u] = tool[u]
    BY ToolGoes DEF GrantTypes
  <1>2. GrantTypes'
    BY <1>1 DEF GrantTypes
  <1>3. \A u \in Tools : u # t /\ Watches(u) => Watches(u)'
    BY <1>1 DEF Watches
  <1>4. (\A w : Said(w)' <=> Said(w)) /\ (AppliedLast => AppliedLast')
    BY DEF Said, AppliedLast
  <1>5. ExposureInv'
    BY <1>3, <1>4 DEF ExposureInv
  <1> QED BY <1>2, <1>5

\* The statements of the two modes, and what the readback behind each accepts.
LEMMA StepsAre ==
  ASSUME NEW x \in ToolShape
  PROVE  /\ x.mode = "repair" /\ x.step = 1 =>
              StepOf(x).statement = Statement("revoke", "public") /\ StepOf(x).states = {{"select"}}
         /\ x.mode = "repair" /\ x.step = 2 =>
              StepOf(x).statement = Statement("grant", "private") /\ StepOf(x).states = {{"private", "select"}}
         /\ x.mode = "repair" /\ x.step = 3 =>
              StepOf(x).statement = Statement("grant", "public") /\ StepOf(x).states = {Everything}
         /\ x.mode = "disable" /\ x.step = 1 =>
              StepOf(x).statement = Statement("revoke", "public") /\ StepOf(x).states = SUBSET {"private", "select"}
         /\ x.mode = "disable" /\ x.step = 2 =>
              StepOf(x).statement = Statement("revoke", "private") /\ StepOf(x).states = SUBSET {"select"}
         /\ x.mode = "disable" /\ x.step = 3 =>
              StepOf(x).statement = Statement("grant", "public") /\ StepOf(x).states = {{"public"}, Baseline}
  BY DEF StepOf, RepairSteps, DisableSteps, StepTo

\* A statement grants or revokes one privilege of the three.
LEMMA StatementDoes ==
  ASSUME GrantTypes, NEW t \in Tools, Perform(StepOf(tool[t]).statement)
  PROVE  /\ tool[t].mode = "repair" /\ tool[t].step = 1 => grants' = grants \ {"public"} /\ (bared' => bared)
         /\ tool[t].mode = "repair" /\ tool[t].step = 2 =>
              grants' = grants \cup {"private"} /\ (bared' => bared \/ "public" \in grants)
         /\ tool[t].mode = "repair" /\ tool[t].step = 3 => grants' = grants \cup {"public"} /\ (bared' => bared)
         /\ tool[t].mode = "disable" /\ tool[t].step = 1 => grants' = grants \ {"public"} /\ (bared' => bared)
         /\ tool[t].mode = "disable" /\ tool[t].step = 2 => grants' = grants \ {"private"} /\ (bared' => bared)
         /\ tool[t].mode = "disable" /\ tool[t].step = 3 => grants' = grants \cup {"public"} /\ (bared' => bared)
  <1>1. tool[t] \in ToolShape /\ tool[t].mode \in {"repair", "disable"} /\ tool[t].step \in 1 .. 3
    BY DEF GrantTypes, ToolShape
  <1>2. PICK s : s = StepOf(tool[t]).statement
    OBVIOUS
  <1>3. /\ grants' = IF s.does = "grant" THEN grants \cup {s.on} ELSE grants \ {s.on}
        /\ bared' = (bared \/ (s = Statement("grant", "private") /\ Active(grants) /\ "private" \notin grants))
    BY <1>2 DEF Perform
  <1>4. ASSUME NEW on, s = Statement("revoke", on) PROVE grants' = grants \ {on} /\ (bared' => bared)
    BY <1>3, <1>4 DEF Statement
  <1>5. ASSUME NEW on, s = Statement("grant", on)
        PROVE  /\ grants' = grants \cup {on}
               /\ on = "public" => (bared' => bared)
               /\ bared' => bared \/ "public" \in grants
    BY <1>3, <1>5 DEF Statement, Active, Baseline
  <1>6. tool[t].mode = "repair" /\ tool[t].step = 1 => s = Statement("revoke", "public")
    BY <1>1, <1>2, StepsAre
  <1>7. tool[t].mode = "repair" /\ tool[t].step = 2 => s = Statement("grant", "private")
    BY <1>1, <1>2, StepsAre
  <1>8. tool[t].step = 3 => s = Statement("grant", "public")
    BY <1>1, <1>2, StepsAre
  <1>9. tool[t].mode = "disable" /\ tool[t].step = 1 => s = Statement("revoke", "public")
    BY <1>1, <1>2, StepsAre
  <1>10. tool[t].mode = "disable" /\ tool[t].step = 2 => s = Statement("revoke", "private")
    BY <1>1, <1>2, StepsAre
  <1> QED BY <1>4, <1>5, <1>6, <1>7, <1>8, <1>9, <1>10

\* The places a process goes to, and what it takes along.
SameWalk(x, y) == x.mode = y.mode /\ x.op = y.op /\ x.step = y.step

\* GoesTo, as a step to a known record.
LEMMA GoesForm ==
  ASSUME GrantTypes, NEW t \in Tools, NEW place \in Places, GoesTo(t, place)
  PROVE  \E x \in ToolShape : /\ Goes(t, x) /\ x.at = place /\ SameWalk(x, tool[t])
                              /\ x.held = tool[t].held /\ x.emergency = tool[t].emergency
  <1>0. tool[t] \in ToolShape
    BY DEF GrantTypes
  <1>1. PICK x : x = [tool[t] EXCEPT !.at = place]
    OBVIOUS
  <1>2. x \in ToolShape /\ x.at = place /\ SameWalk(x, tool[t])
    BY <1>0, <1>1 DEF ToolShape, SameWalk
  <1>3. x.held = tool[t].held /\ x.emergency = tool[t].emergency
    BY <1>0, <1>1 DEF ToolShape
  <1>4. Goes(t, x)
    BY <1>1 DEF GoesTo
  <1> QED BY <1>2, <1>3, <1>4

\* The start of the tool, as a step to a known record.
LEMMA StartForm ==
  ASSUME NEW t \in Tools, NEW mode \in {"repair", "disable"}, NEW op \in Operations,
         StartTool(t, mode, op)
  PROVE  \E x \in ToolShape : /\ Goes(t, x) /\ x.at \in {"preflight", "reserve"} /\ x.op = op
                              /\ ~x.held /\ ~x.emergency /\ x.step = 1
  <1>1. PICK first : first = IF mode = "repair" THEN "preflight" ELSE "reserve"
    OBVIOUS
  <1>2. PICK x : x = [Rested EXCEPT !.at = first, !.mode = mode, !.op = op]
    OBVIOUS
  <1>3. x \in ToolShape /\ x.at = first /\ x.op = op /\ x.step = 1
    <2>1. x = [at |-> first, mode |-> mode, op |-> op, step |-> 1, held |-> FALSE, emergency |-> FALSE]
      BY <1>2 DEF Rested
    <2>2. first \in Places /\ 1 \in 1 .. 3
      BY <1>1 DEF Places
    <2> QED BY <2>1, <2>2 DEF ToolShape
  <1>4. x.held = FALSE /\ x.emergency = FALSE
    BY <1>2 DEF Rested
  <1>5. Goes(t, x)
    BY <1>1, <1>2 DEF StartTool
  <1> QED BY <1>1, <1>3, <1>4, <1>5

\* The other steps of the tool, as steps to known records.
LEMMA ToolForms ==
  ASSUME GrantTypes, NEW t \in Tools
  PROVE  /\ Goes(t, [tool[t] EXCEPT !.at = "journal", !.held = TRUE]) =>
              \E x \in ToolShape : /\ Goes(t, x) /\ x.at = "journal" /\ SameWalk(x, tool[t])
                                   /\ x.emergency = tool[t].emergency
         /\ EmergencyDisable(t) =>
              \E x \in ToolShape : /\ Goes(t, x) /\ x.at = "reserve" /\ x.mode = "disable" /\ x.step = 1
                                   /\ x.op = tool[t].op /\ x.held = tool[t].held /\ x.emergency
         /\ Proceeds(t) /\ tool[t].step < 3 =>
              \E x \in ToolShape : /\ Goes(t, x) /\ x.at = "journal" /\ x.mode = tool[t].mode
                                   /\ x.op = tool[t].op /\ x.step = tool[t].step + 1
                                   /\ x.emergency = tool[t].emergency
  <1>0. tool[t] \in ToolShape
    BY DEF GrantTypes
  <1>2. ASSUME Goes(t, [tool[t] EXCEPT !.at = "journal", !.held = TRUE])
        PROVE  \E x \in ToolShape : /\ Goes(t, x) /\ x.at = "journal" /\ SameWalk(x, tool[t])
                                    /\ x.emergency = tool[t].emergency
    <2>1. PICK x : x = [tool[t] EXCEPT !.at = "journal", !.held = TRUE]
      OBVIOUS
    <2>2. x \in ToolShape /\ x.at = "journal" /\ SameWalk(x, tool[t]) /\ x.emergency = tool[t].emergency
      BY <1>0, <2>1 DEF ToolShape, SameWalk, Places
    <2> QED BY <1>2, <2>1, <2>2
  <1>3. ASSUME EmergencyDisable(t)
        PROVE  \E x \in ToolShape : /\ Goes(t, x) /\ x.at = "reserve" /\ x.mode = "disable" /\ x.step = 1
                                    /\ x.op = tool[t].op /\ x.held = tool[t].held /\ x.emergency
    <2>1. PICK x : x = [tool[t] EXCEPT !.at = "reserve", !.mode = "disable", !.step = 1, !.emergency = TRUE]
      OBVIOUS
    <2>2. x \in ToolShape /\ x.at = "reserve" /\ x.mode = "disable" /\ x.step = 1 /\ x.op = tool[t].op
      <3>1. x = [at |-> "reserve", mode |-> "disable", op |-> tool[t].op, step |-> 1,
                 held |-> tool[t].held, emergency |-> TRUE]
        BY <1>0, <2>1 DEF ToolShape
      <3>2. "reserve" \in Places /\ 1 \in 1 .. 3
        BY DEF Places
      <3> QED BY <1>0, <3>1, <3>2 DEF ToolShape
    <2>3. x.held = tool[t].held /\ x.emergency
      BY <1>0, <2>1 DEF ToolShape
    <2>4. Goes(t, x)
      BY <1>3, <2>1 DEF EmergencyDisable
    <2> QED BY <2>2, <2>3, <2>4
  <1>4. ASSUME Proceeds(t), tool[t].step < 3
        PROVE  \E x \in ToolShape : /\ Goes(t, x) /\ x.at = "journal" /\ x.mode = tool[t].mode
                                    /\ x.op = tool[t].op /\ x.step = tool[t].step + 1
                                    /\ x.emergency = tool[t].emergency
    <2>1. PICK x : x = [tool[t] EXCEPT !.at = "journal", !.step = @ + 1]
      OBVIOUS
    <2>2. x \in ToolShape /\ x.at = "journal" /\ x.mode = tool[t].mode /\ x.op = tool[t].op
      <3>1. x = [at |-> "journal", mode |-> tool[t].mode, op |-> tool[t].op, step |-> tool[t].step + 1,
                 held |-> tool[t].held, emergency |-> tool[t].emergency]
        BY <1>0, <2>1 DEF ToolShape
      <3>2. "journal" \in Places /\ tool[t].step + 1 \in 1 .. 3
        BY <1>0, <1>4 DEF Places, ToolShape
      <3> QED BY <1>0, <3>1, <3>2 DEF ToolShape
    <2>3. x.step = tool[t].step + 1 /\ x.emergency = tool[t].emergency
      BY <1>0, <1>4, <2>1 DEF ToolShape
    <2>4. Goes(t, x)
      BY <1>4, <2>1 DEF Proceeds
    <2> QED BY <2>2, <2>3, <2>4
  <1> QED BY <1>2, <1>3, <1>4

\* A process that throws in its emergency disable says so.
LEMMA ThrowsSafely ==
  ASSUME GrantTypes, ExposureInv, NEW t \in Tools, Throws(t), UNCHANGED <<grants, overtaken>>,
         tool[t].at \in {"reserve", "writing", "journal"}
  PROVE  GrantTypes' /\ ExposureInv'
  <1>1. PICK word : word = IF tool[t].emergency THEN "hold" ELSE "rejected"
    OBVIOUS
  <1>2. word \in Words /\ Says(t, word)
    BY <1>1 DEF Words, Throws
  <1>3. tool[t].emergency => word = "hold"
    BY <1>1
  <1>4. ~tool[t].emergency => word = "rejected"
    BY <1>1
  <1>5. ~tool[t].emergency => ~Watches(t)
    BY DEF Watches
  <1> QED BY <1>2, <1>3, <1>4, <1>5, EndsSafely

\* A process goes on to another place and leaves the grants alone.
LEMMA GoesSafely ==
  ASSUME GrantTypes, ExposureInv, NEW t \in Tools, UNCHANGED <<grants, reports, overtaken>>,
         NEW x \in ToolShape, Goes(t, x), x.at \notin {"idle", "preflight", "ended"},
         x.emergency \/ ~Watches(t)
  PROVE  GrantTypes' /\ ExposureInv'
  <1>1. tool'[t] = x
    BY ToolGoes DEF GrantTypes
  <1>2. x.emergency => Watches(t)'
    BY <1>1 DEF Watches
  <1>3. Exposed' <=> Exposed
    BY DEF GrantTypes, Exposed
  <1> QED BY <1>2, <1>3, MovesSafely

\* Up to the statement.
LEMMA BeforeStatement ==
  ASSUME GrantTypes, ExposureInv, NEW t \in Tools,
         \/ \E mode \in {"repair", "disable"}, op \in Operations : StartTool(t, mode, op)
         \/ Preflight(t) \/ Reserve(t) \/ WriteLock(t) \/ Journal(t) \/ ToolDies(t)
  PROVE  GrantTypes' /\ ExposureInv'
  <1>0. tool[t].at \in {"idle", "preflight"} => ~tool[t].emergency
    BY DEF GrantTypes
  <1>1. ASSUME NEW mode \in {"repair", "disable"}, NEW op \in Operations, StartTool(t, mode, op)
        PROVE  GrantTypes' /\ ExposureInv'
    <2>1. PICK x \in ToolShape : Goes(t, x) /\ ~x.emergency
      BY <1>1, StartForm
    <2>2. UNCHANGED <<grants, reports, overtaken>> /\ tool[t].at = "idle"
      BY <1>1 DEF StartTool
    <2>3. ~Watches(t)
      BY <2>2 DEF Watches
    <2>4. Exposed' <=> Exposed
      BY <2>2 DEF GrantTypes, Exposed
    <2> QED BY <2>1, <2>2, <2>3, <2>4, MovesSafely
  <1>2. ASSUME Preflight(t) PROVE GrantTypes' /\ ExposureInv'
    <2>1. UNCHANGED <<grants, overtaken>> /\ tool[t].at = "preflight"
      BY <1>2 DEF Preflight
    <2>2. ~Watches(t)
      BY <1>0, <2>1 DEF Watches
    <2>3. CASE GoesTo(t, "reserve") /\ UNCHANGED reports
      <3>1. "reserve" \in Places
        BY DEF Places
      <3>2. PICK x \in ToolShape : Goes(t, x) /\ x.at = "reserve"
        BY <2>3, <3>1, GoesForm
      <3> QED BY <2>1, <2>2, <2>3, <3>2, GoesSafely
    <2>4. CASE Says(t, "rejected")
      <3>1. "rejected" \in Words
        BY DEF Words
      <3> QED BY <2>1, <2>2, <2>4, <3>1, EndsSafely
    <2> QED BY <1>2, <2>3, <2>4 DEF Preflight
  <1>3. ASSUME Reserve(t) PROVE GrantTypes' /\ ExposureInv'
    <2>1. UNCHANGED <<grants, overtaken>> /\ tool[t].at = "reserve"
      BY <1>3 DEF Reserve
    <2>2. tool[t].emergency \/ ~Watches(t)
      BY <2>1 DEF Watches
    <2>3. CASE Goes(t, [tool[t] EXCEPT !.at = "journal", !.held = TRUE]) /\ UNCHANGED reports
      <3>1. PICK x \in ToolShape : Goes(t, x) /\ x.at = "journal" /\ x.emergency = tool[t].emergency
        BY <2>3, ToolForms
      <3> QED BY <2>1, <2>2, <2>3, <3>1, GoesSafely
    <2>4. CASE GoesTo(t, "writing") /\ UNCHANGED reports
      <3>1. "writing" \in Places
        BY DEF Places
      <3>2. PICK x \in ToolShape : Goes(t, x) /\ x.at = "writing" /\ x.emergency = tool[t].emergency
        BY <2>4, <3>1, GoesForm
      <3> QED BY <2>1, <2>2, <2>4, <3>2, GoesSafely
    <2>5. CASE Throws(t)
      BY <2>1, <2>5, ThrowsSafely
    <2> QED BY <1>3, <2>3, <2>4, <2>5 DEF Reserve
  <1>4. ASSUME WriteLock(t) PROVE GrantTypes' /\ ExposureInv'
    <2>1. UNCHANGED <<grants, overtaken>> /\ tool[t].at = "writing"
      BY <1>4 DEF WriteLock
    <2>2. tool[t].emergency \/ ~Watches(t)
      BY <2>1 DEF Watches
    <2>3. CASE Goes(t, [tool[t] EXCEPT !.at = "journal", !.held = TRUE]) /\ UNCHANGED reports
      <3>1. PICK x \in ToolShape : Goes(t, x) /\ x.at = "journal" /\ x.emergency = tool[t].emergency
        BY <2>3, ToolForms
      <3> QED BY <2>1, <2>2, <2>3, <3>1, GoesSafely
    <2>4. CASE Throws(t)
      BY <2>1, <2>4, ThrowsSafely
    <2> QED BY <1>4, <2>3, <2>4 DEF WriteLock
  <1>5. ASSUME Journal(t) PROVE GrantTypes' /\ ExposureInv'
    <2>1. UNCHANGED <<grants, overtaken>> /\ tool[t].at = "journal"
      BY <1>5 DEF Journal
    <2>2. tool[t].emergency \/ ~Watches(t)
      BY <2>1 DEF Watches
    <2>3. CASE GoesTo(t, "dispatch") /\ UNCHANGED reports
      <3>1. "dispatch" \in Places
        BY DEF Places
      <3>2. PICK x \in ToolShape : Goes(t, x) /\ x.at = "dispatch" /\ x.emergency = tool[t].emergency
        BY <2>3, <3>1, GoesForm
      <3> QED BY <2>1, <2>2, <2>3, <3>2, GoesSafely
    <2>4. CASE Throws(t)
      BY <2>1, <2>4, ThrowsSafely
    <2> QED BY <1>5, <2>3, <2>4 DEF Journal
  <1>6. ASSUME ToolDies(t) PROVE GrantTypes' /\ ExposureInv'
    <2>1. UNCHANGED <<grants, overtaken>> /\ Says(t, "died") /\ "died" \in Words
      BY <1>6 DEF ToolDies, Words
    <2> QED BY <2>1, EndsSafely
  <1> QED BY <1>1, <1>2, <1>3, <1>4, <1>5, <1>6

\* The statement and its readback.
LEMMA StatementAndReadback ==
  ASSUME GrantTypes, ExposureInv, NEW t \in Tools, DispatchStatement(t) \/ Verify(t)
  PROVE  GrantTypes' /\ ExposureInv'
  <1>0. tool[t] \in ToolShape /\ tool[t].mode \in {"repair", "disable"} /\ tool[t].step \in 1 .. 3
    BY DEF GrantTypes, ToolShape
  <1>1. ASSUME DispatchStatement(t) PROVE GrantTypes' /\ ExposureInv'
    <2>1. UNCHANGED <<reports, overtaken>> /\ tool[t].at = "dispatch" /\ GoesTo(t, "verify")
      BY <1>1 DEF DispatchStatement
    <2>2. "verify" \in Places
      BY DEF Places
    <2>3. PICK x \in ToolShape : /\ Goes(t, x) /\ x.at = "verify" /\ SameWalk(x, tool[t])
                                 /\ x.emergency = tool[t].emergency
      BY <2>1, <2>2, GoesForm
    <2>4. tool'[t] = x
      BY <2>3, ToolGoes DEF GrantTypes
    <2>5. tool[t].emergency => Watches(t)'
      BY <2>3, <2>4 DEF Watches
    <2>6. CASE UNCHANGED grants
      <3>1. Exposed' <=> Exposed
        BY <2>1, <2>6 DEF GrantTypes, Exposed
      <3>2. ~tool[t].emergency => ~Watches(t)
        BY <2>1 DEF Watches
      <3> QED BY <2>1, <2>3, <2>5, <3>1, <3>2, MovesSafely
    <2>7. CASE Perform(StepOf(tool[t]).statement)
      <3>1. Exposed' => Watches(t)'
        <4>1. tool[t].step = 1 => "public" \notin grants'
          BY <1>0, <2>7, StatementDoes
        <4>2. tool[t].step = 2 /\ tool[t].mode = "disable" => "private" \notin grants'
          BY <1>0, <2>7, StatementDoes
        <4>3. Exposed' => tool[t].step = 3 \/ (tool[t].step = 2 /\ tool[t].mode = "repair")
          BY <1>0, <4>1, <4>2 DEF Exposed, Everything, Baseline
        <4> QED BY <1>0, <2>3, <2>4, <4>3 DEF Watches, SameWalk
      <3> QED BY <2>1, <2>3, <3>1, MovesSafely
    <2> QED BY <1>1, <2>6, <2>7 DEF DispatchStatement
  <1>2. ASSUME Verify(t) PROVE GrantTypes' /\ ExposureInv'
    <2>1. UNCHANGED <<grants, overtaken>> /\ tool[t].at = "verify"
      BY <1>2 DEF Verify
    <2>2. CASE EmergencyDisable(t)
      <3>1. PICK x \in ToolShape : Goes(t, x) /\ x.at = "reserve" /\ x.emergency
        BY <2>2, ToolForms
      <3> QED BY <2>1, <2>2, <3>1, GoesSafely DEF EmergencyDisable
    <2>3. ASSUME NEW word \in Words, Says(t, word),
                 word = "restored" => Bound, word = "rejected" => grants = Baseline
          PROVE  GrantTypes' /\ ExposureInv'
      <3>1. word \in {"hold", "died", "applied"} \/ ~Exposed
        BY <2>3 DEF Words, Bound, Exposed, Everything, Baseline
      <3> QED BY <2>1, <2>3, <3>1, EndsSafely
    <2>4. ASSUME Proceeds(t), tool[t].step < 3, grants \in StepOf(tool[t]).states
          PROVE  GrantTypes' /\ ExposureInv'
      <3>1. PICK x \in ToolShape : Goes(t, x) /\ x.at = "journal" /\ x.emergency = tool[t].emergency
        BY <2>4, ToolForms
      <3>2. ~(Everything \subseteq grants)
        <4>1. "public" \notin grants
          BY <1>0, <2>4, StepsAre
        <4> QED BY <4>1 DEF Everything, Baseline
      <3>3. ~Exposed'
        BY <2>1, <3>2 DEF GrantTypes, Exposed
      <3> QED BY <2>1, <2>4, <3>1, <3>3, MovesSafely DEF Proceeds
    <2>5. ASSUME AfterRepairRead(t) PROVE GrantTypes' /\ ExposureInv'
      <3>1. \/ EmergencyDisable(t)
            \/ Says(t, "rejected") /\ grants = Baseline
            \/ Proceeds(t) /\ tool[t].step < 3 /\ grants \in StepOf(tool[t]).states
            \/ Says(t, "applied")
        BY <2>5 DEF AfterRepairRead
      <3>2. {"rejected", "applied"} \subseteq Words
        BY DEF Words
      <3> QED BY <2>2, <2>3, <2>4, <3>1, <3>2
    <2>6. ASSUME AfterDisableRead(t) PROVE GrantTypes' /\ ExposureInv'
      <3>1. \/ Says(t, "hold")
            \/ Proceeds(t) /\ tool[t].step < 3 /\ grants \in StepOf(tool[t]).states
            \/ Says(t, "restored") /\ Bound
        BY <2>6 DEF AfterDisableRead
      <3>2. {"hold", "restored"} \subseteq Words
        BY DEF Words
      <3> QED BY <2>2, <2>3, <2>4, <3>1, <3>2
    <2>7. "hold" \in Words
      BY DEF Words
    <2> QED BY <1>2, <2>2, <2>3, <2>5, <2>6, <2>7 DEF Verify
  <1> QED BY <1>1, <1>2

\* At first the processes rest and the view is not exposed.
LEMMA GrantsStart ==
  ASSUME GrantInit PROVE GrantTypes /\ ExposureInv
  <1>1. Rested = [at |-> "idle", mode |-> "repair", op |-> "none", step |-> 1,
                  held |-> FALSE, emergency |-> FALSE]
    BY DEF Rested
  <1>2. Rested \in ToolShape /\ ~Rested.emergency
    BY <1>1 DEF ToolShape, Places
  <1>3. GrantTypes
    BY <1>2 DEF GrantInit, GrantTypes
  <1>4. ExposureInv
    BY DEF GrantInit, ExposureInv, Exposed, Everything, Baseline
  <1> QED BY <1>3, <1>4

\* Every step leaves an exposed view announced or watched.
LEMMA ExposureKept ==
  ASSUME GrantTypes, ExposureInv, [GrantNext]_grantVars PROVE GrantTypes' /\ ExposureInv'
  <1>1. ASSUME UNCHANGED <<tool, reports>>, overtaken' \/ UNCHANGED <<grants, overtaken>>
        PROVE  GrantTypes' /\ ExposureInv'
    BY <1>1 DEF GrantTypes, ExposureInv, Exposed, Said, AppliedLast, Watches
  <1>2. ASSUME NEW s \in flight, Arrive(s) PROVE GrantTypes' /\ ExposureInv'
    BY <1>1, <1>2 DEF Arrive
  <1>3. ASSUME Drift \/ UNCHANGED grantVars PROVE GrantTypes' /\ ExposureInv'
    BY <1>1, <1>3 DEF Drift, grantVars
  <1>4. ASSUME NEW t \in Tools, ToolStep(t) PROVE GrantTypes' /\ ExposureInv'
    BY <1>4, BeforeStatement, StatementAndReadback DEF ToolStep
  <1> QED BY <1>2, <1>3, <1>4 DEF GrantNext

\* RecoveryGrants.NoSilentExposure: whatever repairManagedMcpRecoveryGrants and
\* disableManagedMcpRecoveryGrants run beside each other, are refused, drift or
\* die, the view is left exposed only by a repair that succeeded last, or
\* behind EMERGENCY_HOLD or a dead process, for any number of processes.
THEOREM ExposureIsAnnounced == GrantSpec => []NoSilentExposure
  <1>1. ExposureInv => NoSilentExposure
    BY DEF ExposureInv, Exposed, NoSilentExposure, Settled, Watches
  <1> QED BY <1>1, GrantsStart, ExposureKept, PTL DEF GrantSpec

-----------------------------------------------------------------------------
(* The repair of the grants: one process walks each mode.                   *)

\* The step of a mode is journaled.
Taken(m, s) == <<lockFile, m, s>> \in intents

\* A process that has the lock, one that has a step of its mode, and how many
\* steps of the mode it has journaled.
Running(t) == tool[t].at \in {"journal", "dispatch", "verify"} \/ (tool[t].at = "reserve" /\ tool[t].held)
Owns(t) == tool[t].at \in {"dispatch", "verify"} \/ (tool[t].at = "journal" /\ tool[t].step > 1)
Journaled(t) == IF tool[t].at = "journal" THEN tool[t].step - 1 ELSE tool[t].step

LockInv ==
  /\ lockFile \in {"none", "empty"} \cup Operations
  /\ \A i \in intents : i[1] = lockFile /\ lockFile \in Operations
  /\ \A m \in {"repair", "disable"}, s \in 1 .. 3 : Taken(m, s) => Taken(m, 1)

\* One operation holds the target, and one process walks each of its modes.
ToolInv(t) ==
  /\ tool[t].at \notin {"idle", "ended"} => tool[t].op \in Operations
  /\ tool[t].at \in {"preflight", "reserve", "writing"} => tool[t].step = 1
  /\ tool[t].at = "preflight" => ~tool[t].held
  /\ tool[t].at = "writing" => lockFile = "empty"
  /\ Running(t) => tool[t].op = lockFile
  /\ Owns(t) => \A s \in 1 .. 3 : Taken(tool[t].mode, s) <=> s <= Journaled(t)

Alone(t, u) ==
  /\ tool[t].at = "writing" /\ tool[u].at = "writing" => t = u
  /\ Owns(t) /\ Owns(u) /\ tool[t].mode = tool[u].mode => t = u

\* The disable has sent its last statement.
DisableSent ==
  /\ Taken("disable", 3)
  /\ \A u \in Tools : tool[u].at = "dispatch" => tool[u].mode # "disable"

\* A view that is active again while the repair believes it is not was
\* activated by a disable, which has nothing left to send.
Believes(t) == Owns(t) /\ tool[t].mode = "repair" /\ tool[t].step = 2 /\ tool[t].at # "verify"

Reactivated(t) == Believes(t) /\ ~overtaken /\ "public" \in grants => DisableSent

\* Once the private schema was opened under an active view nothing more is sent,
\* and the repair is about to see it.
BaredInv ==
  bared /\ ~overtaken =>
    /\ ~Said("applied") /\ Taken("disable", 3) /\ Taken("repair", 1)
    /\ \A t \in Tools :
         /\ tool[t].at # "dispatch"
         /\ Owns(t) /\ tool[t].mode = "repair" =>
              tool[t].at = "verify" /\ tool[t].step = 2 /\ "public" \in grants

AppliedInv ==
  Said("applied") =>
    Taken("repair", 1) /\ \A t \in Tools : Owns(t) => tool[t].mode # "repair"

GrantInv ==
  /\ GrantTypes /\ LockInv /\ BaredInv /\ AppliedInv
  /\ \A t \in Tools : ToolInv(t) /\ Reactivated(t)
  /\ \A t, u \in Tools : Alone(t, u)

\* What a process does not touch stays true of the others.
LEMMA OthersStay ==
  ASSUME GrantInv, NEW t \in Tools, UNCHANGED <<lockFile, intents>>,
         tool' \in [Tools -> ToolShape], \A u \in Tools : u # t => tool'[u] = tool[u]
  PROVE  /\ LockInv'
         /\ \A m, n : Taken(m, n)' <=> Taken(m, n)
         /\ \A u \in Tools : u # t => /\ ToolInv(u)' /\ (Owns(u)' <=> Owns(u))
                                      /\ (Believes(u)' <=> Believes(u))
         /\ tool'[t].at # "dispatch" \/ tool'[t].mode # "disable" => (DisableSent => DisableSent')
  <1>1. LockInv' /\ \A m, n : Taken(m, n)' <=> Taken(m, n)
    BY DEF GrantInv, LockInv, Taken
  <1>2. \A u \in Tools : u # t => /\ ToolInv(u)' /\ (Owns(u)' <=> Owns(u))
                                  /\ (Believes(u)' <=> Believes(u))
    BY DEF GrantInv, ToolInv, Owns, Running, Journaled, Taken, Believes
  <1>3. tool'[t].at # "dispatch" \/ tool'[t].mode # "disable" => (DisableSent => DisableSent')
    BY <1>1 DEF DisableSent
  <1> QED BY <1>1, <1>2, <1>3

\* A process stops walking, or does not walk yet.
LEMMA StepsAside ==
  ASSUME GrantInv, NEW t \in Tools, UNCHANGED <<lockFile, intents, grants, bared, overtaken>>,
         GrantTypes', \A u \in Tools : u # t => tool'[u] = tool[u],
         ~Owns(t)', tool'[t].at # "writing", ToolInv(t)', Said("applied")' => Said("applied")
  PROVE  GrantInv'
  <1>1. /\ LockInv'
        /\ \A m, n : Taken(m, n)' <=> Taken(m, n)
        /\ \A u \in Tools : u # t => /\ ToolInv(u)' /\ (Owns(u)' <=> Owns(u))
                                     /\ (Believes(u)' <=> Believes(u))
        /\ DisableSent => DisableSent'
    <2>1. tool'[t].at # "dispatch" /\ tool' \in [Tools -> ToolShape]
      BY DEF Owns, GrantTypes
    <2> QED BY <2>1, OthersStay
  <1>2. \A u \in Tools : ToolInv(u)' /\ Reactivated(u)'
    BY <1>1 DEF GrantInv, Reactivated, Believes
  <1>3. \A u, v \in Tools : Alone(u, v)'
    BY <1>1 DEF GrantInv, Alone
  <1>4. BaredInv'
    BY <1>1 DEF GrantInv, BaredInv, Owns
  <1>5. AppliedInv'
    BY <1>1 DEF GrantInv, AppliedInv
  <1> QED BY <1>1, <1>2, <1>3, <1>4, <1>5 DEF GrantInv

\* A process ends: it walks no more.
LEMMA EndsAside ==
  ASSUME GrantInv, NEW t \in Tools, NEW word \in Words, Says(t, word), word # "applied",
         UNCHANGED <<lockFile, intents, grants, bared, overtaken>>, GrantTypes'
  PROVE  GrantInv'
  <1>1. /\ tool'[t].at = "ended" /\ \A u \in Tools : u # t => tool'[u] = tool[u]
        /\ Said("applied")' <=> Said("applied") \/ "applied" = word
    BY SaysEnds DEF GrantInv
  <1>2. ~Owns(t)' /\ ToolInv(t)'
    BY <1>1 DEF Owns, ToolInv, Running
  <1> QED BY <1>1, <1>2, StepsAside

\* An error leaves the view as it was, and keeps the invariant.
LEMMA ThrowsAside ==
  ASSUME GrantInv, NEW t \in Tools, Throws(t),
         UNCHANGED <<lockFile, intents, grants, bared, overtaken>>, GrantTypes'
  PROVE  GrantInv'
  <1>1. PICK word : word = IF tool[t].emergency THEN "hold" ELSE "rejected"
    OBVIOUS
  <1>2. word \in Words /\ Says(t, word) /\ word # "applied"
    BY <1>1 DEF Words, Throws
  <1> QED BY <1>2, EndsAside

\* The lock file is not written yet: nobody has walked.
LEMMA NobodyWalks ==
  ASSUME GrantInv, lockFile \notin Operations
  PROVE  /\ intents = {} /\ ~Said("applied") /\ (bared => overtaken)
         /\ \A u \in Tools : ~Running(u) /\ ~Owns(u)
  <1>1. intents = {}
    BY DEF GrantInv, LockInv
  <1>2. ASSUME NEW u \in Tools PROVE ~Running(u)
    BY DEF GrantInv, ToolInv, Running
  <1>3. ASSUME NEW u \in Tools PROVE ~Owns(u)
    BY <1>2 DEF Running, Owns
  <1> QED BY <1>1, <1>2, <1>3 DEF GrantInv, AppliedInv, BaredInv, Taken

\* The lock file changes: nobody walks, and one process at most is writing.
LEMMA LockMoves ==
  ASSUME GrantInv, NEW t \in Tools, lockFile \notin Operations, GrantTypes',
         lockFile' \in {"empty"} \cup Operations,
         UNCHANGED <<intents, grants, bared, overtaken>>, Said("applied")' => Said("applied"),
         \A u \in Tools : u # t => tool'[u] = tool[u] /\ tool[u].at # "writing",
         ToolInv(t)', ~Owns(t)'
  PROVE  GrantInv'
  <1>1. /\ intents = {} /\ ~Said("applied") /\ (bared => overtaken)
        /\ \A u \in Tools : ~Running(u) /\ ~Owns(u)
    BY NobodyWalks
  <1>2. \A m, n : ~Taken(m, n)'
    BY <1>1 DEF Taken
  <1>3. \A u \in Tools : ~Owns(u)'
    BY <1>1 DEF Owns
  <1>4. ASSUME NEW u \in Tools PROVE ToolInv(u)'
    <2>1. CASE u # t
      BY <1>1, <1>3, <2>1 DEF GrantInv, ToolInv, Running
    <2> QED BY <2>1
  <1>5. LockInv'
    BY <1>1, <1>2 DEF LockInv
  <1>6. BaredInv' /\ AppliedInv' /\ \A u \in Tools : Reactivated(u)'
    BY <1>1, <1>3 DEF BaredInv, AppliedInv, Reactivated, Believes
  <1>7. \A u, v \in Tools : Alone(u, v)'
    BY <1>3 DEF Alone
  <1> QED BY <1>4, <1>5, <1>6, <1>7 DEF GrantInv

\* Entry and the lock file.
LEMMA LockKeeps ==
  ASSUME GrantInv, NEW t \in Tools, GrantTypes',
         \/ \E mode \in {"repair", "disable"}, op \in Operations : StartTool(t, mode, op)
         \/ Preflight(t) \/ Reserve(t) \/ WriteLock(t) \/ ToolDies(t)
  PROVE  GrantInv'
  <1>0. GrantTypes /\ ToolInv(t) /\ tool \in [Tools -> ToolShape]
    BY DEF GrantInv, GrantTypes
  <1>1. ASSUME NEW x \in ToolShape, Goes(t, x)
        PROVE  tool'[t] = x /\ \A u \in Tools : u # t => tool'[u] = tool[u]
    BY <1>0, <1>1, ToolGoes
  <1>2. reports' = reports => (Said("applied")' => Said("applied"))
    BY DEF Said
  <1>3. "rejected" \in Words /\ "died" \in Words /\ "reserve" \in Places /\ "writing" \in Places
    BY DEF Words, Places
  <1>4. ASSUME NEW mode \in {"repair", "disable"}, NEW op \in Operations, StartTool(t, mode, op)
        PROVE  GrantInv'
    <2>1. PICK x \in ToolShape : Goes(t, x) /\ x.at \in {"preflight", "reserve"} /\ x.op = op /\ ~x.held
                                 /\ x.step = 1
      BY <1>4, StartForm
    <2>2. ~Owns(t)' /\ ToolInv(t)' /\ tool'[t].at # "writing"
      BY <1>1, <2>1 DEF Owns, ToolInv, Running
    <2> QED BY <1>1, <1>2, <1>4, <2>1, <2>2, StepsAside DEF StartTool
  <1>5. ASSUME Preflight(t) PROVE GrantInv'
    <2>1. UNCHANGED <<lockFile, intents, grants, bared, overtaken>> /\ tool[t].at = "preflight"
      BY <1>5 DEF Preflight
    <2>2. CASE GoesTo(t, "reserve") /\ UNCHANGED reports
      <3>1. PICK x \in ToolShape : Goes(t, x) /\ x.at = "reserve" /\ SameWalk(x, tool[t]) /\ x.held = tool[t].held
        BY <1>0, <1>3, <2>2, GoesForm
      <3>2. ~tool[t].held
        BY <1>0, <2>1 DEF ToolInv
      <3>3. ~Owns(t)' /\ ToolInv(t)' /\ tool'[t].at # "writing"
        BY <1>0, <1>1, <2>1, <3>1, <3>2 DEF Owns, ToolInv, Running, SameWalk
      <3> QED BY <1>1, <1>2, <2>1, <2>2, <3>1, <3>3, StepsAside
    <2>3. CASE Says(t, "rejected")
      BY <1>3, <2>1, <2>3, EndsAside
    <2> QED BY <1>5, <2>2, <2>3 DEF Preflight
  <1>6. ASSUME Reserve(t) PROVE GrantInv'
    <2>1. UNCHANGED <<intents, grants, bared, overtaken>> /\ tool[t].at = "reserve"
      BY <1>6 DEF Reserve
    <2>2. CASE /\ tool[t].held \/ lockFile = tool[t].op
               /\ Goes(t, [tool[t] EXCEPT !.at = "journal", !.held = TRUE]) /\ UNCHANGED <<lockFile, reports>>
      <3>1. PICK x \in ToolShape : Goes(t, x) /\ x.at = "journal" /\ SameWalk(x, tool[t])
        BY <1>0, <2>2, ToolForms
      <3>2. tool[t].op = lockFile /\ tool[t].op \in Operations /\ tool[t].step = 1
        BY <1>0, <2>1, <2>2 DEF ToolInv, Running
      <3>3. ~Owns(t)' /\ ToolInv(t)' /\ tool'[t].at # "writing"
        BY <1>1, <2>2, <3>1, <3>2 DEF Owns, ToolInv, Running, SameWalk
      <3> QED BY <1>1, <1>2, <2>1, <2>2, <3>1, <3>3, StepsAside
    <2>3. CASE ~tool[t].held /\ lockFile = "none" /\ GoesTo(t, "writing") /\ lockFile' = "empty" /\ UNCHANGED reports
      <3>1. PICK x \in ToolShape : Goes(t, x) /\ x.at = "writing" /\ SameWalk(x, tool[t])
        BY <1>0, <1>3, <2>3, GoesForm
      <3>2. ~Owns(t)' /\ ToolInv(t)'
        BY <1>0, <1>1, <2>1, <2>3, <3>1 DEF Owns, ToolInv, Running, SameWalk
      <3>3. \A u \in Tools : tool[u].at # "writing"
        BY <2>3 DEF GrantInv, ToolInv
      <3>4. lockFile \notin Operations
        BY <2>3, GrantAssumption
      <3> QED BY <1>1, <1>2, <2>1, <2>3, <3>1, <3>2, <3>3, <3>4, LockMoves
    <2>4. CASE Throws(t) /\ UNCHANGED lockFile
      BY <2>1, <2>4, ThrowsAside
    <2> QED BY <1>6, <2>2, <2>3, <2>4 DEF Reserve
  <1>7. ASSUME WriteLock(t) PROVE GrantInv'
    <2>1. /\ UNCHANGED <<intents, grants, bared, overtaken>> /\ tool[t].at = "writing"
          /\ lockFile = "empty" /\ tool[t].op \in Operations /\ tool[t].step = 1
          /\ lockFile' \in {"empty"} \cup Operations
      BY <1>0, <1>7 DEF WriteLock, ToolInv
    <2>2. \A u \in Tools : u # t => tool[u].at # "writing"
      BY <2>1 DEF GrantInv, Alone
    <2>3. lockFile \notin Operations
      BY <2>1, GrantAssumption
    <2>4. CASE /\ lockFile' = tool[t].op /\ UNCHANGED reports
               /\ Goes(t, [tool[t] EXCEPT !.at = "journal", !.held = TRUE])
      <3>1. PICK x \in ToolShape : Goes(t, x) /\ x.at = "journal" /\ SameWalk(x, tool[t])
        BY <1>0, <2>4, ToolForms
      <3>2. ~Owns(t)' /\ ToolInv(t)'
        BY <1>1, <2>1, <2>4, <3>1 DEF Owns, ToolInv, Running, SameWalk
      <3> QED BY <1>1, <1>2, <2>1, <2>2, <2>3, <2>4, <3>1, <3>2, LockMoves
    <2>5. CASE Throws(t)
      <3>1. PICK word : word = IF tool[t].emergency THEN "hold" ELSE "rejected"
        OBVIOUS
      <3>2. word \in Words /\ Says(t, word) /\ word # "applied"
        BY <2>5, <3>1 DEF Words, Throws
      <3>3. /\ tool'[t].at = "ended" /\ \A u \in Tools : u # t => tool'[u] = tool[u]
            /\ Said("applied")' <=> Said("applied") \/ "applied" = word
        BY <1>0, <3>2, SaysEnds
      <3>4. ~Owns(t)' /\ ToolInv(t)'
        BY <3>3 DEF Owns, ToolInv, Running
      <3> QED BY <2>1, <2>2, <2>3, <3>2, <3>3, <3>4, LockMoves
    <2> QED BY <1>7, <2>4, <2>5 DEF WriteLock
  <1>8. ASSUME ToolDies(t) PROVE GrantInv'
    BY <1>3, <1>8, EndsAside DEF ToolDies
  <1> QED BY <1>4, <1>5, <1>6, <1>7, <1>8

\* A step that nobody has journaled is journaled by the one that walks to it.
LEMMA NewIntent ==
  ASSUME GrantInv, NEW t \in Tools, tool[t].at = "journal", Intent(tool[t]) \notin intents,
         UNCHANGED lockFile, intents' = intents \cup {Intent(tool[t])},
         \A u \in Tools : u # t => tool'[u] = tool[u]
  PROVE  /\ LockInv' /\ \A m, n : Taken(m, n) => Taken(m, n)'
         /\ \A m : m = tool[t].mode => \A n \in 1 .. 3 : Taken(m, n)' <=> n <= tool[t].step
         /\ ~Taken(tool[t].mode, 3)
         /\ \A u \in Tools : u # t => /\ ToolInv(u)' /\ (Owns(u)' <=> Owns(u))
                                      /\ (Believes(u)' <=> Believes(u))
                                      /\ (Owns(u) => tool[u].mode # tool[t].mode)
         /\ Taken("repair", 1) /\ (Owns(t) => tool[t].mode # "repair") => tool[t].mode # "repair"
  <1>0. LockInv /\ ToolInv(t) /\ tool[t] \in ToolShape
    BY DEF GrantInv, GrantTypes
  <1>1. /\ tool[t].op = lockFile /\ lockFile \in Operations
        /\ tool[t].mode \in {"repair", "disable"} /\ tool[t].step \in 1 .. 3
    BY <1>0 DEF ToolInv, Running, ToolShape
  <1>2. PICK mode, step : mode = tool[t].mode /\ step = tool[t].step
    OBVIOUS
  <1>3. Intent(tool[t]) = <<lockFile, mode, step>> /\ ~Taken(mode, step)
    BY <1>1, <1>2 DEF Intent, Taken
  <1>4. \A m, n : Taken(m, n)' <=> Taken(m, n) \/ (m = mode /\ n = step)
    BY <1>3 DEF Taken
  <1>5. step > 1 => \A n \in 1 .. 3 : Taken(mode, n) <=> n <= step - 1
    BY <1>0, <1>2 DEF ToolInv, Owns, Journaled
  <1>6. step = 1 => \A n \in 1 .. 3 : ~Taken(mode, n)
    BY <1>0, <1>1, <1>2, <1>3 DEF LockInv
  <1>7. \A n \in 1 .. 3 : Taken(mode, n)' <=> n <= step
    BY <1>1, <1>2, <1>4, <1>5, <1>6
  <1>8. ~Taken(mode, 3)
    BY <1>1, <1>2, <1>5, <1>6
  <1>9. ASSUME NEW u \in Tools, u # t PROVE Owns(u) => tool[u].mode # mode
    <2>1. CASE step = 1
      <3>1. Owns(u) => Taken(tool[u].mode, 1)
        <4>1. tool[u] \in ToolShape /\ ToolInv(u)
          BY DEF GrantInv, GrantTypes
        <4>2. Owns(u) => 1 <= Journaled(u)
          BY <4>1 DEF Owns, Journaled, ToolShape
        <4> QED BY <4>1, <4>2 DEF ToolInv
      <3> QED BY <2>1, <3>1, <1>6
    <2>2. CASE step > 1
      BY <1>2, <1>9, <2>2 DEF GrantInv, Alone, Owns
    <2> QED BY <1>1, <1>2, <2>1, <2>2
  <1>10. ASSUME NEW u \in Tools, u # t
         PROVE  ToolInv(u)' /\ (Owns(u)' <=> Owns(u)) /\ (Believes(u)' <=> Believes(u))
    <2>1. tool'[u] = tool[u] /\ ToolInv(u)
      BY <1>10 DEF GrantInv
    <2>2. Owns(u) => \A n : Taken(tool[u].mode, n)' <=> Taken(tool[u].mode, n)
      BY <1>4, <1>9, <1>10
    <2> QED BY <2>1, <2>2 DEF ToolInv, Owns, Running, Journaled, Believes
  <1>11. LockInv'
    <2>1. \A i \in intents' : i[1] = lockFile' /\ lockFile' \in Operations
      BY <1>0, <1>1, <1>3 DEF LockInv
    <2>2. \A m \in {"repair", "disable"}, n \in 1 .. 3 : Taken(m, n)' => Taken(m, 1)'
      <3>1. Taken(mode, 1)'
        BY <1>1, <1>2, <1>7
      <3> QED BY <1>0, <1>4, <3>1 DEF LockInv
    <2> QED BY <1>0, <2>1, <2>2 DEF LockInv
  <1>12. Taken("repair", 1) /\ (Owns(t) => tool[t].mode # "repair") => tool[t].mode # "repair"
    BY <1>1, <1>2, <1>6 DEF Owns
  <1> QED BY <1>2, <1>4, <1>7, <1>8, <1>9, <1>10, <1>11, <1>12

\* journalIntent.
LEMMA JournalKeeps ==
  ASSUME GrantInv, NEW t \in Tools, GrantTypes', Journal(t)
  PROVE  GrantInv'
  <1>0. /\ UNCHANGED <<lockFile, grants, bared, overtaken>> /\ tool[t].at = "journal"
        /\ GrantTypes /\ ToolInv(t) /\ AppliedInv /\ BaredInv
    BY DEF Journal, GrantInv
  <1>1. CASE Throws(t) /\ UNCHANGED intents
    BY <1>0, <1>1, ThrowsAside
  <1>2. ASSUME NEW mine, Intent(tool[t]) \notin intents, intents' = intents \cup {Intent(tool[t])},
               \A u \in Tools : u # t => tool'[u] = tool[u],
               Said("applied")' => Said("applied"), tool'[t].at # "writing",
               mine <=> Owns(t)', mine => tool'[t].at = "dispatch" /\ SameWalk(tool'[t], tool[t]),
               ToolInv(t)'
        PROVE  GrantInv'
    <2>1. /\ LockInv' /\ \A m, n : Taken(m, n) => Taken(m, n)'
          /\ ~Taken(tool[t].mode, 3)
          /\ \A u \in Tools : u # t => /\ ToolInv(u)' /\ (Owns(u)' <=> Owns(u))
                                       /\ (Believes(u)' <=> Believes(u))
                                       /\ (Owns(u) => tool[u].mode # tool[t].mode)
          /\ Taken("repair", 1) /\ (Owns(t) => tool[t].mode # "repair") => tool[t].mode # "repair"
      BY <1>0, <1>2, NewIntent
    <2>2. tool[t].mode \in {"repair", "disable"}
      BY <1>0 DEF GrantTypes, ToolShape
    <2>3. ASSUME DisableSent PROVE DisableSent'
      <3>1. tool[t].mode = "repair"
        BY <2>1, <2>2, <2>3 DEF DisableSent
      <3>2. tool'[t].at = "dispatch" => tool'[t].mode = "repair"
        BY <1>2, <3>1 DEF Owns, SameWalk
      <3> QED BY <1>2, <2>1, <2>3, <3>2 DEF DisableSent
    <2>4. ASSUME NEW u \in Tools PROVE Reactivated(u)'
      <3>1. Believes(u)' => Believes(u)
        BY <1>0, <1>2, <2>1 DEF Believes, Owns, SameWalk
      <3> QED BY <1>0, <2>3, <3>1 DEF GrantInv, Reactivated
    <2>5. \A u, v \in Tools : Alone(u, v)'
      BY <1>2, <2>1 DEF GrantInv, Alone, SameWalk
    <2>6. AppliedInv'
      <3>1. ASSUME Said("applied") PROVE Owns(t)' => tool'[t].mode # "repair"
        BY <1>0, <1>2, <2>1, <3>1 DEF AppliedInv, SameWalk
      <3> QED BY <1>0, <1>2, <2>1, <3>1 DEF AppliedInv
    <2>7. BaredInv'
      <3>1. ~(bared /\ ~overtaken)
        <4> SUFFICES ASSUME bared, ~overtaken PROVE FALSE
          OBVIOUS
        <4>1. Taken("disable", 3) /\ Taken("repair", 1) /\ (Owns(t) => tool[t].mode # "repair")
          BY <1>0 DEF BaredInv
        <4> QED BY <2>1, <2>2, <4>1
      <3> QED BY <1>0, <3>1 DEF BaredInv
    <2> QED BY <1>2, <2>1, <2>4, <2>5, <2>6, <2>7 DEF GrantInv
  <1>3. CASE /\ Intent(tool[t]) \notin intents /\ intents' = intents \cup {Intent(tool[t])}
             /\ GoesTo(t, "dispatch") /\ UNCHANGED reports
    <2>1. "dispatch" \in Places
      BY DEF Places
    <2>2. PICK x \in ToolShape : Goes(t, x) /\ x.at = "dispatch" /\ SameWalk(x, tool[t])
      BY <1>0, <1>3, <2>1, GoesForm
    <2>3. tool'[t] = x /\ \A u \in Tools : u # t => tool'[u] = tool[u]
      BY <1>0, <2>2, ToolGoes DEF GrantTypes
    <2>4. \A m : m = tool[t].mode => \A n \in 1 .. 3 : Taken(m, n)' <=> n <= tool[t].step
      BY <1>0, <1>3, <2>3, NewIntent
    <2>5. Owns(t)' /\ Journaled(t)' = tool[t].step
      BY <2>2, <2>3 DEF Owns, Journaled, SameWalk
    <2>6. ToolInv(t)'
      BY <1>0, <2>2, <2>3, <2>4, <2>5 DEF ToolInv, Running, SameWalk
    <2>7. Said("applied")' => Said("applied")
      BY <1>3 DEF Said
    <2> QED BY <1>2, <1>3, <2>2, <2>3, <2>5, <2>6, <2>7
  <1>4. CASE Throws(t) /\ Intent(tool[t]) \notin intents /\ intents' = intents \cup {Intent(tool[t])}
    <2>1. PICK word : word = IF tool[t].emergency THEN "hold" ELSE "rejected"
      OBVIOUS
    <2>2. word \in Words /\ Says(t, word) /\ word # "applied"
      BY <1>4, <2>1 DEF Words, Throws
    <2>3. /\ tool'[t].at = "ended" /\ \A u \in Tools : u # t => tool'[u] = tool[u]
          /\ Said("applied")' <=> Said("applied") \/ "applied" = word
      BY <1>0, <2>2, SaysEnds
    <2>4. ~Owns(t)' /\ ToolInv(t)'
      BY <2>3 DEF Owns, ToolInv, Running
    <2> QED BY <1>2, <1>4, <2>2, <2>3, <2>4
  <1>5. Intent(tool[t]) \in intents => intents \cup {Intent(tool[t])} = intents
    OBVIOUS
  <1> QED BY <1>1, <1>3, <1>4, <1>5 DEF Journal

\* One statement on a fresh connection.
LEMMA DispatchStatementKeeps ==
  ASSUME GrantInv, NEW t \in Tools, GrantTypes', DispatchStatement(t)
  PROVE  GrantInv'
  <1>0. /\ UNCHANGED <<lockFile, intents, reports, overtaken>> /\ tool[t].at = "dispatch"
        /\ GrantTypes /\ ToolInv(t) /\ AppliedInv /\ BaredInv /\ GoesTo(t, "verify") /\ "verify" \in Places
    BY DEF DispatchStatement, GrantInv, Places
  <1>1. PICK x \in ToolShape : Goes(t, x) /\ x.at = "verify" /\ SameWalk(x, tool[t])
    BY <1>0, GoesForm
  <1>2. /\ tool'[t] = x /\ tool' \in [Tools -> ToolShape]
        /\ \A u \in Tools : u # t => tool'[u] = tool[u]
    BY <1>0, <1>1, ToolGoes DEF GrantTypes
  <1>3. /\ LockInv'
        /\ \A m, n : Taken(m, n)' <=> Taken(m, n)
        /\ \A u \in Tools : u # t => /\ ToolInv(u)' /\ (Owns(u)' <=> Owns(u))
                                     /\ (Believes(u)' <=> Believes(u))
        /\ DisableSent => DisableSent'
    <2>1. tool'[t].at # "dispatch"
      BY <1>1, <1>2
    <2> QED BY <1>0, <1>2, <2>1, OthersStay
  <1>4. Owns(t) /\ Owns(t)' /\ tool'[t].mode = tool[t].mode /\ tool'[t].step = tool[t].step
    BY <1>0, <1>1, <1>2 DEF Owns, SameWalk
  <1>5. ToolInv(t)'
    BY <1>0, <1>1, <1>2, <1>3, <1>4 DEF ToolInv, Running, Journaled, SameWalk
  <1>6. \A u, v \in Tools : Alone(u, v)'
    BY <1>1, <1>2, <1>3, <1>4 DEF GrantInv, Alone
  <1>7. AppliedInv'
    BY <1>0, <1>3, <1>4, <1>2 DEF AppliedInv, Said
  <1>8. tool[t].mode \in {"repair", "disable"} /\ tool[t].step \in 1 .. 3
    BY <1>0 DEF GrantTypes, ToolShape
  <1>9. tool[t].step = 3 => Taken(tool[t].mode, 3)
    BY <1>0, <1>4 DEF ToolInv, Journaled
  <1>10. \A u \in Tools : u # t /\ Owns(u) => tool[u].mode # tool[t].mode
    BY <1>4 DEF GrantInv, Alone
  <1>11. "public" \in grants' /\ "public" \notin grants => tool[t].step = 3
    BY <1>0, <1>8, StatementDoes DEF DispatchStatement
  <1>12. ASSUME NEW u \in Tools PROVE Reactivated(u)'
    <2>1. CASE u = t
      BY <1>1, <1>2, <2>1 DEF Reactivated, Believes
    <2>2. CASE u # t /\ "public" \in grants
      BY <1>0, <1>3, <2>2 DEF GrantInv, Reactivated
    <2>3. ASSUME u # t, "public" \notin grants, Believes(u)', "public" \in grants'
          PROVE  DisableSent'
      <3>1. Owns(u) /\ tool[u].mode = "repair" /\ tool[t].mode = "disable"
        BY <1>3, <1>8, <1>10, <2>3 DEF Believes
      <3>2. Taken("disable", 3)'
        BY <1>3, <1>9, <1>11, <2>3, <3>1
      <3>3. ASSUME NEW v \in Tools, tool'[v].at = "dispatch" PROVE tool'[v].mode # "disable"
        BY <1>1, <1>2, <1>10, <3>1, <3>3 DEF Owns
      <3> QED BY <3>2, <3>3 DEF DisableSent
    <2> QED BY <2>1, <2>2, <2>3 DEF Reactivated
  <1>13. BaredInv'
    <2> SUFFICES ASSUME bared', ~overtaken'
                 PROVE  /\ ~Said("applied")' /\ Taken("disable", 3)' /\ Taken("repair", 1)'
                        /\ \A u \in Tools :
                             /\ tool'[u].at # "dispatch"
                             /\ Owns(u)' /\ tool'[u].mode = "repair" =>
                                  tool'[u].at = "verify" /\ tool'[u].step = 2 /\ "public" \in grants'
      BY DEF BaredInv
    <2>1. ~bared
      BY <1>0 DEF BaredInv
    <2>2. Perform(StepOf(tool[t]).statement)
      BY <2>1 DEF DispatchStatement
    <2>3. tool[t].mode = "repair" /\ tool[t].step = 2
      BY <1>0, <1>8, <2>1, <2>2, StatementDoes
    <2>4. "public" \in grants /\ "public" \in grants'
      BY <1>0, <2>1, <2>2, <2>3, StatementDoes
    <2>5. DisableSent
      BY <1>0, <1>4, <2>3, <2>4 DEF GrantInv, Reactivated, Believes
    <2>6. Taken("repair", 1) /\ Taken("disable", 3)
      BY <1>0, <1>4, <2>3, <2>5 DEF ToolInv, Journaled, DisableSent
    <2>7. ~Said("applied")'
      BY <1>0, <1>4, <2>3 DEF AppliedInv, Said
    <2>8. ASSUME NEW u \in Tools
          PROVE  /\ tool'[u].at # "dispatch"
                 /\ Owns(u)' /\ tool'[u].mode = "repair" =>
                      tool'[u].at = "verify" /\ tool'[u].step = 2 /\ "public" \in grants'
      <3>1. CASE u = t
        BY <1>1, <1>2, <1>4, <2>3, <2>4, <3>1
      <3>2. CASE u # t
        <4>1. tool'[u] = tool[u] /\ (Owns(u) => tool[u].mode # "repair") /\ tool[u].mode \in {"repair", "disable"}
          BY <1>0, <1>2, <1>10, <2>3, <3>2 DEF GrantTypes, ToolShape
        <4>2. tool[u].at # "dispatch"
          BY <2>5, <4>1 DEF DisableSent, Owns
        <4> QED BY <1>3, <3>2, <4>1, <4>2
      <3> QED BY <3>1, <3>2
    <2> QED BY <1>3, <2>6, <2>7, <2>8
  <1>14. \A u \in Tools : ToolInv(u)'
    BY <1>3, <1>5
  <1> QED BY <1>3, <1>6, <1>7, <1>12, <1>13, <1>14 DEF GrantInv

\* The readback, and what follows from it.
LEMMA VerifyKeeps ==
  ASSUME GrantInv, NEW t \in Tools, GrantTypes', Verify(t)
  PROVE  GrantInv'
  <1>0. /\ UNCHANGED <<lockFile, intents, grants, bared, overtaken>> /\ tool[t].at = "verify"
        /\ GrantTypes /\ ToolInv(t) /\ AppliedInv /\ BaredInv
    BY DEF Verify, GrantInv
  <1>1. /\ tool[t] \in ToolShape /\ tool[t].mode \in {"repair", "disable"} /\ tool[t].step \in 1 .. 3
        /\ Owns(t) /\ tool[t].op = lockFile /\ tool[t].op \in Operations
    BY <1>0 DEF GrantTypes, ToolShape, Owns, ToolInv, Running
  <1>2. ASSUME NEW word \in Words, word # "applied", Says(t, word) PROVE GrantInv'
    BY <1>0, <1>2, EndsAside
  <1>3. ASSUME EmergencyDisable(t) PROVE GrantInv'
    <2>1. PICK x \in ToolShape : Goes(t, x) /\ x.at = "reserve" /\ x.step = 1 /\ x.op = tool[t].op
      BY <1>0, <1>3, ToolForms
    <2>2. tool'[t] = x /\ \A u \in Tools : u # t => tool'[u] = tool[u]
      BY <1>0, <2>1, ToolGoes DEF GrantTypes
    <2>3. ~Owns(t)' /\ ToolInv(t)' /\ tool'[t].at # "writing"
      BY <1>0, <1>1, <2>1, <2>2 DEF Owns, ToolInv, Running
    <2>4. Said("applied")' => Said("applied")
      BY <1>3 DEF EmergencyDisable, Said
    <2> QED BY <1>0, <2>2, <2>3, <2>4, StepsAside
  <1>4. ASSUME Proceeds(t), tool[t].step < 3, grants \in StepOf(tool[t]).states PROVE GrantInv'
    <2>1. PICK x \in ToolShape : /\ Goes(t, x) /\ x.at = "journal" /\ x.mode = tool[t].mode
                                 /\ x.op = tool[t].op /\ x.step = tool[t].step + 1
      BY <1>0, <1>4, ToolForms
    <2>2. /\ tool'[t] = x /\ tool' \in [Tools -> ToolShape]
          /\ \A u \in Tools : u # t => tool'[u] = tool[u]
      BY <1>0, <2>1, ToolGoes DEF GrantTypes
    <2>3. /\ LockInv'
          /\ \A m, n : Taken(m, n)' <=> Taken(m, n)
          /\ \A u \in Tools : u # t => /\ ToolInv(u)' /\ (Owns(u)' <=> Owns(u))
                                       /\ (Believes(u)' <=> Believes(u))
          /\ DisableSent => DisableSent'
      <3>1. tool'[t].at # "dispatch"
        BY <2>1, <2>2
      <3> QED BY <1>0, <2>2, <3>1, OthersStay
    <2>4. Owns(t)' /\ tool'[t].mode = tool[t].mode /\ Journaled(t)' = Journaled(t)
      BY <1>0, <1>1, <2>1, <2>2 DEF Owns, Journaled
    <2>5. ToolInv(t)'
      BY <1>0, <1>1, <2>1, <2>2, <2>3, <2>4 DEF ToolInv, Running
    <2>6. "public" \notin grants
      BY <1>1, <1>4, StepsAre
    <2>7. \A u \in Tools : Reactivated(u)'
      BY <1>0, <2>6 DEF Reactivated
    <2>8. \A u, v \in Tools : Alone(u, v)'
      BY <1>1, <2>1, <2>2, <2>3, <2>4 DEF GrantInv, Alone
    <2>9. Said("applied")' <=> Said("applied")
      BY <1>4 DEF Proceeds, Said
    <2>10. AppliedInv'
      BY <1>0, <1>1, <2>2, <2>3, <2>4, <2>9 DEF AppliedInv
    <2>11. BaredInv'
      <3>1. bared /\ ~overtaken => tool[t].mode # "repair"
        BY <1>0, <1>1, <2>6 DEF BaredInv
      <3> QED BY <1>0, <2>1, <2>2, <2>3, <2>4, <2>9, <3>1 DEF BaredInv
    <2>12. \A u \in Tools : ToolInv(u)'
      BY <2>3, <2>5
    <2> QED BY <2>3, <2>7, <2>8, <2>10, <2>11, <2>12 DEF GrantInv
  <1>5. ASSUME Says(t, "applied"), tool[t].mode = "repair", tool[t].step = 3 PROVE GrantInv'
    <2>1. /\ tool' \in [Tools -> ToolShape] /\ tool'[t].at = "ended"
          /\ \A u \in Tools : u # t => tool'[u] = tool[u]
      BY <1>0, <1>5, SaysEnds DEF Words
    <2>2. ~Owns(t)' /\ ToolInv(t)'
      BY <2>1 DEF Owns, ToolInv, Running
    <2>3. /\ LockInv'
          /\ \A m, n : Taken(m, n)' <=> Taken(m, n)
          /\ \A u \in Tools : u # t => /\ ToolInv(u)' /\ (Owns(u)' <=> Owns(u))
                                       /\ (Believes(u)' <=> Believes(u))
          /\ DisableSent => DisableSent'
      <3>1. tool'[t].at # "dispatch"
        BY <2>1
      <3> QED BY <1>0, <2>1, <3>1, OthersStay
    <2>4. \A u \in Tools : ToolInv(u)' /\ Reactivated(u)'
      BY <1>0, <2>2, <2>3 DEF GrantInv, Reactivated, Believes
    <2>5. \A u, v \in Tools : Alone(u, v)'
      BY <2>1, <2>2, <2>3 DEF GrantInv, Alone
    <2>6. AppliedInv'
      <3>1. Taken("repair", 1)
        BY <1>0, <1>1, <1>5 DEF ToolInv, Journaled
      <3>2. \A u \in Tools : u # t /\ Owns(u) => tool[u].mode # "repair"
        BY <1>1, <1>5 DEF GrantInv, Alone
      <3> QED BY <2>1, <2>2, <2>3, <3>1, <3>2 DEF AppliedInv
    <2>7. BaredInv'
      BY <1>0, <1>1, <1>5 DEF BaredInv
    <2> QED BY <2>3, <2>4, <2>5, <2>6, <2>7 DEF GrantInv
  <1>6. {"hold", "restored", "rejected"} \subseteq Words
    BY DEF Words
  <1>7. ASSUME AfterRepairRead(t), tool[t].mode = "repair" PROVE GrantInv'
    <2>1. \/ EmergencyDisable(t)
          \/ Says(t, "rejected")
          \/ Proceeds(t) /\ tool[t].step < 3 /\ grants \in StepOf(tool[t]).states
          \/ Says(t, "applied") /\ ~(tool[t].step < 3)
      BY <1>7 DEF AfterRepairRead
    <2> QED BY <1>1, <1>2, <1>3, <1>4, <1>5, <1>6, <1>7, <2>1
  <1>8. ASSUME AfterDisableRead(t) PROVE GrantInv'
    <2>1. \/ Says(t, "hold")
          \/ Proceeds(t) /\ tool[t].step < 3 /\ grants \in StepOf(tool[t]).states
          \/ Says(t, "restored")
      BY <1>8 DEF AfterDisableRead
    <2> QED BY <1>2, <1>4, <1>6, <2>1
  <1> QED BY <1>2, <1>3, <1>6, <1>7, <1>8 DEF Verify

\* RecoveryGrants.AppliedWhileInactive: a repair that reports
\* APPLY_JOURNALED_RECONCILED has opened the private schema while the view was
\* inactive, though a disable of its operation activated it again beside it.
\* The target's lock admits one operation, its journal one process per mode,
\* and the disable that activates the view has nothing left to send.
THEOREM AppliedIsInactive == GrantSpec => []AppliedWhileInactive
  <1>1. GrantInit => GrantInv /\ ExposureInv
    <2> SUFFICES ASSUME GrantInit PROVE GrantInv /\ ExposureInv
      OBVIOUS
    <2>1. GrantTypes /\ ExposureInv
      BY GrantsStart
    <2>2. Rested.at = "idle" /\ \A t \in Tools : tool[t] = Rested
      BY DEF GrantInit, Rested
    <2>3. LockInv /\ ~Said("applied") /\ ~bared
      BY DEF GrantInit, LockInv, Taken, Said
    <2>4. \A t \in Tools : ToolInv(t) /\ ~Owns(t) /\ tool[t].at # "writing"
      BY <2>2 DEF ToolInv, Running, Owns
    <2>5. \A t, u \in Tools : Reactivated(t) /\ Alone(t, u)
      BY <2>4 DEF Reactivated, Believes, Alone
    <2> QED BY <2>1, <2>3, <2>4, <2>5 DEF GrantInv, BaredInv, AppliedInv
  <1>2. ASSUME GrantInv, ExposureInv, [GrantNext]_grantVars PROVE GrantInv' /\ ExposureInv'
    <2>1. GrantTypes' /\ ExposureInv'
      BY <1>2, ExposureKept DEF GrantInv
    <2>2. ASSUME UNCHANGED <<tool, reports, lockFile, intents>>,
                 overtaken' \/ UNCHANGED <<grants, overtaken, bared>>
          PROVE  GrantInv'
      <3>1. /\ LockInv' /\ AppliedInv' /\ BaredInv'
            /\ \A t \in Tools : ToolInv(t)'
            /\ \A t, u \in Tools : Alone(t, u)'
        BY <1>2, <2>2 DEF GrantInv, LockInv, AppliedInv, BaredInv, ToolInv, Alone, Taken, Said, Owns,
           Running, Journaled
      <3>2. \A t \in Tools : Reactivated(t)'
        BY <1>2, <2>2 DEF GrantInv, Reactivated, Believes, Owns, DisableSent, Taken
      <3> QED BY <2>1, <3>1, <3>2 DEF GrantInv
    <2>3. ASSUME NEW s \in flight, Arrive(s) PROVE GrantInv'
      BY <2>2, <2>3 DEF Arrive
    <2>4. ASSUME Drift \/ UNCHANGED grantVars PROVE GrantInv'
      BY <2>2, <2>4 DEF Drift, grantVars
    <2>5. ASSUME NEW t \in Tools, ToolStep(t) PROVE GrantInv'
      BY <1>2, <2>1, <2>5, LockKeeps, JournalKeeps, DispatchStatementKeeps, VerifyKeeps DEF ToolStep
    <2> QED BY <1>2, <2>1, <2>3, <2>4, <2>5 DEF GrantNext
  <1>3. GrantInv => AppliedWhileInactive
    BY DEF GrantInv, BaredInv, AppliedWhileInactive
  <1> QED BY <1>1, <1>2, <1>3, PTL DEF GrantSpec
=============================================================================
