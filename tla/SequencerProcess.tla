-------------------------- MODULE SequencerProcess --------------------------
(***************************************************************************)
(* The sequencer process: main opens the database and starts the services  *)
(* one after the other; a signal stops them all, closes the database and   *)
(* exits.  Signals may come during the start and again during the stop.    *)
(*                                                                         *)
(* The services' passes are reduced to the statements they have at the     *)
(* database, but for the block builder's (BlockBuilder).  stopAll waits    *)
(* for nothing from outside and is one step.  The pool of the database     *)
(* driver refuses statements once it is ending, ends when the last one is  *)
(* done, and cannot be ended twice.                                        *)
(***************************************************************************)
EXTENDS BlockBuilder

CONSTANTS
    MaxSignals,  \* bound on signals to one process
    MaxCrashes   \* bound on failures to start and on crashes

ASSUME SequencerProcessAssumption == MaxSignals \in Nat /\ MaxCrashes \in Nat

\* startAll's order
Order == <<"blockBuilder", "l1Listener", "l2Processor", "l2WithdrawalListener",
           "batchSubmitter", "withdrawalFinalizer">>
Services == {Order[i] : i \in DOMAIN Order}
Reported == Services \ {"blockBuilder"}
Started == Len(Order) + 1

Signals == {"SIGINT", "SIGTERM", "uncaughtException", "unhandledRejection"}

VARIABLES
    up,
    step,        \* 0: initDatabase; i: startAll is at Order[i]; Started: it is over
    awaiting,    \* that service has set isRunning, and its start goes on
    active,      \* the services whose isRunning is set; the L1 listener's stays set
                 \* when its websocket closes, for no handler is attached
    status,      \* serviceStatus
    pool,        \* "none", "open" or "ending"
    closing,     \* the signal whose shutdown waits for the pool to end
    statements,  \* services with a statement at the database
    exitCode,    \* of the last process
    signals, crashes

processVars == <<up, step, awaiting, active, status, pool, closing, statements,
                 exitCode, signals, crashes>>
sequencerVars == <<builderVars, processVars>>

Stopped == [s \in Reported |-> "STOPPED"]

ProcessInit ==
    /\ up = FALSE
    /\ step = 0
    /\ awaiting = FALSE
    /\ active = {}
    /\ status = Stopped
    /\ pool = "none"
    /\ closing = "none"
    /\ statements = {}
    /\ exitCode = 0
    /\ signals = 0 /\ crashes = 0

----------------------------------------------------------------------------
\* process.exit
Exit(code) ==
    /\ up' = FALSE
    /\ step' = 0
    /\ awaiting' = FALSE
    /\ active' = {}
    /\ status' = Stopped
    /\ pool' = "none"
    /\ closing' = "none"
    /\ statements' = {}
    /\ exitCode' = code
    /\ BuilderGone

InMain == <<builderVars, closing, exitCode, crashes>>

\* main: the pool is there before it is connected.
Boot ==
    /\ ~up
    /\ up' = TRUE
    /\ pool' = "open"
    /\ signals' = 0
    /\ UNCHANGED <<InMain, step, awaiting, active, status, statements>>

\* initDatabase is done, or throws because the pool is ending.
DatabaseReady ==
    /\ up /\ step = 0
    /\ IF pool = "open"
       THEN step' = 1 /\ UNCHANGED <<InMain, up, awaiting, active, status, pool, statements>>
       ELSE Exit(1) /\ UNCHANGED crashes
    /\ UNCHANGED signals

At(s) == up /\ step \in DOMAIN Order /\ s = Order[step]
Reports(s, state) ==
    status' = [t \in Reported |-> IF t = s THEN state ELSE status[t]]

\* start of a service sets isRunning.
ServiceRuns(s) ==
    /\ At(s) /\ ~awaiting
    /\ awaiting' = TRUE
    /\ active' = active \cup {s}
    /\ Reports(s, "STARTING")
    /\ IF s = "blockBuilder" THEN InitializeState ELSE UNCHANGED builderVars
    /\ UNCHANGED <<up, step, pool, closing, statements, exitCode, signals, crashes>>

\* What start awaits after that.  The first pass of the finalizer queries the
\* table; so does that of the L2 processor, which catches the error.
FirstPassCaught(s) == TRUE
FirstPassSucceeds(s) == s = "withdrawalFinalizer" => pool = "open"

\* start returns, and startAll goes on even if all services were stopped in
\* between; or it throws, and main exits.
ServiceStarted(s) ==
    /\ At(s) /\ awaiting
    /\ IF FirstPassSucceeds(s)
       THEN /\ step' = step + 1
            /\ awaiting' = FALSE
            /\ Reports(s, "RUNNING")
            /\ UNCHANGED <<InMain, up, active, pool, statements>>
       ELSE Exit(1) /\ UNCHANGED crashes
    /\ UNCHANGED signals

\* A connection fails while a service starts: updateErrorStates, and main exits.
StartFails ==
    /\ up /\ step # Started
    /\ crashes < MaxCrashes
    /\ crashes' = crashes + 1
    /\ Exit(1)
    /\ UNCHANGED signals

----------------------------------------------------------------------------
\* query: a service begins a statement, and it is done.
QueryBegins(s) ==
    /\ up /\ pool = "open"
    /\ s \in active \cap Reported /\ s \notin statements
    /\ statements' = statements \cup {s}
    /\ UNCHANGED <<InMain, up, step, awaiting, active, status, pool, signals>>

QueryEnds(s) ==
    /\ s \in statements
    /\ statements' = statements \ {s}
    /\ UNCHANGED <<InMain, up, step, awaiting, active, status, pool, signals>>

\* isHealthy
IsHealthy == \A s \in Reported : status[s] = "RUNNING"

----------------------------------------------------------------------------
\* shutdown

ExitCodeOf(signal) == IF signal \in {"uncaughtException", "unhandledRejection"} THEN 1 ELSE 0

\* stopAll, when there is a manager
StopAll ==
    IF step = 0 THEN UNCHANGED <<active, status>>
    ELSE active' = {} /\ status' = Stopped

\* stopAll and closeDatabase, which fails when the pool is ending already.
Shutdown(signal) ==
    /\ up /\ signals < MaxSignals
    /\ signals' = signals + 1
    /\ \/ /\ pool = "open"
          /\ StopAll
          /\ pool' = "ending"
          /\ closing' = signal
          /\ UNCHANGED <<builderVars, up, step, awaiting, statements, exitCode>>
       \/ pool = "ending" /\ Exit(1)
    /\ UNCHANGED crashes

\* The pool has ended, and the process exits; without the exit, or without
\* the wait.
PoolEndsOnly ==
    /\ pool = "ending" /\ statements = {}
    /\ pool' = "none"
    /\ UNCHANGED <<InMain, up, step, awaiting, active, status, statements, signals>>
PoolDropped ==
    /\ pool = "ending"
    /\ Exit(ExitCodeOf(closing))
    /\ UNCHANGED <<signals, crashes>>
PoolEnds ==
    /\ pool = "ending" /\ statements = {}
    /\ Exit(ExitCodeOf(closing))
    /\ UNCHANGED <<signals, crashes>>

Crash ==
    /\ up
    /\ crashes < MaxCrashes
    /\ crashes' = crashes + 1
    /\ Exit(1)
    /\ UNCHANGED signals

----------------------------------------------------------------------------
\* A pass of the block builder begins while the builder runs, and goes on
\* until the process exits.
BuilderNext ==
    /\ up
    /\ \E b \in Builds : ("blockBuilder" \in active /\ BuildBegins(b)) \/ BuildStep(b)
    /\ UNCHANGED processVars

ProcessStep ==
    \/ DatabaseReady
    \/ \E s \in Services : ServiceRuns(s) \/ ServiceStarted(s)
    \/ PoolEnds

SequencerInit == BuilderInit /\ ProcessInit

SequencerNext ==
    \/ BuilderNext
    \/ Boot
    \/ ProcessStep
    \/ StartFails
    \/ \E s \in Services : QueryBegins(s) \/ QueryEnds(s)
    \/ \E signal \in Signals : Shutdown(signal)
    \/ Crash

SequencerSpec == SequencerInit /\ [][SequencerNext]_sequencerVars

\* What main and shutdown await comes, and so does what the database has in
\* hand; nothing is assumed of signals, crashes and the block builder.
FairSequencerSpec ==
    /\ SequencerSpec
    /\ WF_sequencerVars(ProcessStep)
    /\ \A s \in Reported : WF_sequencerVars(QueryEnds(s))

----------------------------------------------------------------------------
\* A block the client was told is final stays in the chain of its head, over
\* overlapping passes, rejected payloads, lost answers and restarts.  Where a
\* pass begins while another waits for a forkchoice, this is not so: the late
\* answer takes lastBlockHash back (block-builder.service.ts:166).
FinalityHolds == ~crossed => finalized \subseteq chain[head]

\* "Health check: All services running" (sequencer-manager.service.ts:223)
\* is true of what the services say of themselves (isRunning); also of the
\* block builder, which has no status, and although startAll goes on behind a
\* shutdown that stopped what it had started.
HealthIsHonest == IsHealthy => Services \subseteq active

\* A process that was told to stop exits, whatever it was at: the pool ends
\* because it takes no new statements from services that startAll still
\* starts, and a second signal does not get in the way.
StopsInTheEnd == pool = "ending" ~> ~up

\* Exit code 0 is only given by a shutdown on SIGINT or SIGTERM, and it cuts
\* off no statement.
CleanExit ==
    [][up /\ ~up' /\ exitCode' = 0 =>
           closing \in {"SIGINT", "SIGTERM"} /\ statements = {}]_sequencerVars
=============================================================================
