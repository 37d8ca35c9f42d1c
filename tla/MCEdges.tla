------------------------------ MODULE MCEdges ------------------------------
(***************************************************************************)
(* What the daemon keeps and how it is reached, one part after the other:  *)
(* a behaviour is one of the runtime store, the native store, the log      *)
(* parser, the log sink, the controller client or the service commands,    *)
(* and focus says which.  The parts share no state, so a property of a     *)
(* part holds here iff it holds of the part.                               *)
(***************************************************************************)
EXTENDS RuntimeStore, NativeStore, LogParser, LogSink, ApiClient, ServiceCommands

VARIABLE focus

edgeVars == <<focus, svars, nvars, lvars, kvars, avars, cvars>>

(* The parts that have no focus stay in one of their initial states.       *)
AtRest ==
  /\ focus # "native" => legacyOf = "none" /\ \A s \in Slots : legacy[s] = NoLegacy
  /\ focus # "commands" => platform = "linux"

EdgesInit ==
  /\ focus \in {"store", "native", "parser", "sink", "client", "commands"}
  /\ StoreInit /\ NativeInit /\ ParserInit /\ SinkInit /\ ClientInit /\ CommandsInit
  /\ AtRest

OnStore    == focus = "store"    /\ StoreNext    /\ UNCHANGED <<focus, nvars, lvars, kvars, avars, cvars>>
OnNative   == focus = "native"   /\ NativeNext   /\ UNCHANGED <<focus, svars, lvars, kvars, avars, cvars>>
OnParser   == focus = "parser"   /\ ParserSteps  /\ UNCHANGED <<focus, svars, nvars, kvars, avars, cvars>>
OnSink     == focus = "sink"     /\ SinkNext     /\ UNCHANGED <<focus, svars, nvars, lvars, avars, cvars>>
OnClient   == focus = "client"   /\ ClientNext   /\ UNCHANGED <<focus, svars, nvars, lvars, kvars, cvars>>
OnCommands == focus = "commands" /\ CommandsNext /\ UNCHANGED <<focus, svars, nvars, lvars, kvars, avars>>

EdgesNext == OnStore \/ OnNative \/ OnParser \/ OnSink \/ OnClient \/ OnCommands

EdgesSpec == EdgesInit /\ [][EdgesNext]_edgeVars

(* What else holds of the parts: every state has its shape; no file is     *)
(* found half written and no socket outlives what a sweep finds it by; no  *)
(* daemon reaps another's core; the marker stays until death is proven;    *)
(* every line is in one frame, of its own stream; the worst line is the    *)
(* cause reported, dates are right over midnight; log files are whole,     *)
(* bounded, retained and drained at shutdown; a busy pipe means unsent;    *)
(* a successful update leaves no older daemon running.                     *)
EdgesInv ==
  /\ StoreTypeOK /\ NeverTorn /\ SocketFindable /\ CurrentNotReaped
  /\ NativeTypeOK /\ DirtyUntilProven
  /\ ParserTypeOK /\ LinesKept /\ OwnContinuations /\ SummaryIsWorst /\ PremiumDated
  /\ SinkTypeOK /\ FilesWhole /\ Retained /\ FileBounded /\ DrainedAtShutdown
  /\ ClientTypeOK /\ BusyIsUnsent
  /\ CommandsTypeOK /\ UpdateTakesEffect
============================================================================
