------------------------------ MODULE MCPrograms ------------------------------
(***************************************************************************)
(* The programs that serve one user, each on its own: `part` says which    *)
(* one a behaviour is about, and the others stay as they are.              *)
(*   session  McpSession: a client that may cancel and reuse ids, with     *)
(*            more calls than running slots                                *)
(*   store    WorkspaceStore: a few requests on a workspace, a crash, and  *)
(*            a write that fails                                           *)
(*   cli      CommandLine: two runs that write to one file, of every       *)
(*            format and engine                                            *)
(*   tools    McpTools: tables of every kind of statistics, row and place  *)
(*   remote   RemoteEngine: two callers of a server that is replaced       *)
(*   vended   CatalogStorage: tables with nothing to send, a key, or a key *)
(*            with a session, and three requests that renew at once        *)
(***************************************************************************)
EXTENDS McpSession, WorkspaceStore, CatalogStorage, CommandLine, RemoteEngine, McpTools, TLC

\* `a` and `b` are the ids, the runs and the callers of which there are two, and
\* with `t3` the requests for a table's files; `t1` and `t2` those on a workspace.
CONSTANTS a, b, null, t1, t2, t3, w1, r0, none

VARIABLE part

MCMethodsCalls == {"tools/call", "notifications/cancelled"}
MCShapes == {{}, {"key"}, {"key", "session", "expires"}}
MCSymmetry == Permutations({a, b}) \cup Permutations({t1, t2})

Inputs == INSTANCE MCInputs
MCServers == Inputs!ToolServers
MCToolTables == Inputs!TablesOfTools
MCResults == Inputs!ToolResults
MCCounts == Inputs!ToolCounts
ASSUME ToolsAreGiven == ToolsAssumption
MCInvocations == Inputs!CliInvocations
MCPeers == Inputs!RemotePeers
MCAsks == Inputs!RemoteAsks

\* Bound: what this machine and the catalog's configuration have set.
AllOrNothing == {{}, {"key", "session", "expires"}}

sessionVars == vars

\* What the variables of a part are while another is looked at.
CliParked == CliInit /\ dest = Nothing /\ \A r \in CliRuns : run[r] = NotRun(CHOOSE i \in Invocations : TRUE)
ToolsParked ==
  ToolsInit /\ toolServer = (CHOOSE s \in Servers : TRUE) /\ about = (CHOOSE t \in ToolTables : TRUE)
RemoteParked == RemoteInit /\ peer = CHOOSE p \in Peers : TRUE
StorageParked == StorageInit /\ local = {} /\ server = {} /\ overrides = FALSE /\ endpoint = FALSE

VendedInit == StorageInit /\ local \in AllOrNothing /\ server \in AllOrNothing

ProgramsInit ==
  \/ part = "session" /\ Init /\ StoreInit /\ CliParked /\ ToolsParked /\ RemoteParked /\ StorageParked
  \/ part = "store" /\ Init /\ StoreInit /\ CliParked /\ ToolsParked /\ RemoteParked /\ StorageParked
  \/ part = "cli" /\ CliInit /\ Init /\ StoreInit /\ ToolsParked /\ RemoteParked /\ StorageParked
  \/ part = "tools" /\ ToolsInit /\ Init /\ StoreInit /\ CliParked /\ RemoteParked /\ StorageParked
  \/ part = "remote" /\ RemoteInit /\ Init /\ StoreInit /\ CliParked /\ ToolsParked /\ StorageParked
  \/ part = "vended" /\ VendedInit /\ Init /\ StoreInit /\ CliParked /\ ToolsParked /\ RemoteParked

ProgramsNext ==
  \/ part = "session" /\ Next
     /\ UNCHANGED <<part, storeVars, cliVars, toolVars, remoteVars, storageVars>>
  \/ part = "store" /\ StoreNext
     /\ UNCHANGED <<part, sessionVars, cliVars, toolVars, remoteVars, storageVars>>
  \/ part = "cli" /\ CliNext
     /\ UNCHANGED <<part, sessionVars, storeVars, toolVars, remoteVars, storageVars>>
  \/ part = "tools" /\ ToolsNext
     /\ UNCHANGED <<part, sessionVars, storeVars, cliVars, remoteVars, storageVars>>
  \/ part = "remote" /\ RemoteNext
     /\ UNCHANGED <<part, sessionVars, storeVars, cliVars, toolVars, storageVars>>
  \/ part = "vended" /\ StorageNext
     /\ UNCHANGED <<part, sessionVars, storeVars, cliVars, toolVars, remoteVars>>

ProgramsSpec ==
  ProgramsInit /\ [][ProgramsNext]_<<part, sessionVars, storeVars, cliVars, toolVars, remoteVars, storageVars>>
=============================================================================
