---------------------------- MODULE DesktopLauncher ----------------------------
(***************************************************************************)
(* The desktop launcher: how a double-click finds the server that is       *)
(* running, or becomes one (src/src/desktop.rs, bin/lakeleto-desktop.rs).  *)
(*                                                                         *)
(* Every launch is a process.  They share the port file and the machine's  *)
(* ports, and nothing else: no lock is taken between reading the record,   *)
(* probing the port it names, writing a record and binding.                *)
(***************************************************************************)
EXTENDS FiniteSets, Naturals

CONSTANTS
  Launches,   \* double-clicks
  Ports,      \* bound: the ports the OS may hand out
  NoPort,     \* no record
  Nobody,     \* nobody listens on the port
  Other       \* some other program does

VARIABLES
  record,   \* the port file
  owner,    \* who listens on each port
  at,       \* where each launch is
  port      \* the port it has read or picked

vars == <<record, owner, at, port>>

Running == {"probe", "reuse", "pick", "record", "bind", "failed", "serving", "clear", "exit"}

Init ==
  /\ record = NoPort
  /\ owner = [p \in Ports |-> Nobody]
  /\ at = [l \in Launches |-> "idle"]
  /\ port = [l \in Launches |-> NoPort]

Go(l, place) == at' = [at EXCEPT ![l] = place]

\* A process that ends stops listening.
Leave(l) ==
  /\ Go(l, "gone")
  /\ owner' = [p \in Ports |-> IF owner[p] = l THEN Nobody ELSE owner[p]]

\* `running_instance` reads the record.
ReadRecord(l) ==
  /\ at[l] = "idle"
  /\ port' = [port EXCEPT ![l] = record]
  /\ Go(l, IF record = NoPort THEN "pick" ELSE "probe")
  /\ UNCHANGED <<record, owner>>

\* `is_lakeleto`: a Lakeleto that answers in time is used.
Answered(l) ==
  /\ at[l] = "probe" /\ owner[port[l]] \in Launches
  /\ Go(l, "reuse")
  /\ UNCHANGED <<record, owner, port>>

\* One that does not, another program and a dead port are not.
Unanswered(l) ==
  /\ at[l] = "probe"
  /\ Go(l, "pick")
  /\ UNCHANGED <<record, owner, port>>

\* The browser is shown the port that answered.
Reuse(l) ==
  /\ at[l] = "reuse"
  /\ Go(l, "gone")
  /\ UNCHANGED <<record, owner, port>>

\* `free_port`: the OS names a port and it is let go at once.
FreePort(l) ==
  /\ at[l] = "pick"
  /\ \E p \in Ports : owner[p] = Nobody /\ port' = [port EXCEPT ![l] = p]
  /\ Go(l, "record")
  /\ UNCHANGED <<record, owner>>

\* `record_port`, before the server thread binds.
RecordPort(l) ==
  /\ at[l] = "record"
  /\ record' = port[l]
  /\ Go(l, "bind")
  /\ UNCHANGED <<owner, port>>

\* `serve` binds and opens the browser, or its error is sent to the main thread.
Bind(l) ==
  /\ at[l] = "bind"
  /\ IF owner[port[l]] = Nobody
       THEN owner' = [owner EXCEPT ![port[l]] = l] /\ Go(l, "serving")
       ELSE Go(l, "failed") /\ UNCHANGED owner
  /\ UNCHANGED <<record, port>>

\* The event loop wakes: it finds the error, or that Quit was chosen.
LeaveLoop(l) ==
  /\ at[l] \in {"failed", "serving"}
  /\ Go(l, "clear")
  /\ UNCHANGED <<record, owner, port>>

\* `clear_port` removes the record, whoever wrote it.
ClearPort(l) ==
  /\ at[l] = "clear"
  /\ record' = NoPort
  /\ Go(l, "exit")
  /\ UNCHANGED <<owner, port>>

\* The process ends: as it should, because it is killed, or because no tray
\* icon can be made, which exits from within the event loop.
End(l) ==
  /\ at[l] \in Running
  /\ Leave(l)
  /\ UNCHANGED <<record, port>>

\* Other programs take ports and let them go.
OtherProgram(p) ==
  /\ \/ owner[p] = Nobody /\ owner' = [owner EXCEPT ![p] = Other]
     \/ owner[p] = Other /\ owner' = [owner EXCEPT ![p] = Nobody]
  /\ UNCHANGED <<record, at, port>>

Launch(l) ==
  \/ ReadRecord(l) \/ Answered(l) \/ Unanswered(l) \/ Reuse(l) \/ FreePort(l)
  \/ RecordPort(l) \/ Bind(l) \/ LeaveLoop(l) \/ ClearPort(l) \/ End(l)

Next ==
  \/ \E l \in Launches : Launch(l)
  \/ \E p \in Ports : OtherProgram(p)

Spec == Init /\ [][Next]_vars

-----------------------------------------------------------------------------
\* "Double-clicking a desktop icon twice is normal and must not start a second
\* server" (desktop.rs:12-13).
OneServer == Cardinality({l \in Launches : at[l] = "serving"}) <= 1
=============================================================================
