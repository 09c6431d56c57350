----------------------------- MODULE VSCodeClient -----------------------------
(***************************************************************************)
(* The VS Code extension: editors/vscode/src/extension.js, on the version  *)
(* 9.0.1 of vscode-languageclient that package-lock.json pins (external).  *)
(*                                                                         *)
(* activate, each restart and deactivate are tasks of one JavaScript       *)
(* thread: between two awaits a task runs alone.  The one await that waits *)
(* is that of a client's stop.  Of that version start() returns a Promise  *)
(* and client.onReady does not exist: startClient throws right after it    *)
(* has started the client, and its task ends with that error while the     *)
(* client is starting.  stop() refuses a client that does not run.         *)
(*                                                                         *)
(* A client is its configuration and the state of its server.  A server    *)
(* that ends on its own, and what the library then does, are not modelled. *)
(***************************************************************************)
EXTENDS Integers, Sequences, FiniteSets

CONSTANTS
  Settings,         \* what the user may configure: paths or a database
  Unset,            \* neither a schema path nor a database is configured
  NoClient,         \* undefined
  MaxTasks,         \* bound on the restarts
  MaxChanges        \* bound on the changes of the configuration

ASSUME SettingsAssumption == Unset \notin Settings /\ NoClient \notin Nat
ASSUME BoundsAssumption == MaxTasks \in Nat /\ MaxChanges \in Nat

VARIABLES
  config,           \* the configuration of VS Code
  changes,          \* how often it has changed
  client,           \* the variable client: an index into clients
  warningShown,
  clients,          \* the clients made so far
  tasks,            \* the pending task numbers, with the stop that each awaits
  begun,            \* how many tasks have begun; activate is number 0
  deactivated,      \* VS Code has called deactivate
  overlapped,       \* history: a task began while another was pending
  abandoned,        \* history: the clients whose stop has been rejected
  refused           \* history: a stop has been rejected since startClient last ran

moduleVars == <<client, warningShown>>
hostVars == <<config, changes, deactivated>>
vars == <<hostVars, moduleVars, clients, tasks, begun, overlapped, abandoned, refused>>

Pending == DOMAIN tasks
Live == {c \in DOMAIN clients : clients[c].state \in {"starting", "running", "stopping"}}
Ended(t) == [u \in Pending \ {t} |-> tasks[u]]
Awaiting(t, what, c) ==
  [u \in Pending \cup {t} |-> IF u = t THEN [what |-> what, client |-> c] ELSE tasks[u]]
Becomes(c, state) == [clients EXCEPT ![c].state = state]

-----------------------------------------------------------------------------
(***************************************************************************)
(* startClient.  Without a configuration the user is told once; with one   *)
(* the call of client.onReady throws, and the client goes on starting.     *)
(***************************************************************************)
StartIdle(setting) ==
  /\ setting = Unset
  /\ warningShown' = TRUE
  /\ UNCHANGED client

StartConfigured(setting, known) ==
  /\ setting # Unset
  /\ warningShown' = FALSE
  /\ clients' = Append(known, [config |-> setting, state |-> "starting"])
  /\ client' = Len(known) + 1

StartClient(setting, known) ==
  /\ \/ StartIdle(setting) /\ clients' = known
     \/ StartConfigured(setting, known)
  /\ refused' = FALSE /\ UNCHANGED abandoned

\* Mutant of StopClient: the variable keeps the client while it stops.
StopClientKeeping(t, what) ==
  /\ client # NoClient /\ clients[client].state = "running"
  /\ clients' = Becomes(client, "stopping")
  /\ tasks' = Awaiting(t, what, client)
  /\ UNCHANGED <<moduleVars, abandoned, refused>>

(***************************************************************************)
(* stopClient with a client, up to its await.  The stop of a client that   *)
(* starts, or has failed to, is rejected at once, and so the task ends.    *)
(***************************************************************************)
StopClient(t, what) ==
  /\ client # NoClient /\ client' = NoClient
  /\ \/ /\ clients[client].state = "running"
        /\ clients' = Becomes(client, "stopping")
        /\ tasks' = Awaiting(t, what, client)
        /\ UNCHANGED <<abandoned, refused>>
     \/ /\ clients[client].state # "running"
        /\ abandoned' = abandoned \cup {client} /\ refused' = TRUE
        /\ UNCHANGED <<clients, tasks>>
  /\ UNCHANGED warningShown

Begin ==
  /\ begun' = begun + 1
  /\ overlapped' = (overlapped \/ Pending # {})

\* VS Code disposes of the command and the listener when deactivate has ended.
Listening ==
  /\ begun \in 1..MaxTasks
  /\ deactivated => \E t \in Pending : tasks[t].what = "deactivate"

\* Mutant of Restart: the stop of a client that runs is not awaited.
RestartAtOnce(setting) ==
  /\ Listening /\ Begin
  /\ StartClient(setting, IF client # NoClient THEN Becomes(client, "stopping") ELSE clients)
  /\ UNCHANGED tasks

\* Mutant of Restart: only a client that there is is restarted.
RestartOfAClient(setting) ==
  /\ Listening /\ Begin
  /\ \/ StopClient(begun, "restart")
     \/ client = NoClient /\ UNCHANGED <<moduleVars, clients, tasks, abandoned, refused>>

(***************************************************************************)
(* restartClient: after a stop, or at once when there is no client.        *)
(***************************************************************************)
Restart(setting) ==
  /\ Listening /\ Begin
  /\ \/ StopClient(begun, "restart")
     \/ client = NoClient /\ StartClient(setting, clients) /\ UNCHANGED tasks

Init ==
  /\ config \in Settings \cup {Unset} /\ changes = 0
  /\ client = NoClient /\ warningShown = FALSE
  /\ clients = << >> /\ tasks = << >> /\ begun = 0
  /\ deactivated = FALSE
  /\ overlapped = FALSE /\ abandoned = {} /\ refused = FALSE

Activate ==
  /\ begun = 0
  /\ Begin /\ StartClient(config, clients)
  /\ UNCHANGED <<hostVars, tasks>>

RestartCommand == Restart(config) /\ UNCHANGED hostVars

ConfigurationChanges ==
  /\ changes < MaxChanges
  /\ changes' = changes + 1
  /\ config' \in (Settings \cup {Unset}) \ {config}
  /\ Restart(config')
  /\ UNCHANGED deactivated

Deactivate ==
  /\ begun > 0 /\ ~deactivated
  /\ deactivated' = TRUE
  /\ Begin
  /\ \/ StopClient(begun, "deactivate")
     \/ client = NoClient /\ UNCHANGED <<moduleVars, clients, tasks, abandoned, refused>>
  /\ UNCHANGED <<config, changes>>

-----------------------------------------------------------------------------
(***************************************************************************)
(* What the client library does.  No task awaits the end of a start.       *)
(***************************************************************************)
StartSettles == \E c \in DOMAIN clients, result \in {"running", "failed"} :
  /\ clients[c].state = "starting"
  /\ clients' = Becomes(c, result)
  /\ UNCHANGED <<hostVars, moduleVars, tasks, begun, overlapped, abandoned, refused>>

\* A restart goes on to startClient, in the configuration of now.
StopResolves == \E t \in Pending :
  /\ LET stopped == Becomes(tasks[t].client, "stopped") IN
     IF tasks[t].what = "restart"
     THEN StartClient(config, stopped)
     ELSE clients' = stopped /\ UNCHANGED <<moduleVars, abandoned, refused>>
  /\ tasks' = Ended(t)
  /\ UNCHANGED <<hostVars, begun, overlapped>>

\* The server does not answer in time, or with an error: so ends the task.
StopRejects == \E t \in Pending :
  /\ tasks' = Ended(t)
  /\ abandoned' = abandoned \cup {tasks[t].client} /\ refused' = TRUE
  /\ UNCHANGED <<hostVars, moduleVars, clients, begun, overlapped>>

\* The library may yet kill the server of a client that it has refused to stop.
ServerKilled == \E c \in abandoned :
  /\ clients[c].state # "stopped"
  /\ clients' = Becomes(c, "stopped")
  /\ UNCHANGED <<hostVars, moduleVars, tasks, begun, overlapped, abandoned, refused>>

Next ==
  \/ Activate \/ RestartCommand \/ ConfigurationChanges \/ Deactivate
  \/ StartSettles \/ StopResolves \/ StopRejects \/ ServerKilled

Spec == Init /\ [][Next]_vars

-----------------------------------------------------------------------------
Client == [config : Settings, state : {"starting", "running", "stopping", "stopped", "failed"}]

(***************************************************************************)
(* The variable of extension.js is a client that nobody is stopping or has *)
(* tried to, and a client is stopped by one task.                          *)
(***************************************************************************)
TypeOK ==
  /\ config \in Settings \cup {Unset} /\ warningShown \in BOOLEAN
  /\ clients \in Seq(Client) /\ abandoned \subseteq DOMAIN clients
  /\ client \in DOMAIN clients \cup {NoClient}
  /\ client # NoClient =>
       clients[client].state \in {"starting", "running", "failed"} /\ client \notin abandoned
  /\ \A t \in Pending :
       /\ tasks[t].what \in {"restart", "deactivate"}
       /\ tasks[t].client \in DOMAIN clients \ abandoned
       /\ clients[tasks[t].client].state = "stopping"
  /\ \A t, u \in Pending : tasks[t].client = tasks[u].client => t = u

(***************************************************************************)
(* Activation, restarts and deactivation, begun each after the last has    *)
(* ended: two servers only when the library has refused to stop one, and   *)
(* only such a one is left when VS Code is done with the extension.        *)
(***************************************************************************)
OneServerAtATime ==
  ~overlapped =>
    /\ Cardinality(Live \ abandoned) <= 1
    /\ (deactivated /\ Pending = {}) => Live \subseteq abandoned

(***************************************************************************)
(* However restarts and changes of the settings overlap, and whatever      *)
(* stops are rejected: when all have ended, a client has the present       *)
(* settings; there is none because there are none and the user has been    *)
(* told, or because a stop was rejected and nothing started since.         *)
(***************************************************************************)
SettlesOnPresentSettings ==
  (begun > 0 /\ Pending = {} /\ ~deactivated) =>
    IF client # NoClient THEN clients[client].config = config
    ELSE refused \/ (config = Unset /\ warningShown)

-----------------------------------------------------------------------------
(***************************************************************************)
(* package.json:42-43, the command "formql.restartLanguageServer",         *)
(* "FormQL: Restart Language Server": a restart replaces the server, and   *)
(* when restarts have ended one is left, every stop having succeeded.      *)
(***************************************************************************)
RestartsReplaceTheServer == (Pending = {} /\ abandoned = {}) => Cardinality(Live) <= 1
=============================================================================
