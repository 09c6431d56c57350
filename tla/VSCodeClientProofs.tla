-------------------------- MODULE VSCodeClientProofs --------------------------
(***************************************************************************)
(* Theorems about the VS Code client, for any number of restarts and of    *)
(* changes of any settings.                                                *)
(***************************************************************************)
EXTENDS VSCodeClient, FiniteSetTheorems, SequenceTheorems, TLAPS

States == {"starting", "running", "stopping", "stopped", "failed"}

ValuesInv ==
  /\ config \in Settings \cup {Unset} /\ warningShown \in BOOLEAN
  /\ begun \in Nat

ClientsInv ==
  /\ clients \in Seq(Client) /\ abandoned \subseteq DOMAIN clients
  /\ client \in DOMAIN clients \cup {NoClient}
  /\ client # NoClient =>
       clients[client].state \in {"starting", "running", "failed"} /\ client \notin abandoned

(***************************************************************************)
(* A client is let go of by the variable before it is stopped: that is why *)
(* one task stops it, and why nobody is stopping the variable's.           *)
(***************************************************************************)
TasksInv ==
  /\ Pending \subseteq 0..begun - 1
  /\ \A t \in Pending :
       /\ tasks[t].what \in {"restart", "deactivate"}
       /\ tasks[t].client \in DOMAIN clients \ abandoned
       /\ clients[tasks[t].client].state = "stopping"
  /\ \A t, u \in Pending : tasks[t].client = tasks[u].client => t = u
  /\ begun = 0 => client = NoClient

TypeInv == ValuesInv /\ ClientsInv /\ TasksInv

(***************************************************************************)
(* The client that the variable holds was made with the present settings,  *)
(* and without one, a restart is pending that makes it, a stop has been    *)
(* rejected, or none is to be.                                             *)
(***************************************************************************)
WantsNone == config = Unset /\ warningShown
Agrees == client # NoClient => clients[client].config = config
Owed ==
  /\ begun > 0 /\ ~deactivated /\ ~refused /\ client = NoClient
  /\ \A t \in Pending : tasks[t].what # "restart"

SettingsInv == Agrees /\ (Owed => WantsNone)

(***************************************************************************)
(* Without overlaps a live client that is not abandoned is the variable's  *)
(* or that of the one pending stop, during which the variable is empty.    *)
(***************************************************************************)
Alone ==
  /\ \A t, u \in Pending : t = u
  /\ Pending # {} => client = NoClient
  /\ \A c \in Live \ abandoned : c = client \/ \E t \in Pending : tasks[t].client = c
  /\ deactivated => client = NoClient /\ \A t \in Pending : tasks[t].what = "deactivate"

OneInv == (begun = 0 => ~deactivated) /\ (~overlapped => Alone)

-----------------------------------------------------------------------------
(***************************************************************************)
(* The state of one client changes, or one is made.                        *)
(***************************************************************************)
LEMMA OneBecomes ==
  ASSUME clients \in Seq(Client), NEW c \in DOMAIN clients, NEW state \in States
  PROVE  /\ Becomes(c, state) \in Seq(Client) /\ DOMAIN Becomes(c, state) = DOMAIN clients
         /\ \A d \in DOMAIN clients :
              /\ Becomes(c, state)[d].config = clients[d].config
              /\ Becomes(c, state)[d].state = IF d = c THEN state ELSE clients[d].state
<1> DEFINE r == [clients[c] EXCEPT !.state = state]
<1>1. clients[c] \in Client
  OBVIOUS
<1>2. r \in Client /\ r.config = clients[c].config /\ r.state = state
  BY <1>1 DEF Client, States
<1>3. Becomes(c, state) = [clients EXCEPT ![c] = r]
  BY DEF Becomes
<1> HIDE DEF r, Client
<1>4. Becomes(c, state) \in Seq(Client) /\ DOMAIN Becomes(c, state) = DOMAIN clients
  BY <1>2, <1>3
<1>5. \A d \in DOMAIN clients : Becomes(c, state)[d] = IF d = c THEN r ELSE clients[d]
  BY <1>3
<1> QED
  BY <1>2, <1>4, <1>5

LEMMA NoClientIsNone == \A s : NoClient \notin DOMAIN s \/ s \notin Seq(Client)
BY SettingsAssumption DEF SettingsAssumption

LEMMA OneMade ==
  ASSUME NEW known \in Seq(Client), NEW setting \in Settings \cup {Unset},
         StartConfigured(setting, known)
  PROVE  /\ clients' \in Seq(Client) /\ client' \in DOMAIN clients'
         /\ client' \notin DOMAIN known /\ DOMAIN clients' = DOMAIN known \cup {client'}
         /\ clients'[client'].config = setting /\ clients'[client'].state = "starting"
         /\ \A d \in DOMAIN known : clients'[d] = known[d]
<1> DEFINE made == [config |-> setting, state |-> "starting"]
<1>1. made \in Client /\ made.config = setting /\ made.state = "starting"
  BY DEF StartConfigured, Client
<1>2. clients' = Append(known, made) /\ client' = Len(known) + 1
  BY DEF StartConfigured
<1> HIDE DEF made, Client
<1> QED
  BY <1>1, <1>2

-----------------------------------------------------------------------------
(***************************************************************************)
(* The steps of the system, by what they do to the clients and the tasks.  *)
(***************************************************************************)
Beginning == begun' = begun + 1 /\ overlapped' = (overlapped \/ Pending # {})

NewClient ==
  /\ Beginning /\ client = NoClient /\ StartClient(config', clients)
  /\ UNCHANGED <<deactivated, tasks>>
  /\ deactivated => begun = 0 \/ Pending # {}

NewStop == \E what \in {"restart", "deactivate"} :
  /\ Beginning /\ StopClient(begun, what)
  /\ IF what = "restart" THEN deactivated' = deactivated /\ (deactivated => Pending # {})
     ELSE deactivated' = TRUE /\ begun > 0

NothingToStop ==
  /\ Beginning /\ begun > 0 /\ client = NoClient /\ deactivated' = TRUE
  /\ UNCHANGED <<config, moduleVars, clients, tasks, abandoned, refused>>

StartsAgain == \E t \in Pending :
  /\ tasks[t].what = "restart" /\ StartClient(config, Becomes(tasks[t].client, "stopped"))
  /\ tasks' = Ended(t) /\ UNCHANGED <<config, deactivated, begun, overlapped>>

GoesNoFurther == \E t \in Pending :
  /\ tasks[t].what = "deactivate" /\ clients' = Becomes(tasks[t].client, "stopped")
  /\ tasks' = Ended(t)
  /\ UNCHANGED <<config, deactivated, moduleVars, begun, overlapped, abandoned, refused>>

LEMMA Steps ==
  ASSUME TypeInv, [Next]_vars
  PROVE  /\ config' \in Settings \cup {Unset}
         /\ \/ UNCHANGED vars
            \/ NewClient \/ NewStop \/ NothingToStop \/ StartsAgain \/ GoesNoFurther
            \/ StopRejects \/ StartSettles \/ ServerKilled
<1>1. /\ config \in Settings \cup {Unset} /\ begun \in Nat
      /\ \A t \in Pending : tasks[t].what \in {"restart", "deactivate"}
      /\ begun = 0 => client = NoClient
  BY DEF TypeInv, ValuesInv, TasksInv
<1>2. ASSUME NEW setting, Restart(setting), config' = setting, UNCHANGED deactivated
      PROVE  NewClient \/ NewStop
  <2>1. Beginning /\ (deactivated => Pending # {})
    BY <1>2 DEF Restart, Listening, Begin, Beginning
  <2>2. \/ StopClient(begun, "restart")
        \/ client = NoClient /\ StartClient(setting, clients) /\ UNCHANGED tasks
    BY <1>2 DEF Restart
  <2> QED
    BY <1>2, <2>1, <2>2 DEF NewClient, NewStop
<1>3. CASE Activate
  <2>1. NewClient /\ config' = config
    BY <1>1, <1>3 DEF Activate, Begin, Beginning, NewClient, hostVars
  <2> QED
    BY <1>1, <2>1
<1>4. CASE RestartCommand
  BY <1>1, <1>2, <1>4 DEF RestartCommand, hostVars
<1>5. CASE ConfigurationChanges
  <2>1. config' \in Settings \cup {Unset} /\ Restart(config') /\ UNCHANGED deactivated
    BY <1>5 DEF ConfigurationChanges
  <2> QED
    BY <1>2, <2>1
<1>6. CASE Deactivate
  BY <1>1, <1>6 DEF Deactivate, Begin, Beginning, NewStop, NothingToStop
<1>7. CASE StopResolves
  <2>1. PICK t \in Pending :
          /\ IF tasks[t].what = "restart"
             THEN StartClient(config, Becomes(tasks[t].client, "stopped"))
             ELSE /\ clients' = Becomes(tasks[t].client, "stopped")
                  /\ UNCHANGED <<moduleVars, abandoned, refused>>
          /\ tasks' = Ended(t)
          /\ UNCHANGED <<hostVars, begun, overlapped>>
    BY <1>7 DEF StopResolves
  <2>2. CASE tasks[t].what = "restart"
    BY <1>1, <2>1, <2>2 DEF StartsAgain, hostVars
  <2>3. CASE tasks[t].what # "restart"
    BY <1>1, <2>1, <2>3 DEF GoesNoFurther, hostVars
  <2> QED
    BY <2>2, <2>3
<1>8. CASE StopRejects \/ StartSettles \/ ServerKilled
  BY <1>1, <1>8 DEF StopRejects, StartSettles, ServerKilled, hostVars
<1>9. CASE UNCHANGED vars
  BY <1>1, <1>9 DEF vars, hostVars
<1> QED
  BY <1>3, <1>4, <1>5, <1>6, <1>7, <1>8, <1>9 DEF Next

(***************************************************************************)
(* The tasks after a step, and the stops that a step leaves alone.         *)
(***************************************************************************)
LEMMA TasksAfter ==
  ASSUME NEW t, tasks' = Ended(t)
  PROVE  Pending' = Pending \ {t} /\ \A u \in Pending \ {t} : tasks'[u] = tasks[u]
BY DEF Ended, Pending

LEMMA AwaitingAfter ==
  ASSUME NEW t, NEW what, NEW c, tasks' = Awaiting(t, what, c)
  PROVE  /\ Pending' = Pending \cup {t}
         /\ tasks'[t] = [what |-> what, client |-> c]
         /\ \A u \in Pending \ {t} : tasks'[u] = tasks[u]
BY DEF Awaiting, Pending

LEMMA MoreNumbers ==
  ASSUME NEW n \in Nat, NEW k \in {n, n + 1}
  PROVE  \A u \in 0..n - 1 : u \in 0..k - 1
OBVIOUS

\* Tasks may end; those that go on still await the stop of a client.
LEMMA TasksLeft ==
  ASSUME TypeInv, ValuesInv', begun' \in {begun, begun + 1},
         Pending' \subseteq Pending, \A t \in Pending' : tasks'[t] = tasks[t],
         DOMAIN clients \subseteq DOMAIN clients',
         \A t \in Pending' : /\ tasks[t].client \notin abandoned'
                             /\ clients'[tasks[t].client].state = "stopping",
         begun' = 0 => client' = NoClient
  PROVE  TasksInv'
<1>1. TasksInv /\ begun \in Nat
  BY DEF TypeInv, ValuesInv
<1>2. \A n \in 0..begun - 1 : n \in 0..begun' - 1
  BY <1>1, MoreNumbers
<1>3. Pending' \subseteq 0..begun' - 1
  BY <1>1, <1>2 DEF TasksInv
<1> QED
  BY <1>1, <1>3 DEF TasksInv

-----------------------------------------------------------------------------
(***************************************************************************)
(* Type correctness.                                                       *)
(***************************************************************************)
LEMMA ValuesStep == ASSUME TypeInv, [Next]_vars PROVE ValuesInv'
<1>1. warningShown \in BOOLEAN /\ begun \in Nat
  BY DEF TypeInv, ValuesInv
<1>2. warningShown' \in BOOLEAN
  BY <1>1, Steps DEF NewClient, NewStop, NothingToStop, StartsAgain, GoesNoFurther, StopRejects,
     StartSettles, ServerKilled, StartClient, StartIdle, StartConfigured, StopClient, vars, moduleVars
<1>3. begun' \in {begun, begun + 1}
  BY Steps DEF NewClient, NewStop, NothingToStop, StartsAgain, GoesNoFurther, StopRejects,
     StartSettles, ServerKilled, Beginning, vars
<1> QED
  BY <1>1, <1>2, <1>3, Steps DEF ValuesInv

(***************************************************************************)
(* startClient, with the clients that there are once a stop has ended:     *)
(* known differs from them at clients that the variable does not hold.     *)
(***************************************************************************)
LEMMA TypeStarts ==
  ASSUME TypeInv, ValuesInv', NEW known \in Seq(Client), StartClient(config', known),
         DOMAIN known = DOMAIN clients,
         client # NoClient => known[client] = clients[client],
         begun' \in {begun, begun + 1}, begun' # 0,
         Pending' \subseteq Pending, \A t \in Pending' : tasks'[t] = tasks[t],
         \A t \in Pending' : known[tasks[t].client].state = "stopping"
  PROVE  TypeInv'
<1>1. ClientsInv /\ TasksInv
  BY DEF TypeInv
<1>2. abandoned' = abandoned
  BY DEF StartClient
<1>3. CASE StartIdle(config') /\ clients' = known
  <2>1. client' = client /\ clients' = known
    BY <1>3 DEF StartIdle
  <2>2. ClientsInv'
    BY <1>1, <1>2, <2>1, NoClientIsNone DEF ClientsInv
  <2>3. TasksInv'
    BY <1>1, <1>2, <2>1, TasksLeft DEF TasksInv
  <2> QED
    BY <2>2, <2>3 DEF TypeInv
<1>4. CASE StartConfigured(config', known)
  <2>1. config' \in Settings \cup {Unset}
    BY DEF ValuesInv
  <2>2. /\ clients' \in Seq(Client) /\ client' \in DOMAIN clients'
        /\ client' \notin DOMAIN clients /\ DOMAIN clients' = DOMAIN clients \cup {client'}
        /\ clients'[client'].state = "starting"
        /\ \A d \in DOMAIN clients : clients'[d] = known[d]
    BY <1>4, <2>1, OneMade
  <2>3. ClientsInv'
    BY <1>1, <1>2, <2>2 DEF ClientsInv
  <2>4. \A t \in Pending' : /\ tasks[t].client \notin abandoned'
                             /\ clients'[tasks[t].client].state = "stopping"
    BY <1>1, <1>2, <2>2 DEF TasksInv
  <2>5. TasksInv'
    BY <2>2, <2>4, TasksLeft
  <2> QED
    BY <2>3, <2>5 DEF TypeInv
<1> QED
  BY <1>3, <1>4 DEF StartClient

LEMMA TypeStops ==
  ASSUME TypeInv, ValuesInv', begun' = begun + 1,
         NEW what \in {"restart", "deactivate"}, StopClient(begun, what)
  PROVE  TypeInv'
<1>1. ClientsInv /\ TasksInv /\ begun \in Nat
  BY DEF TypeInv, ValuesInv
<1>2. client # NoClient /\ client' = NoClient /\ client \in DOMAIN clients /\ begun' # 0
  BY <1>1 DEF StopClient, ClientsInv
<1>3. ClientsInv' /\ DOMAIN clients' = DOMAIN clients
  <2>1. CASE clients' = clients /\ abandoned' = abandoned \cup {client}
    BY <1>1, <1>2, <2>1 DEF ClientsInv
  <2>2. CASE clients' = Becomes(client, "stopping") /\ abandoned' = abandoned
    BY <1>1, <1>2, <2>2, OneBecomes DEF ClientsInv, States
  <2> QED
    BY <2>1, <2>2 DEF StopClient
<1>4. \A t \in Pending : tasks[t].client # client
  BY <1>1, <1>2 DEF ClientsInv, TasksInv
<1>5. CASE clients[client].state # "running"
  <2>1. clients' = clients /\ abandoned' = abandoned \cup {client} /\ tasks' = tasks
    BY <1>5 DEF StopClient
  <2>2. \A t \in Pending : /\ tasks[t].client \notin abandoned'
                            /\ clients'[tasks[t].client].state = "stopping"
    BY <1>1, <1>4, <2>1 DEF TasksInv
  <2>3. TasksInv'
    BY <1>2, <2>1, <2>2, TasksLeft DEF Pending
  <2> QED
    BY <1>3, <2>3 DEF TypeInv
<1>6. CASE clients[client].state = "running"
  <2>1. /\ clients' = Becomes(client, "stopping") /\ abandoned' = abandoned
        /\ tasks' = Awaiting(begun, what, client)
    BY <1>6 DEF StopClient
  <2>2. /\ clients'[client].state = "stopping"
        /\ \A d \in DOMAIN clients \ {client} : clients'[d].state = clients[d].state
    BY <1>1, <1>2, <2>1, OneBecomes DEF ClientsInv, States
  <2>3. /\ Pending' = Pending \cup {begun} /\ begun \notin Pending
        /\ tasks'[begun] = [what |-> what, client |-> client]
        /\ \A u \in Pending : tasks'[u] = tasks[u]
    <3>1. begun \notin Pending
      BY <1>1 DEF TasksInv
    <3>2. /\ Pending' = Pending \cup {begun}
          /\ tasks'[begun] = [what |-> what, client |-> client]
          /\ \A u \in Pending \ {begun} : tasks'[u] = tasks[u]
      BY <2>1, AwaitingAfter
    <3> QED
      BY <3>1, <3>2
  <2>4. Pending' \subseteq 0..begun' - 1
    BY <1>1, <2>3 DEF TasksInv
  <2>5. ASSUME NEW t \in Pending'
        PROVE  /\ tasks'[t].what \in {"restart", "deactivate"}
               /\ tasks'[t].client \in DOMAIN clients' \ abandoned'
               /\ clients'[tasks'[t].client].state = "stopping"
               /\ t # begun => tasks'[t].client # client
    <3>1. CASE t = begun
      BY <1>1, <1>2, <1>3, <2>1, <2>2, <2>3, <3>1 DEF ClientsInv
    <3>2. CASE t # begun
      BY <1>1, <1>3, <1>4, <2>1, <2>2, <2>3, <3>2 DEF TasksInv
    <3> QED
      BY <3>1, <3>2
  <2>6. ASSUME NEW t \in Pending', NEW u \in Pending', tasks'[t].client = tasks'[u].client
        PROVE  t = u
    <3>1. CASE t = begun \/ u = begun
      BY <2>3, <2>5, <2>6, <3>1
    <3>2. CASE t # begun /\ u # begun
      BY <1>1, <2>3, <2>6, <3>2 DEF TasksInv
    <3> QED
      BY <3>1, <3>2
  <2>7. TasksInv'
    BY <1>2, <2>4, <2>5, <2>6 DEF TasksInv
  <2> QED
    BY <1>3, <2>7 DEF TypeInv
<1> QED
  BY <1>5, <1>6

(***************************************************************************)
(* The clients once a stop has succeeded.                                  *)
(***************************************************************************)
LEMMA StopEnds ==
  ASSUME TypeInv, NEW t \in Pending
  PROVE  LET known == Becomes(tasks[t].client, "stopped")
         IN /\ known \in Seq(Client) /\ DOMAIN known = DOMAIN clients
            /\ \A d \in DOMAIN clients : known[d].config = clients[d].config
            /\ \A d \in DOMAIN clients \ {tasks[t].client} : known[d].state = clients[d].state
            /\ known[tasks[t].client].state = "stopped"
            /\ tasks[t].client # client
            /\ \A u \in Pending \ {t} : known[tasks[u].client].state = "stopping"
<1>1. ClientsInv /\ TasksInv
  BY DEF TypeInv
<1>2. tasks[t].client \in DOMAIN clients /\ clients \in Seq(Client) /\ "stopped" \in States
  BY <1>1 DEF ClientsInv, TasksInv, States
<1>3. \A u \in Pending \ {t} : tasks[u].client # tasks[t].client
  BY <1>1 DEF TasksInv
<1>4. tasks[t].client # client
  BY <1>1, <1>2, NoClientIsNone DEF ClientsInv, TasksInv
<1> QED
  BY <1>1, <1>2, <1>3, <1>4, OneBecomes DEF TasksInv

LEMMA TypeStep == ASSUME TypeInv, [Next]_vars PROVE TypeInv'
<1>1. ValuesInv /\ ClientsInv /\ TasksInv /\ ValuesInv'
  BY ValuesStep DEF TypeInv
<1>2. begun \in Nat /\ clients \in Seq(Client)
  BY <1>1 DEF ValuesInv, ClientsInv
<1>3. CASE UNCHANGED <<client, clients, tasks, abandoned>> /\ begun' \in {begun, begun + 1}
  <2>1. ClientsInv'
    BY <1>1, <1>3 DEF ClientsInv
  <2>2. Pending' = Pending /\ (begun' = 0 => client' = NoClient)
    BY <1>1, <1>2, <1>3 DEF Pending, TasksInv
  <2>3. TasksInv'
    BY <1>1, <1>3, <2>2, TasksLeft DEF TasksInv
  <2> QED
    BY <1>1, <2>1, <2>3 DEF TypeInv
<1>4. CASE NewClient
  <2>1. /\ StartClient(config', clients) /\ begun' = begun + 1 /\ tasks' = tasks
        /\ begun' # 0 /\ Pending' = Pending
    BY <1>2, <1>4 DEF NewClient, Beginning, Pending
  <2>2. \A t \in Pending' : clients[tasks[t].client].state = "stopping"
    BY <1>1, <2>1 DEF TasksInv
  <2> QED
    BY <1>1, <1>2, <2>1, <2>2, TypeStarts
<1>5. CASE NewStop
  BY <1>1, <1>5, TypeStops DEF NewStop, Beginning
<1>6. CASE StartsAgain
  <2>1. PICK t \in Pending :
          /\ StartClient(config', Becomes(tasks[t].client, "stopped"))
          /\ tasks' = Ended(t) /\ begun' = begun
    BY <1>6 DEF StartsAgain
  <2> DEFINE known == Becomes(tasks[t].client, "stopped")
  <2>2. /\ known \in Seq(Client) /\ DOMAIN known = DOMAIN clients
        /\ client # NoClient => known[client] = clients[client]
        /\ \A u \in Pending \ {t} : known[tasks[u].client].state = "stopping"
    <3>1. client # NoClient => known[client] = clients[client]
      <4>1. tasks[t].client # client
        BY StopEnds
      <4> QED
        BY <4>1 DEF Becomes
    <3> QED
      BY <3>1, StopEnds
  <2>3. Pending' = Pending \ {t} /\ \A u \in Pending' : tasks'[u] = tasks[u]
    BY <2>1, TasksAfter
  <2>4. begun' # 0
    BY <1>1, <1>2, <2>1 DEF TasksInv
  <2> HIDE DEF known
  <2>5. StartClient(config', known)
    BY <2>1 DEF known
  <2> QED
    BY <1>1, <2>1, <2>2, <2>3, <2>4, <2>5, TypeStarts
<1>7. CASE GoesNoFurther
  <2>1. PICK t \in Pending :
          /\ clients' = Becomes(tasks[t].client, "stopped") /\ tasks' = Ended(t)
          /\ UNCHANGED <<client, begun, abandoned>>
    BY <1>7 DEF GoesNoFurther, moduleVars
  <2>2. Pending' = Pending \ {t} /\ \A u \in Pending' : tasks'[u] = tasks[u]
    BY <2>1, TasksAfter
  <2>3. /\ clients' \in Seq(Client) /\ DOMAIN clients' = DOMAIN clients
        /\ \A d \in DOMAIN clients \ {tasks[t].client} : clients'[d].state = clients[d].state
        /\ tasks[t].client # client
        /\ \A u \in Pending' : clients'[tasks[u].client].state = "stopping"
    BY <2>1, <2>2, StopEnds
  <2>4. ClientsInv'
    BY <1>1, <2>1, <2>3 DEF ClientsInv
  <2>5. TasksInv'
    BY <1>1, <2>1, <2>2, <2>3, TasksLeft DEF TasksInv
  <2> QED
    BY <1>1, <2>4, <2>5 DEF TypeInv
<1>8. CASE StopRejects
  <2>1. PICK t \in Pending :
          /\ tasks' = Ended(t) /\ abandoned' = abandoned \cup {tasks[t].client}
          /\ UNCHANGED <<client, clients, begun>>
    BY <1>8 DEF StopRejects, moduleVars
  <2>2. Pending' = Pending \ {t} /\ \A u \in Pending' : tasks'[u] = tasks[u]
    BY <2>1, TasksAfter
  <2>3. tasks[t].client # client /\ tasks[t].client \in DOMAIN clients
    BY <1>1, StopEnds DEF TasksInv
  <2>4. ClientsInv'
    BY <1>1, <2>1, <2>3 DEF ClientsInv
  <2>5. \A u \in Pending' : /\ tasks[u].client \notin abandoned'
                             /\ clients'[tasks[u].client].state = "stopping"
    BY <1>1, <2>1, <2>2 DEF TasksInv
  <2>6. TasksInv'
    BY <1>1, <2>1, <2>2, <2>5, TasksLeft DEF TasksInv
  <2> QED
    BY <1>1, <2>4, <2>6 DEF TypeInv
<1>9. CASE StartSettles \/ ServerKilled
  <2>1. PICK c \in DOMAIN clients, state \in States \ {"stopping"} :
          /\ clients' = Becomes(c, state)
          /\ \/ clients[c].state = "starting" /\ state \in {"running", "failed"}
             \/ c \in abandoned
          /\ UNCHANGED <<client, tasks, begun, abandoned>>
    <3>1. CASE StartSettles
      BY <3>1 DEF StartSettles, moduleVars, States
    <3>2. CASE ServerKilled
      BY <1>1, <3>2 DEF ServerKilled, moduleVars, States, ClientsInv
    <3> QED
      BY <1>9, <3>1, <3>2
  <2>2. /\ clients' \in Seq(Client) /\ DOMAIN clients' = DOMAIN clients
        /\ \A d \in DOMAIN clients : clients'[d].state = IF d = c THEN state ELSE clients[d].state
    BY <1>2, <2>1, OneBecomes
  <2>3. ClientsInv'
    BY <1>1, <2>1, <2>2 DEF ClientsInv
  <2>4. Pending' = Pending
    BY <2>1 DEF Pending
  <2>5. \A u \in Pending' : /\ tasks[u].client \notin abandoned'
                             /\ clients'[tasks[u].client].state = "stopping"
    BY <1>1, <2>1, <2>2, <2>4 DEF TasksInv
  <2>6. TasksInv'
    BY <1>1, <2>1, <2>2, <2>4, <2>5, TasksLeft DEF TasksInv
  <2> QED
    BY <1>1, <2>3, <2>6 DEF TypeInv
<1>10. UNCHANGED vars \/ NothingToStop => UNCHANGED <<client, clients, tasks, abandoned>> /\ begun' \in {begun, begun + 1}
  BY DEF NothingToStop, Beginning, vars, moduleVars
<1> QED
  BY <1>3, <1>4, <1>5, <1>6, <1>7, <1>8, <1>9, <1>10, Steps

LEMMA TypeAlways == Spec => []TypeInv
<1>1. ASSUME Init PROVE TypeInv
  <2>1. clients = << >> /\ abandoned = {} /\ client = NoClient /\ Pending = {}
    BY <1>1 DEF Init, Pending
  <2>2. ValuesInv
    BY <1>1 DEF Init, ValuesInv
  <2>3. ClientsInv
    BY <2>1 DEF ClientsInv
  <2>4. TasksInv
    BY <2>1 DEF TasksInv
  <2> QED
    BY <2>2, <2>3, <2>4 DEF TypeInv
<1>2. TypeInv /\ [Next]_vars => TypeInv'
  BY TypeStep
<1> QED
  BY <1>1, <1>2, PTL DEF Spec

(***************************************************************************)
(* The variable of extension.js never holds a client that a restart or     *)
(* deactivation is stopping, or has been refused to stop, and no two of    *)
(* them stop one client, however many restarts overlap.                    *)
(***************************************************************************)
THEOREM VSCodeClientTypeCorrect == Spec => []TypeOK
<1>1. TypeInv => TypeOK
  BY DEF TypeInv, TypeOK, ValuesInv, ClientsInv, TasksInv
<1> QED
  BY <1>1, TypeAlways, PTL

-----------------------------------------------------------------------------
(***************************************************************************)
(* The settings.                                                           *)
(***************************************************************************)

(***************************************************************************)
(* After startClient the variable holds a client of the settings it was    *)
(* called with, or these are none and the user has been told.              *)
(***************************************************************************)
LEMMA StartAgrees ==
  ASSUME NEW known \in Seq(Client), config' \in Settings \cup {Unset},
         StartClient(config', known),
         client # NoClient => known[client].config = config'
  PROVE  Agrees' /\ (client' = NoClient => WantsNone')
<1>1. CASE StartIdle(config') /\ clients' = known
  BY <1>1 DEF StartIdle, Agrees, WantsNone
<1>2. CASE StartConfigured(config', known)
  <2>1. /\ clients' \in Seq(Client) /\ client' \in DOMAIN clients'
        /\ clients'[client'].config = config'
    BY <1>2, OneMade
  <2> QED
    BY <2>1, NoClientIsNone DEF Agrees
<1> QED
  BY <1>1, <1>2 DEF StartClient

LEMMA SettingsStep == ASSUME TypeInv, SettingsInv, [Next]_vars PROVE SettingsInv'
<1>1. /\ ClientsInv /\ clients \in Seq(Client) /\ begun \in Nat /\ TasksInv
      /\ config' \in Settings \cup {Unset}
  BY Steps DEF TypeInv, ValuesInv, ClientsInv
<1>2. Agrees /\ (Owed => WantsNone)
  BY DEF SettingsInv
<1>3. SUFFICES Agrees' /\ (Owed' => WantsNone')
  BY DEF SettingsInv
<1>4. CASE UNCHANGED vars
  BY <1>2, <1>4 DEF Agrees, Owed, WantsNone, Pending, vars, hostVars, moduleVars
<1>5. CASE NewClient
  BY <1>1, <1>5, StartAgrees DEF NewClient, Owed
<1>6. CASE NewStop
  <2>1. PICK what \in {"restart", "deactivate"} :
          /\ StopClient(begun, what)
          /\ what = "deactivate" => deactivated' = TRUE
    BY <1>6 DEF NewStop
  <2>2. client' = NoClient
    BY <2>1 DEF StopClient
  <2>3. CASE clients[client].state = "running"
    <3>1. tasks' = Awaiting(begun, what, client)
      BY <2>1, <2>3 DEF StopClient
    <3>2. begun \in Pending' /\ tasks'[begun] = [what |-> what, client |-> client]
      BY <3>1, AwaitingAfter
    <3>3. tasks'[begun].what = what
      BY ONLY <3>2
    <3> QED
      BY <2>1, <2>2, <3>2, <3>3 DEF Agrees, Owed
  <2>4. CASE clients[client].state # "running"
    BY <2>1, <2>2, <2>4 DEF StopClient, Agrees, Owed
  <2> QED
    BY <2>3, <2>4
<1>7. CASE NothingToStop
  BY <1>2, <1>7 DEF NothingToStop, Agrees, Owed, moduleVars
<1>8. CASE StartsAgain
  <2>1. PICK t \in Pending :
          StartClient(config', Becomes(tasks[t].client, "stopped")) /\ config' = config
    BY <1>8 DEF StartsAgain
  <2> DEFINE known == Becomes(tasks[t].client, "stopped")
  <2>2. known \in Seq(Client) /\ \A d \in DOMAIN clients : known[d].config = clients[d].config
    BY StopEnds
  <2>3. client # NoClient => known[client].config = config'
    BY <1>1, <1>2, <2>1, <2>2 DEF Agrees, ClientsInv
  <2> HIDE DEF known
  <2>4. StartClient(config', known)
    BY <2>1 DEF known
  <2> QED
    BY <1>1, <2>2, <2>3, <2>4, StartAgrees DEF Owed
<1>9. CASE GoesNoFurther
  <2>1. PICK t \in Pending :
          /\ tasks[t].what = "deactivate"
          /\ clients' = Becomes(tasks[t].client, "stopped") /\ tasks' = Ended(t)
          /\ UNCHANGED <<config, deactivated, client, warningShown, begun, refused>>
    BY <1>9 DEF GoesNoFurther, moduleVars
  <2>2. \A d \in DOMAIN clients : clients'[d].config = clients[d].config
    BY <2>1, StopEnds
  <2>3. Agrees'
    BY <1>1, <1>2, <2>1, <2>2 DEF Agrees, ClientsInv
  <2>4. \A u \in Pending \ {t} : u \in Pending' /\ tasks'[u] = tasks[u]
    BY <2>1, TasksAfter
  <2>5. Owed' => Owed
    BY <2>1, <2>4 DEF Owed
  <2> QED
    BY <1>2, <2>1, <2>3, <2>5 DEF WantsNone
<1>10. CASE StopRejects
  BY <1>2, <1>10 DEF StopRejects, Agrees, Owed, hostVars, moduleVars
<1>11. CASE StartSettles \/ ServerKilled
  <2>1. PICK c \in DOMAIN clients, state \in States :
          /\ clients' = Becomes(c, state)
          /\ UNCHANGED <<config, deactivated, client, warningShown, tasks, begun, refused>>
    BY <1>1, <1>11 DEF StartSettles, ServerKilled, hostVars, moduleVars, States, ClientsInv
  <2>2. \A d \in DOMAIN clients : clients'[d].config = clients[d].config
    BY <1>1, <2>1, OneBecomes
  <2>3. Agrees'
    BY <1>1, <1>2, <2>1, <2>2 DEF Agrees, ClientsInv
  <2> QED
    BY <1>2, <2>1, <2>3 DEF Owed, WantsNone, Pending
<1> QED
  BY <1>4, <1>5, <1>6, <1>7, <1>8, <1>9, <1>10, <1>11, Steps

(***************************************************************************)
(* When all restarts have ended, the client has the present settings, or   *)
(* there is none because there are none and the user has been told, or     *)
(* because a stop was rejected since: however restarts and changes of the  *)
(* settings overlapped.                                                    *)
(***************************************************************************)
THEOREM RestartsSettle == Spec => []SettlesOnPresentSettings
<1>1. Init => SettingsInv
  BY DEF Init, SettingsInv, Agrees, Owed
<1>2. TypeInv /\ SettingsInv /\ [Next]_vars => SettingsInv'
  BY SettingsStep
<1>3. TypeInv /\ SettingsInv => SettlesOnPresentSettings
  BY DEF TypeInv, ValuesInv, ClientsInv, SettingsInv, Agrees, Owed, WantsNone, SettlesOnPresentSettings
<1> QED
  BY <1>1, <1>2, <1>3, TypeAlways, PTL DEF Spec

-----------------------------------------------------------------------------
(***************************************************************************)
(* One server at a time.                                                   *)
(***************************************************************************)
Up == {"starting", "running", "stopping"}

\* A start when no client is live that has not been abandoned.
LEMMA OneStarts ==
  ASSUME TypeInv, NEW known \in Seq(Client), config' \in Settings \cup {Unset},
         DOMAIN known = DOMAIN clients, StartClient(config', known),
         \A c \in DOMAIN clients \ abandoned : known[c].state \notin Up,
         Pending' = {}, ~deactivated'
  PROVE  Alone'
<1>1. abandoned' = abandoned
  BY DEF StartClient
<1>2. CASE clients' = known
  BY <1>1, <1>2 DEF Alone, Live, Up
<1>3. CASE StartConfigured(config', known)
  <2>1. /\ DOMAIN clients' = DOMAIN clients \cup {client'}
        /\ \A d \in DOMAIN clients : clients'[d] = known[d]
    BY <1>3, OneMade
  <2> QED
    BY <1>1, <2>1 DEF Alone, Live, Up
<1> QED
  BY <1>2, <1>3 DEF StartClient, StartIdle

LEMMA OneStep == ASSUME TypeInv, OneInv, [Next]_vars PROVE OneInv'
<1>1. /\ ClientsInv /\ clients \in Seq(Client) /\ begun \in Nat /\ TasksInv
      /\ config' \in Settings \cup {Unset} /\ NoClient \notin DOMAIN clients
  BY Steps, NoClientIsNone DEF TypeInv, ValuesInv, ClientsInv
<1>2. (begun = 0 => ~deactivated) /\ (~overlapped => Alone)
  BY DEF OneInv
<1>3. SUFFICES (begun' = 0 => ~deactivated') /\ (~overlapped' => Alone')
  BY DEF OneInv
<1>4. CASE UNCHANGED vars
  BY <1>2, <1>4 DEF Alone, Pending, Live, vars, hostVars, moduleVars
<1>5. CASE NewClient
  <2>1. /\ begun' = begun + 1 /\ overlapped' = (overlapped \/ Pending # {})
        /\ client = NoClient /\ StartClient(config', clients) /\ UNCHANGED <<deactivated, tasks>>
        /\ deactivated => begun = 0 \/ Pending # {}
    BY <1>5 DEF NewClient, Beginning
  <2>2. ASSUME ~overlapped'
        PROVE  Alone'
    <3>1. ~overlapped /\ Pending = {} /\ ~deactivated
      BY <1>2, <2>1, <2>2
    <3>2. Live \ abandoned = {}
      BY <1>1, <1>2, <2>1, <3>1 DEF Alone, Live
    <3>3. \A c \in DOMAIN clients \ abandoned : clients[c].state \notin Up
      BY <3>2 DEF Live, Up
    <3> QED
      BY <1>1, <2>1, <3>1, <3>3, OneStarts DEF Pending
  <2> QED
    BY <1>1, <2>1, <2>2
<1>6. CASE NewStop
  <2>1. PICK what \in {"restart", "deactivate"} :
          /\ begun' = begun + 1 /\ overlapped' = (overlapped \/ Pending # {})
          /\ StopClient(begun, what)
          /\ IF what = "restart" THEN deactivated' = deactivated /\ (deactivated => Pending # {})
             ELSE deactivated' = TRUE
    BY <1>6 DEF NewStop, Beginning
  <2>2. ASSUME ~overlapped'
        PROVE  Alone'
    <3>1. ~overlapped /\ Pending = {} /\ Alone
      BY <1>2, <2>1, <2>2
    <3>2. client' = NoClient /\ client # NoClient /\ client \in DOMAIN clients
      BY <1>1, <2>1 DEF StopClient, ClientsInv
    <3>3. \A c \in Live \ abandoned : c = client
      BY <3>1 DEF Alone
    <3>4. CASE clients[client].state # "running"
      <4>1. clients' = clients /\ abandoned' = abandoned \cup {client} /\ Pending' = {}
        BY <2>1, <3>1, <3>4 DEF StopClient, Pending
      <4>2. Live' \ abandoned' = {}
        BY <3>3, <4>1 DEF Live
      <4> QED
        BY <3>2, <4>1, <4>2 DEF Alone
    <3>5. CASE clients[client].state = "running"
      <4>1. /\ clients' = Becomes(client, "stopping") /\ abandoned' = abandoned
            /\ tasks' = Awaiting(begun, what, client)
        BY <2>1, <3>5 DEF StopClient
      <4>2. Pending' = {begun} /\ tasks'[begun] = [what |-> what, client |-> client]
        BY <3>1, <4>1, AwaitingAfter
      <4>3. tasks'[begun].client = client /\ tasks'[begun].what = what
        BY ONLY <4>2
      <4>4. Live' \subseteq Live
        BY <1>1, <3>2, <3>5, <4>1, OneBecomes DEF Live, States
      <4>5. deactivated' => what = "deactivate"
        BY <2>1, <3>1
      <4> QED
        BY <3>2, <3>3, <4>1, <4>2, <4>3, <4>4, <4>5 DEF Alone
    <3> QED
      BY <3>4, <3>5
  <2> QED
    BY <1>1, <2>1, <2>2
<1>7. CASE NothingToStop
  <2>1. /\ begun' = begun + 1 /\ overlapped' = (overlapped \/ Pending # {}) /\ client = NoClient
        /\ UNCHANGED <<client, clients, tasks, abandoned>>
    BY <1>7 DEF NothingToStop, Beginning, moduleVars
  <2>2. Live' = Live /\ Pending' = Pending
    BY <2>1 DEF Live, Pending
  <2>3. ~overlapped' => Alone'
    BY <1>2, <2>1, <2>2 DEF Alone
  <2> QED
    BY <1>1, <2>1, <2>3
<1>8. CASE StartsAgain
  <2>1. PICK t \in Pending :
          /\ tasks[t].what = "restart" /\ StartClient(config', Becomes(tasks[t].client, "stopped"))
          /\ tasks' = Ended(t) /\ UNCHANGED <<deactivated, begun, overlapped>>
    BY <1>8 DEF StartsAgain
  <2> DEFINE known == Becomes(tasks[t].client, "stopped")
  <2>2. /\ known \in Seq(Client) /\ DOMAIN known = DOMAIN clients
        /\ \A d \in DOMAIN clients \ {tasks[t].client} : known[d].state = clients[d].state
        /\ known[tasks[t].client].state = "stopped"
    BY StopEnds
  <2> HIDE DEF known
  <2>3. StartClient(config', known)
    BY <2>1 DEF known
  <2>4. ASSUME ~overlapped'
        PROVE  Alone'
    <3>1. Alone /\ Pending = {t} /\ client = NoClient /\ ~deactivated
      BY <1>2, <2>1, <2>4 DEF Alone
    <3>2. \A c \in Live \ abandoned : c = tasks[t].client
      BY <1>1, <3>1 DEF Alone, Live
    <3>3. \A c \in DOMAIN clients \ abandoned : known[c].state \notin Up
      BY <2>2, <3>2 DEF Live, Up
    <3>4. Pending' = {}
      BY <2>1, <3>1, TasksAfter
    <3> QED
      BY <1>1, <2>1, <2>2, <2>3, <3>1, <3>3, <3>4, OneStarts
  <2> QED
    BY <1>2, <2>1, <2>4
<1>9. CASE GoesNoFurther
  <2>1. PICK t \in Pending :
          /\ clients' = Becomes(tasks[t].client, "stopped") /\ tasks' = Ended(t)
          /\ UNCHANGED <<deactivated, client, begun, overlapped, abandoned>>
    BY <1>9 DEF GoesNoFurther, moduleVars
  <2>2. ASSUME ~overlapped'
        PROVE  Alone'
    <3>1. Alone /\ Pending = {t} /\ client = NoClient
      BY <1>2, <2>1, <2>2 DEF Alone
    <3>2. Pending' = {}
      BY <2>1, <3>1, TasksAfter
    <3>3. /\ DOMAIN clients' = DOMAIN clients /\ clients'[tasks[t].client].state = "stopped"
          /\ \A d \in DOMAIN clients \ {tasks[t].client} : clients'[d].state = clients[d].state
      BY <2>1, StopEnds
    <3>4. Live' \ abandoned = {}
      BY <1>1, <3>1, <3>3 DEF Alone, Live
    <3> QED
      BY <2>1, <3>1, <3>2, <3>4 DEF Alone
  <2> QED
    BY <1>2, <2>1, <2>2
<1>10. CASE StopRejects
  <2>1. PICK t \in Pending :
          /\ tasks' = Ended(t) /\ abandoned' = abandoned \cup {tasks[t].client}
          /\ UNCHANGED <<deactivated, client, clients, begun, overlapped>>
    BY <1>10 DEF StopRejects, hostVars, moduleVars
  <2>2. ASSUME ~overlapped'
        PROVE  Alone'
    <3>1. Alone /\ Pending = {t} /\ client = NoClient
      BY <1>2, <2>1, <2>2 DEF Alone
    <3>2. Pending' = {}
      BY <2>1, <3>1, TasksAfter
    <3>3. Live' \ abandoned' = {}
      BY <1>1, <2>1, <3>1 DEF Alone, Live
    <3> QED
      BY <2>1, <3>1, <3>2, <3>3 DEF Alone
  <2> QED
    BY <1>2, <2>1, <2>2
<1>11. CASE StartSettles \/ ServerKilled
  <2>1. PICK c \in DOMAIN clients, state \in States :
          /\ clients' = Becomes(c, state)
          /\ c \in Live \/ state \notin Up
          /\ UNCHANGED <<deactivated, client, tasks, begun, overlapped, abandoned>>
    BY <1>1, <1>11 DEF StartSettles, ServerKilled, hostVars, moduleVars, States, ClientsInv, Live, Up
  <2>2. Live' \subseteq Live
    BY <1>1, <2>1, OneBecomes DEF Live, Up
  <2> QED
    BY <1>2, <2>1, <2>2 DEF Alone, Pending
<1> QED
  BY <1>4, <1>5, <1>6, <1>7, <1>8, <1>9, <1>10, <1>11, Steps

LEMMA OneTells == TypeInv /\ OneInv => OneServerAtATime
<1> SUFFICES ASSUME TypeInv, OneInv, ~overlapped
             PROVE  /\ Cardinality(Live \ abandoned) <= 1
                    /\ (deactivated /\ Pending = {}) => Live \subseteq abandoned
  BY DEF OneServerAtATime
<1>1. Alone /\ NoClient \notin Live
  BY NoClientIsNone DEF OneInv, TypeInv, ClientsInv, Live
<1>2. \E x : Live \ abandoned \subseteq {x}
  BY <1>1 DEF Alone
<1>3. Live \ abandoned = {} \/ \E x : Live \ abandoned = {x}
  BY <1>2
<1>4. Cardinality(Live \ abandoned) <= 1
  <2>1. CASE Live \ abandoned = {}
    BY <2>1, FS_EmptySet
  <2>2. CASE \E x : Live \ abandoned = {x}
    <3>1. PICK x : Live \ abandoned = {x}
      BY <2>2
    <3>2. Cardinality({x}) = 1
      BY FS_Singleton
    <3> QED
      BY <3>1, <3>2
  <2> QED
    BY <1>3, <2>1, <2>2
<1> QED
  BY <1>1, <1>4 DEF Alone

(***************************************************************************)
(* Activation, restarts and deactivation that do not overlap never run two *)
(* servers at once that the library has not refused to stop, and leave     *)
(* none but such when VS Code is done with the extension.                  *)
(***************************************************************************)
THEOREM NeverTwoServers == Spec => []OneServerAtATime
<1>1. ASSUME Init PROVE OneInv
  <2>1. Pending = {} /\ Live = {} /\ ~deactivated
    BY <1>1 DEF Init, Pending, Live
  <2> QED
    BY <2>1 DEF OneInv, Alone
<1>2. TypeInv /\ OneInv /\ [Next]_vars => OneInv'
  BY OneStep
<1> QED
  BY <1>1, <1>2, OneTells, TypeAlways, PTL DEF Spec
=============================================================================
