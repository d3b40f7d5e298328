------------------------------- MODULE Manager -------------------------------
(***************************************************************************)
(* The processes of the extension (cmd/gardener-extension-shoot-flux): how *)
(* the command line of a replica becomes the settings of its controllers,  *)
(* by way of the options, the package variables DefaultAddOptions and the  *)
(* registration with the manager, and which replica runs its controllers.  *)
(* A replica may stop at any time and is started again, perhaps with       *)
(* another command line.                                                   *)
(*                                                                         *)
(* The lease itself is the manager's: here a replica leads until it stops. *)
(* With --disable-controllers the extension controller is not added; that  *)
(* switch is left out.                                                     *)
(***************************************************************************)
EXTENDS Naturals

CONSTANTS
  Replicas,
  Values,        \* values of settings
  DefaultValue,  \* Settings -> the default of the flag
  Zero,          \* what a setting is that nobody has set: "", 0 or false
  CommandLines,  \* the command lines of the Deployment, one after the other
  NotGiven,      \* the command line does not have the flag
  Nobody,        \* no replica leads
  MaxStops       \* bound: replicas that are stopped or crash

Settings == {"gardenClusterIdentity", "maxConcurrentReconciles",
             "healthcheckMaxConcurrentReconciles", "heartbeatNamespace",
             "ignoreOperationAnnotation"}

ASSUME SettingsAssumption ==
  /\ DefaultValue \in [Settings -> Values \union {Zero}]
  /\ CommandLines \subseteq [Settings -> Values \union {NotGiven}]
  /\ NotGiven \notin Values /\ Zero \notin Values
  /\ Nobody \notin Replicas
  /\ MaxStops \in Nat

VARIABLES
  commandLine,  \* Replicas -> its flags
  stage,        \* Replicas -> how far its start has come
  options,      \* Replicas -> the options struct
  defaults,     \* Replicas -> the package variables DefaultAddOptions
  added,        \* Replicas -> what its controllers were added with
  leader,       \* the replica that runs its controllers, or Nobody
  stops         \* used budget

managerVars == <<commandLine, stage, options, defaults, added, leader, stops>>

Stages == {"parse", "complete", "run", "add", "start", "started"}

Unset == [s \in Settings |-> Zero]

(* What the command line of a replica asks for.                            *)
Requested(p) ==
  [s \in Settings |-> IF commandLine[p][s] = NotGiven THEN DefaultValue[s]
                      ELSE commandLine[p][s]]

ManagerInit ==
  /\ commandLine \in [Replicas -> CommandLines]
  /\ stage = [p \in Replicas |-> "parse"]
  /\ options = [p \in Replicas |-> Unset]
  /\ defaults = [p \in Replicas |-> Unset]
  /\ added = [p \in Replicas |-> Unset]
  /\ leader = Nobody
  /\ stops = 0

Advance(p, from, to) ==
  /\ stage[p] = from
  /\ stage' = [stage EXCEPT ![p] = to]

(* newOptions has the defaults; the flags that are given replace them.     *)
NewCommand(p) ==
  /\ Advance(p, "parse", "complete")
  /\ options' = [options EXCEPT ![p] = Requested(p)]
  /\ UNCHANGED <<commandLine, defaults, added, leader, stops>>

(* Complete builds the options of the manager; Validate refuses a heartbeat *)
(* without a namespace (the default is one of the environment), and then    *)
(* the process ends.                                                       *)
Complete(p) ==
  /\ options[p]["heartbeatNamespace"] # Zero
  /\ Advance(p, "complete", "run")
  /\ UNCHANGED <<commandLine, options, defaults, added, leader, stops>>

(* The settings that run hands over to the controllers' packages.          *)
Applied == Settings \ {"ignoreOperationAnnotation"}

Apply(p, from, to) ==
  /\ Advance(p, from, to)
  /\ defaults' = [defaults EXCEPT ![p] =
       [s \in Settings |-> IF s \in Applied THEN options[p][s] ELSE @[s]]]
  /\ UNCHANGED <<commandLine, options, added, leader, stops>>

AddToManager(p, from, to) ==
  /\ Advance(p, from, to)
  /\ added' = [added EXCEPT ![p] = defaults[p]]
  /\ UNCHANGED <<commandLine, options, defaults, leader, stops>>

(* Mutant: run adds the controllers before it applies the options.         *)
Run_AddsFirst(p) == AddToManager(p, "run", "add") \/ Apply(p, "add", "start")

Run(p) == Apply(p, "run", "add") \/ AddToManager(p, "add", "start")

StartManager(p) ==
  /\ Advance(p, "start", "started")
  /\ UNCHANGED <<commandLine, options, defaults, added, leader, stops>>

(* Leader election: the controllers of the manager start.                  *)
Lead(p) ==
  /\ stage[p] = "started"
  /\ leader = Nobody
  /\ leader' = p
  /\ UNCHANGED <<commandLine, stage, options, defaults, added, stops>>

Start(p) == NewCommand(p) \/ Complete(p) \/ Run(p) \/ StartManager(p)

(* The process ends: a signal, the loss of the lease, a crash. The pod is  *)
(* started again, or replaced by one of a new version of the Deployment.   *)
Stop(p) ==
  /\ stops < MaxStops
  /\ stops' = stops + 1
  /\ stage' = [stage EXCEPT ![p] = "parse"]
  /\ options' = [options EXCEPT ![p] = Unset]
  /\ defaults' = [defaults EXCEPT ![p] = Unset]
  /\ added' = [added EXCEPT ![p] = Unset]
  /\ \E c \in CommandLines : commandLine' = [commandLine EXCEPT ![p] = c]
  /\ leader' = IF leader = p THEN Nobody ELSE leader

ManagerTypeOK ==
  /\ commandLine \in [Replicas -> CommandLines]
  /\ stage \in [Replicas -> Stages]
  /\ options \in [Replicas -> [Settings -> Values \union {Zero}]]
  /\ defaults \in [Replicas -> [Settings -> Values \union {Zero}]]
  /\ added \in [Replicas -> [Settings -> Values \union {Zero}]]
  /\ leader \in Replicas \union {Nobody}
  /\ stops \in 0 .. MaxStops

(* A replica that leads runs its controllers with the settings of its own  *)
(* command line, whatever restarts it has been through: run sets the       *)
(* package variables before the controllers copy them (cmd.go:67-72).      *)
ControllersConfigured ==
  leader # Nobody =>
    \A s \in Applied : added[leader][s] = Requested(leader)[s]

(* add.go:28 says that the option IgnoreOperationAnnotation specifies       *)
(* whether to ignore the operation annotation, and the chart passes the     *)
(* flag (deployment.yaml:54): it, too, reaches the controllers of a leader. *)
FlagReachesController ==
  leader # Nobody =>
    LET s == "ignoreOperationAnnotation" IN
      commandLine[leader][s] # NotGiven => added[leader][s] = commandLine[leader][s]

=============================================================================
