# gardener-extension-shoot-flux: verification

TLA+ models of the Gardener extension `shoot-flux`, TLC configurations that check
them on small instances, and theorems about them that TLAPS checks for every
value of the constants.  Paths and line numbers are those of the repository.

## The system

The extension runs in a seed.  Its *Extension controller* reconciles `Extension`
resources of type `shoot-flux`: it installs Flux in the shoot, copies credentials,
deploys one source (GitRepository or OCIRepository) and one Kustomization, waits for
each, and marks the Extension with the condition `FluxBootstrapped`.  From then on the
Flux resources belong to the user, and only copied secrets and the ConfigMap
`shoot-info` are kept up to date.

| part | state | operations | talks to |
|---|---|---|---|
| Extension actuator, `pkg/controller/extension/actuator.go` | none of its own; the condition in `Extension.status` is its only memory | `Reconcile`, `Delete`, `ForceDelete`, `Migrate`, `Restore` | Extension and Cluster in the seed; namespaces, Flux objects, ConfigMap in the shoot |
| `ReconcileSecrets`, `secrets.go` | managed-by label of the copies in the shoot; the local set `secretsToKeep` | copy every reference, list, delete the rest | secrets the gardenlet puts in the seed; secrets of the shoot |
| `ReconcileShootInfoConfigMap`, `actuator.go:155` | the ConfigMap | read, render, write | Cluster in the seed, the setting of the garden's identity, the user |
| `WaitForObject`, `CheckFluxObject` | last error, clock | poll until healthy, failed, timed out or cancelled | Flux controllers, through the Ready condition |
| FluxConfig API, `pkg/apis/flux/v1alpha1` | none | decode, four defaulting functions in a fixed order, validate | the actuator, with every reconciliation |
| health check controller, `pkg/controller/healthcheck` | none | removes a condition earlier versions wrote | the same Extension status |
| command line and registration, `cmd/`, `add.go` | options, package variables `DefaultAddOptions`, what the controllers were added with | parse, complete, hand over, add, start | the manager with its leader election; the actuator, which gets its settings this way |

What makes it hard: an attempt takes up to eleven minutes of waiting, during which the
gardenlet changes the config, removes the Extension or hibernates the shoot, the health
check controller writes the same status, the user changes or deletes what was deployed,
and the controller may die; the marking patch is computed from an Extension read at the
beginning.  Readiness is reported by controllers that the extension has only just
installed.  Secrets and ConfigMap are written by read-then-write calls, with the user and the
gardenlet writing in between; and a call whose pass has failed or whose process has stopped
may still take effect while the next pass, perhaps of another replica, is at work.  The
config goes through functions whose order matters; settings travel through
package variables that are copied at a certain moment.

What makes each part correct:

* actuator: the marker is only set for a config that is deployed, is never lost while the
  Extension lives, takes no other condition with it, and really freezes the Flux
  resources; every config that can come up is bootstrapped at last; later changes
  of the config reach the secrets.
* `ReconcileSecrets`: no credential in use is deleted, nothing is left over, the shoot
  converges to the seed.
* shoot-info: it converges to what Cluster and command line say; no predecessor of a leader
  undoes its work.
* `WaitForObject`: success means that the object was read as healthy, readiness in time
  is not missed, the error is the last one, and every wait ends.
* FluxConfig: what is accepted fits together (source, reference, namespace, credentials,
  components) and keeps what the user wrote.
* start-up: a leader's controllers run with the settings of its own command line.

## The modules

| module | models |
|---|---|
| `Bootstrap` | the promise of the actuator, abstractly: resources are deployed while bootstrapping, handed over once a whole config is deployed, and not written while managed |
| `FluxActuator` | `Reconcile` and the other handlers, step by step, with everything around them; refines `Bootstrap` |
| `SecretSync` | the promise of a pass over the secrets, without the calls it is made of |
| `ReconcileSecrets` | `secrets.go`, API call by API call; refines `SecretSync` |
| `Manager` | the replicas: command line, start, leadership, stop |
| `ShootInfo` | extends `Manager` with `ReconcileShootInfoConfigMap` in the leader, call by call |
| `WaitForObject` | the poll loop, with a clock |
| `FluxConfig` | decoding, defaulting, validation |
| `FluxActuator_proofs`, `SecretSync_proofs`, `ReconcileSecrets_proofs`, `ShootInfo_proofs`, `WaitForObject_proofs`, `FluxConfig_proofs` | the theorems |
| `MC...` | instances for TLC; the cfgs give the bounds |

How they fit together: `FluxActuator` takes `ReconcileSecrets`, `ReconcileShootInfoConfigMap` and
every wait as single steps, and the detailed modules are checked to be what it takes them for
(`PassIsOneStep`, `InfoConverges`, `NilMeansHealthy`).  `FluxActuator` knows a config by its accepted
form; `FluxConfig` is where that form comes from.

### FluxActuator

State: `ext` with a resourceVersion `rv`, the true conditions `conds`, the decoded and defaulted
`config`, and the operation `op` the generic reconciler dispatches on; the shoot as
`namespaces`, `obj` (installation, sources and Kustomizations by namespace, each with
its spec, its Ready condition and whether that is of the current generation), `secrets`, `info` (where
shoot-info is); the worker as `pc` and `att`, the Extension as it read it.
History variables: `touched` (slots the user changed last; `Deployed` is `Foreign` there), `disturbed`
(the user has changed the shoot since this bootstrap began) and `everMarked`.  `edits` and `faults` bound the environment.

One action is one step of `Reconcile` between two points where others can interfere:
`Begin` (the snapshot), the decision on the Cluster (`SkipHibernated`, `RejectConfig`,
`StartUpkeep`, `StartBootstrap`), `Apply`/`WaitDone`/`WaitFails`/`SkipSection` for each
of the three sections, `ReconcileSecrets`, `ReconcileShootInfo`, `SetFluxBootstrapped`
or `MarkConflict`.  Every error return is an action that ends the attempt; `Abort` is any
other error, or a crash, at any step.  Steps without an effect of their own are
`GoesOn` or `Returns`.  `Delete`, `ForceDelete` and `Migrate` are `RemoveExtension`,
`Restore` is `RestoreExtension`: the code does nothing, the generic reconciler does the rest.

The environment: gardenlet (`ChangeConfig`, `RequestRemoval`, `CreateExtension`,
`Hibernate`), the health check controller (`HealthCheck`), the user (`User...`), and Flux
(`FluxReconciles`): it reports the outcome the spec has, where a source looks for its
secret and a Kustomization for shoot-info in their own namespace.

Assumptions about what is outside `src/`:

* The generic reconciler hands `Reconcile` the Extension as the API server returned it
  when the operation was recorded in the status, so the snapshot is current when the
  attempt begins; one worker serves one Extension at a time; the finalizer keeps the
  Extension while an attempt runs.
* `CreateOrUpdate` on Flux objects, and the manifest applier, are one step: they change
  the spec only and leave the status, and they write nothing if the spec is equal.  For
  secrets and ConfigMap the two calls are apart in `ReconcileSecrets` and `ShootInfo`.
* The two waits of `installFlux` (CRD, then source-controller) are one: nothing is written
  between them, and the failure of either ends the attempt.
* The API server enforces resourceVersions on updates and on the marking patch.

### ReconcileSecrets and SecretSync

`Start`, then for each reference `ReadSeed`, `GetShoot`, `WriteShoot` or `WriteFails`,
then `CopiesDone`, `ListManaged`, `Visit` for each listed secret, `Finish`; `Leave` stands for the rest
of `Reconcile`.  `read`, `seen`, `keep`,
`listed` are the function's locals.  A write is refused on a conflict and on a change of
the immutable type; a deletion is by name and has no precondition.  A seed secret may carry labels that
replace the managed-by label (`relabel`).

`Abort` ends a pass at any call, and may leave the call it was making in `late`; `LandLate` has
the API server process it at any later time, under the same conditions as if it had been in
time.  History variables: `made`, the slots whose secret a pass has labelled last, `foreign`, those that the
user or a late call has changed since the running pass began, and `renewed`, the secrets of the seed that the
gardenlet has changed since then.

`SecretSync` has a pass that fills the slots it wants, cleans others only after all are filled, and may stop
anywhere.  `AbstractSpec` maps `pc` to its phase, the references of the pass's config to
`wanted` and `keep` to `filled`.  `PassIsOneStep` is the link to `FluxActuator`: a pass that nobody
disturbs ends with exactly the effect of that module's action `ReconcileSecrets`.

### Manager and ShootInfo

A replica goes through `NewCommand` (defaults and flags into `options`), `Complete` (with
the validation of the heartbeat options), `Run` (first `Apply`, options into the package variables
`defaults`, then `AddToManager`, package variables into `added`), `StartManager` and `Lead`.
Its settings are the five that the command line has for controllers.  `Stop` is a signal, a
crash or the loss of the lease; the replica starts again, with any of the Deployment's command lines.

The leader's worker runs passes of `BeginPass` (the Cluster is read), `GetInfo` and `WriteInfo`, the two calls of
`CreateOrUpdate`; `RenderingPanics` is the dereferenced identity that is not there (actuator.go:175; the panic is
recovered by controller-runtime).  The garden's identity in the ConfigMap is the one in `added` of the
leader, so that the whole way from flag to shoot is one model.  `PassFails` and `Stops` may leave a call in
`late`.  `term` counts leaderships and is recorded with each write, for the property only.

That a leader leads until it stops is an assumption about the manager, which ends the process
when the lease is lost; the overlap that this may leave in practice is what `late` stands for, as far as
calls under way go.

### WaitForObject

Time advances in ticks, a read takes up to `Latency`, and a read that is cut off by the
end of the context returns its error.  `failFast`, chosen initially, is the difference
between `CheckFluxObject` and the checks of `installFlux`.

### FluxConfig

`cfg` passes through `DecodeProviderConfig`, `SetDefaults_FluxConfig`,
`SetDefaults_FluxInstallation`, `SetDefaults_Source`, `SetDefaults_Kustomization`
and `Validate`, in the order of `zz_generated.defaults.go:24-35`.  `InstalledComponents` and
`SecretResources` are what the actuator computes from the result.  "nil" and "" are
kept apart for the fields that are pointers, since the code treats them differently.

## What the runs check

| run | module | checks |
|---|---|---|
| `actuator` | MCFluxActuator | `TypeOK`, `IndInv`, `NoWaitInVain`, `MarkedFreezesFlux`, `MarkedConfigDeployed`, `ConditionsKept`, refinement `AbstractSpec`; under fairness `EventuallyBootstrapped`, `UpkeepConverges` |
| `secrets` | MCReconcileSecrets | `TypeOK`, `CopyBeforeCleanup`, `CopiesCurrent`, `NoLeftovers`, `PassIsOneStep`, `ReferencedNotDeleted`, `DeletesManagedOnly`, refinement `AbstractSpec`; under fairness `Converges` |
| `shootinfo` | MCShootInfo | `TypeOK`, `ControllersConfigured`, `WrittenAsConfigured`, `NewestWriterWins`; under fairness `InfoConverges` |
| `wait` | MCWaitForObject | `NilMeansHealthy`, `NoMissedReadiness`, `ErrorIsCurrent`, `RunsDown`, `TypeOK`; under fairness `Terminates` |
| `config` | MCFluxConfig | `TypeOK`, `ReferencesItsSource`, `UserValuesKept`, `DefaultingIsStable`, `DataWithinReach`, `SecretsResolve`, `ComponentsComplete` |

Runs that end in a counterexample, each against a sentence of the repository:

| run | the sentence | what happens |
|---|---|---|
| `staleready` | actuator.go:331, "waits for it to get ready" | the Ready condition of the previous spec ends the wait |
| `once` | v1alpha1/constants.go:7-9, an annotation on the namespace, "after a first initial bootstrapping" | the marker is in the Extension's status; a re-created or restored Extension bootstraps again |
| `apart` | types.go:113, the data is used to create the source's credentials secret | it is created in the namespace of Flux, not of the source |
| `overwrite` | types.go:29, "only created if they don't exist" | existing secrets are overwritten |
| `moved` | secrets.go:24, "deletes all secrets that are no longer referenced" | copies in the previous Flux namespace stay |
| `elsewhere` | types.go:108, :125, an omitted namespace of source or Kustomization is "flux-system" | it is the explicit namespace of Flux, if there is one |
| `ignored` | add.go:28, "specifies whether to ignore the operation annotation"; the chart passes the flag (deployment.yaml:54) | `--ignore-operation-annotation` is parsed into options that `run` (cmd.go:66-72) never hands over; the controller always has `false` |

What `elsewhere` shows is what the data needs: Flux looks up the credentials next to the source and shoot-info next to
the Kustomization, and both are in the namespace of Flux (`DataWithinReach`); with the documented default they
would be out of reach.

Six smaller divergences have no run of their own:

* a read that the deadline cuts off replaces the last observed error, which actuator.go:499
  means to return (`GetFails`);
* the example of an OCIRepository (types.go:94, README.md:88) has API version v1beta2, which is not registered
  in the scheme of source_template.go and refused (`Unregistered`);
* a `flux.namespace` set to "" is valid for fluxconfig.go:54 and no reason for a default at defaults.go:88, which
  looks at nil only: Flux, secrets and ConfigMap then have no namespace, where types.go:56-57 says
  "flux-system";
* a source template of a registered list kind makes defaulting panic (defaults.go:40) before
  validation can refuse it (`DefaultingPanics`);
* a `targetName` set to "" is valid for fluxconfig.go:221 and a name for secrets.go:117;
* labels of a seed secret are copied over the managed-by label (secrets.go:136) if they have the
  same key, and hide the copy from the cleanup (`Copy`, with `relabel`; `NoLeftovers` speaks of the
  others).

### Bounds

* `actuator`: two namespaces, two specs (a source of the one needs
  credentials), one credentials secret, four configs (private source, public source, Flux only in the other
  namespace, an invalid one), two edits and one fault; 685,545 states.  The
  properties relate one attempt to one interfering writer; two changes are enough to
  change a config and remove the Extension, to change and change back, or to take over an object
  and re-create the Extension, inside one attempt or across two.  After the last of them the
  system has to recover for ever.  What the bounds leave
  out, the theorems cover.
* `secrets`: one namespace, two names, two types, two contents, four configs with up to two
  references that rename and drop targets, seeds with and without relabelling; two edits and a fault
  fall between any two calls, and the fault may leave a late call; 811,103 states.  `moved` has a
  second namespace and one edit.
* `shootinfo`: two replicas, two command lines (the garden's identity given, or left to its default), two stops, one
  change by the user, one failed pass, an identity of the cluster that comes late or is there; 300,144 states.  Two
  stops are what it takes for a late call to meet a leader after the next, started with the other command
  line.  `ignored` has no stops and one command line, with both flags.
* `wait`: interval 3, timeout 10, latency up to 2, so that reads fall before, on
  and after the deadline; three changes of the object.
* `config`: families of configs that vary what one part looks at together
  (names, namespaces and references; credentials; missing sections; components; additional secrets), 2687 in all.  `elsewhere` has one source and Kustomization without
  namespaces, and Flux's unset, "" or another one.

Deadlock is not checked where the system may stop: in `FluxActuator` when the Extension is
gone and the budgets are used, in `WaitForObject` and `FluxConfig` when the function has returned.

### Fairness

* `FluxActuator`: weak fairness of the worker's steps (the work queue retries failed
  attempts and resyncs every 60 minutes, add.go:42; each step ends because every wait has a timeout),
  of removing and restoring, and of each Flux object's reconciliation (Flux
  controllers retry).  None for the environment.  Since a Flux object that can come up
  stays ready once it is, weak fairness suffices for waits that may also fail.
* `ReconcileSecrets`: weak fairness of the worker.  A late call need never land; there are finitely
  many, and the pass after the last one repairs what it did.
* `ShootInfo`: weak fairness of the worker, and of each replica's start and leading: the Deployment
  starts a stopped pod again, and while nobody leads the lease can be had.  None for stops, user and late calls.
* `WaitForObject`: weak fairness of the
  worker and of the clock; `Tick` waits for a read that is due to be answered or a timer that is due to fire.

## What is proved

The modules' assumptions say that constants are well-typed and sentinels differ from
values; the theorems hold for all constants that satisfy them.  Each
proof has one step per action, and lemmas for what several of them need.

### FluxActuator

`InvariantHolds` (`Spec => [](TypeOK /\ IndInv)`), from it `TypeCorrect`;
`MarkedFreezes`, `MarkMeansDeployed`, `ConditionsAreKept`, `NothingIsAwaitedInVain` (`NoWaitInVain`);
`ImplementsBootstrap` (`Spec => AbstractSpec`).

That a marked Extension matches what is deployed does not follow from
the marking step alone: it needs what the attempt did earlier, for the config it
read, and that the Extension still is the one it read.  `IndInv` has one part for each.  `SnapshotInv`:
resourceVersions only grow, the snapshot is never ahead, and equal resourceVersions
mean equal contents; so the optimistic lock of the patch turns facts about the snapshot
into facts about the Extension.  `BootstrapInv`: an attempt past the marker check found the
Extension unmarked, and since only that attempt can mark it, it is unmarked still; so no
step that deploys runs while it is marked.  `ProgressInv`: each section the attempt has
passed is deployed as the attempt's config says, or the user has changed it; sections never share
a slot, and no step of anyone but the attempt deploys.  `ProvidedInv`, for attempts the user does not disturb:
what the attempt has applied, copied and written is there, and a section it has waited for is ready if its
config can come up.  Sections never share a slot, secrets and ConfigMap are in the namespace that the installation has
created, and what Flux reports of an object whose needs are met is that it is ready; so a step finds what it needs exactly
because of the order of the steps, which is `NothingIsAwaitedInVain`.  The two
large groups of actions that leave a part of the state alone are collected in `WorkerSteps`,
`EnvironmentSteps` and `OthersDeployNothing`; `ProvidedInv` has lemmas of its own for what the attempt (`WorkerProvides`),
Flux (`FluxProvides`) and everybody else (`EnvironmentProvides`) do to it.  The refinement follows with the mapping
`absPhase`/`Deployed`: `Apply` is `Deploy`, the user's changes are `TakeOver`,
`SetFluxBootstrapped` is `HandOver` (by the lemma behind `MarkMeansDeployed`), the rest stutters.

### ReconcileSecrets and SecretSync

`InvariantHolds`, `TypeCorrect`, `NothingIsMissing` (`CopyBeforeCleanup`), `CopiesAreCurrent` (`CopiesCurrent`),
`ReferencedAreKept` (`ReferencedNotDeleted`), `OnlyManagedDeleted` (`DeletesManagedOnly`), `UndisturbedPass`
(`PassIsOneStep`), `ImplementsPass` (`AbstractSpec`), and `NothingIsLeft`: `NoLeftovers` for an extension whose Flux
namespace never changes (with several namespaces it does not hold, see `moved`).  `NothingIsLeftInNamespace` is what
remains true with several: nothing is left over in the namespace of the pass.

`CopyInv`: `keep` is exactly the names of the references before `next`, each of them is in the shoot or has been
changed by others since the pass began, and what `CreateOrUpdate` has read is still true unless others have
interfered.  The last is what makes a write of nothing safe: the secret that was
equal may be gone only by another's doing.  `ListInv`: labelled secrets are there and managed, and
from the listing on each of them is referenced or still listed, which survives the deletions because
the set of names to keep is complete by then; and a name that is listed is managed, or others have changed it.
`CurrentInv` adds the contents to `CopyInv`: the copies before `next` equal the seed, except where others have written, the
seed secret was renewed, or a later reference has the same target.  That last case is why it speaks of the
last reference to each target: the step that copies the second one makes the first stale and is right to.  (In the run's
configs two references always have different targets; the theorem covers the others.)  A late call counts as others' doing, so the theorems
cover any number of them.

`CleansUpWhenFilled` is about `SecretSync` alone: in its cleaning phase every wanted slot holds a secret or was changed
by others.  So that part of what the detailed pass does follows from the refinement, for any other
way to make the calls too.

### ShootInfo and Manager

`InvariantHolds`, `TypeCorrect`, `LeaderConfigured` (`ControllersConfigured`), `WritesAsConfigured`
(`WrittenAsConfigured`), `LaterLeadersKeep` (`NewestWriterWins`).

`StartInv`: at each stage of its start a replica has its requested settings one station further.  `VersionInv`: a
version of the ConfigMap that anybody has read, or that a late call expects, was given out once, belongs to
one leadership, and that leadership is no later than the reader's.  So a write that the API server accepts
replaces a ConfigMap of its own or an earlier leadership.  `ContentInv` says of the data that
a late call carries what `WrittenAsConfigured` says of what is stored: if it is of the present leadership it has
the garden's identity of the leader's command line, which by `StartInv` is what the leader renders.  It holds for any number of replicas,
stops, failures and late calls.

### WaitForObject

`InvariantHolds`, `TypeCorrect`, `NilIsHealthy`, `ReportsLastAnswer` (`ErrorIsCurrent`), `ReadinessIsSeen`
(`NoMissedReadiness`), `EachStepRunsDown` (`RunsDown`), for every interval, timeout, and latency up to the interval.

`AnswerInv` ties `lastError` to what was read last.  `ClockInv` bounds the clock by the start
of the last read, and says that an object that is ready and was not found so became ready after that
read began; together an object cannot be ready for an interval and a latency without
being read.  `EachStepRunsDown` is the safety part of `Terminates`: each step of the wait ends it or lowers `Remaining`, a
natural number, because a new read starts an interval after the last one; what is left to fairness is that a step is
taken.

### FluxConfig

`InvariantHolds`, `TypeCorrect`, `ReferencesOwnSource`, `KeepsUserValues`, `DefaultingSettles` (`DefaultingIsStable`),
`CopiesResolve`, `DataIsWithinReach` (`DataWithinReach`), `InstallsComponents`, for every set of providerConfigs.

The invariant says for each stage of the pipeline what holds of the config at that point compared with
the one decoded: it extends it (no value of the user replaced), its Kustomization refers to its source, its objects
are placed in the namespace of Flux if it has a name and in the default one otherwise.  There is one lemma for each defaulting function.  `DefaultingSettles` needs to
know of each function what it leaves set (`NamespacesSet`, `ReferenceSet`), and that validation refuses the configs that a second
application would change again, such as a source of an unknown kind.  `DefaultsAssumption` (the literals
for "nil" and for the default namespace are strings) is there because the provers do not know it.

### Only model-checked

Liveness: `EventuallyBootstrapped`, `UpkeepConverges`, `Converges`, `InfoConverges`, `Terminates` (fairness and
ENABLED are out of the prover's reach).  The safety that they rest on is proved: for `EventuallyBootstrapped` that no
attempt waits in vain, for `Converges` that a pass leaves the copies as they are in the seed, for `InfoConverges` that what is
written is as configured, for `Terminates` the measure.  Everything else that a passing run checks is a theorem, except
`NoLeftovers` for several namespaces, which is false.

## Not modelled

* Rendering the Flux manifest (a library), and the health of CRD and Deployment beyond
  "ready for the current generation".
* Name and technical ID in shoot-info, which are never missing and never change; version, registry and intervals
  of a config, which have static defaults of their own.
* Secrets' finalizers; labels of the ConfigMap; logging.
* `--disable-controllers`; options for REST client, log and manager; scheme registration; generated deep
  copies; the Helm chart.
* The health check controller itself, the heartbeat controller and the generic reconciler, which are
  libraries; what they do to the extension's state is in `FluxActuator`, how they get their settings in `Manager`.
* Two processes that both begin new passes: one that has lost its lease ends, and what may remain
  of it, its calls under way, is modelled.

## Plan

1. Done: `FluxActuator` with `Bootstrap`, `ReconcileSecrets`, `WaitForObject`, `FluxConfig`, their runs, and the
   theorems about `FluxActuator`.
2. Done: `SecretSync` and the refinement of `ReconcileSecrets`; calls that outlive their pass; `PassIsOneStep`
   as the link between the two models of a pass.
3. Done: `Manager` and `ShootInfo`: the command line's way to the shoot, restarts, leaders and late writes.
4. Done: theorems for every detailed module.
5. Done: theorems for the safety that liveness rests on (`NoWaitInVain`, `CopiesCurrent`, `WrittenAsConfigured`, `RunsDown`), what a
   pass may delete, stability of the defaults, and the promise of `SecretSync`.
6. Open: several references in `FluxActuator` (the state space grows with the subsets that a failed pass may
   leave; `ReconcileSecrets` has them), and a bound on the number of attempts that a bootstrap takes, which
   needs a model of the queue's back-off.
