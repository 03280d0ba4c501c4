# The nuage-vsc charm in TLA+

Models of the charm in this repository, checked with TLC, with proofs for TLAPS.
The charm deploys one virtual machine, the Nuage VSC, on the KVM host of a Juju
unit. `src/hooks/hooks.py` holds the hooks that Juju runs; `virshutils.py` and
`lib/nuage_common.sh` drive libvirt; `helper_functions.py` remembers what a hook
has seen in the key-value store of `charmhelpers/core/unitdata.py`.

## The system

| Component | State it keeps | Operations | What makes it correct |
|---|---|---|---|
| VM scripts (`lib/nuage_common.sh`, `virshutils._run_virsh_command`) | the libvirt domain, its disk file | create, start, stop, a sequence of commands each | the disk of a running guest is never replaced; a domain always has a whole disk |
| Hooks (`hooks.py`) | options seen, files of the archive, `templates/`, relation settings | install, config-changed, start, stop, upgrade-charm, vrs/vrsg joined, vsd changed | the VM and the relations follow the configuration, whatever fails in between |
| Change detection (`helper_functions.py`) | one row of the store per option | config_value_changed, get/has/set_db_value | a change is reported until it was seen |
| Key-value store (`unitdata.Storage`) | values, history, hook executions in sqlite | set, unset, unsetrange, hook_scope, flush | values and history agree; a failed scope leaves nothing |
| Hook data (`unitdata.HookData`) | the rows of the configuration in the store | hook_scope around a hook, the delta of the configuration | a change is delivered until it was acted on and recorded, and then no more |
| Hook frame (`hookenv`) | `.juju-persistent-config`, exit callbacks, relation settings held back | execute, config, changed, relation_set | compares with the last hook that succeeded; a client that sends what changed() reports leaves nothing unsent |
| Archive fetch (`fetch/archiveurl.py`, `payload/archive.py`) | the directory it unpacks into, in place | install | the directory is recorded only once unpacked, so that a part of an archive is not used |
| apt (`fetch/__init__.py`) | the installed packages | apt_update, apt_install, with retries on the dpkg lock | a hook ends, and none goes on without its tools |
| Services (`core/services/`) | READY-SERVICES.json, a file of ports per service, rendered files, the ports Juju opens | manage: data_ready, start, data_lost, stop of each service; StoredContext | services, ports, files and record follow the data; nothing stops untold; a stored context never changes. Vendored, unused by these hooks |
| Host helpers, fstab, templating, sysctl, execd, bzr | files of the host | service, render | vendored, unused; ServiceManager uses the service command and `render`, the rest is not modelled |
| `scan_ip.py` | none | scan a network in threads | only `get_dns_ip` is called, without a DNS server, which config-changed refuses |
| `scripts/charm_helpers_sync.py`, tests | none | | no part of the running system |

Juju runs one hook at a time, each in a process of its own. A hook shares with
the next one only what is on disk: the store, the fetched directory,
`templates/`, the saved configuration, and the domain. A hook calls a script and
waits for it. Around the hooks the guest may stop, the operator edits the
configuration, removes or upgrades the unit, other units join, the VSD
publishes its address.

What is hard: a hook that fails or is killed between two commits and is run
again; the guest stopping between two looks at it; a value recorded as seen
before anything was done with it; commands whose failure nobody looks at; a
listing of domains read with `grep`; relation settings that Juju holds back
until the hook succeeds. PROJECT.json lists each hazard at its line.

## Modules

**VspVm** - `nuage_common.sh`. Variables: the domain `dom` as libvirt holds it
(`transient`: running, its definition removed), its definition, the disk file,
what the guest was booted from, the next command of the running script, the exit
status. Each command of create_vsp_vm, start_vsp_vm and stop_vsp_vm is an
action; what `grep` reads off the listing is `ReportedRunning`,
`ReportedCreated`, `ReportedDefined`, functions of the domain and of the host's
`Others`. The caller is any client that runs one script at a time (`Invoke`) and
replaces the files between scripts (`Stage`). It is also the abstract
specification that VscCharm implements.

**PersistentDomain** - what the scripts promise their caller, and the abstract
specification that VspVm implements: a VM that create makes at once, of one whole
image and one definition (`made`), that start boots from them, and that only its
removal takes away. Stop is two of its steps, first down and then removed: where
undefine fails, or a kill comes between, the VM is down and still defined.
`VspVm!Made` is the refinement mapping: disk and definition, once libvirt has the
domain.

**VscCharm** - the hooks, composed with VspVm by `VM == INSTANCE VspVm WITH ...`:
`staged` is the image in the directory the store names, definitions are URLs.
`pc` is where the running hook is; an action is one committed change of the
store (`config_value_changed` opens a `hook_scope` and commits it), one look at
the domain, one script, one change of files, or one end of a hook. `proc` holds
the globals of the process, lost when it ends; `outbox` the relation settings
Juju holds back; `Raise` is an exception or `sys.exit(1)`. `AtExit` is the end
after the exit callbacks. `AptGet` is one run of a fatal apt-get under the retry
loop of `_run_apt_command`, which counts the failures with exit status 100 and
leaves the loop, as success does, on any other; `tools` is what the host has got
from it: virsh, qemu-img, python-cheetah, whose import `Render` needs, and
python-pexpect, which `SetDomain` imports. Unpacking is in place
(`ExtractionFails`): cut short it leaves some files whole and one in part, an
image that is not `whole` or a template that is `Torn`. `spoiled` is a history
variable: that has happened, with `"overwrite"` in `Env`, to a directory the
store already names. A hook that fails is retried (`Retry`) or skipped by
the operator (`Skip`); `Crash` kills hook and script at any step, and may cut
short the configuration that config-changed saves: from then on `config()`
answers None and every config-changed fails, which the model shows as well.

**VscTeardowns** - VscCharm with a history variable, `stops`: how often
config-changed has stopped a running VM since the last edit.

**UnitStorage** - `unitdata.Storage` with its three tables, what is on disk,
the revision of the open scope, and an exception on its way. The client is
arbitrary within `Client`: whether it catches what leaves a scope, or what is
raised inside one, writes outside of scopes, or removes by prefix.

**HookData** - `unitdata.HookData`, a client of UnitStorage, which it extends:
each execution takes the delta between the configuration and the rows with
prefix "config" (`Enter`), the client acts on the changes (`Act`), which no
rollback undoes, and brings the rows up to date (`Put`, one row of `update`).
The scope succeeds, fails or dies, and the client may flush in between, write
other keys and go on after a failure. `applied` and `settled` are history
variables: what was acted on last, and whether a scope has ended that did and
recorded everything since the last edit.

**HookExecution** - `hookenv`: the frame of a hook (`Hooks.execute`, exit
callbacks), the `Config` dictionary with its file, `changed()` and the relation
settings that Juju holds back. Saving is two steps, truncating the file and
writing it, and the end of the process a third. Exit callbacks run in reverse
order: those added since `config()` before its save, the others after it, where
they may still raise. The client that reads the configuration sends
(`RelationSet`) each option that `changed()` reports, as the documentation of
`Config` (`hookenv.py:216-256`) would have it act on them; otherwise it does what
it likes. A `StoredContext` (`core/services/helpers.py`) is made by the first
hook that wants it, in two steps, and read by the later ones. `seen`, `lost`,
`missed` and `first` are history variables: what the last successful hook saw,
which options a hook saved before it failed or was killed, which of them it had
been told were changed, and what the context was made with.

**ServiceManager** - `ServiceManager.manage` of `core/services/base.py`, for
services that require a `RelationContext`, render it with a `TemplateCallback`
and have the default start and stop callbacks (`service_restart`,
`manage_ports`, `service_stop`) and a charm's data_lost. `Begin` makes the
manager, which reads the contexts (`GetData`) of the data that remote units
change at any time; each callback, and each write of a file, is an action;
`Call` is an open-port or close-port that Juju holds in `pending` until the hook
succeeds, `CallFails` one whose `check_call` raises; `Load` reads the ready file
once in a process; `Over` is the end of the process. Between hooks the charm is
upgraded to a revision with other ports and the unit removed; `Kill` may cut
short the file being written. A unit's data is the set of keys it has given, a
context or a rendered file the set of units whose data is in it. A port file
that is cut short is empty, what the `service` command prints is taken as text
(bytes make `service_running` raise a TypeError), and provide_data is left out.
`told` is a history variable: which of data_ready and data_lost a service heard
last, and `"unsure"` if that was data_ready and the hook ended before
`save_ready`.

**MCVspVm**, **MCVscCharm**, **MCVscTeardowns**, **MCUnitStorage**,
**MCHookExecution**, **MCServiceManager** give the constants their values.
**VspVmProofs**, **VscCharmProofs**, **VscGuestProofs**, **VscSettledProofs**,
**UnitStorageProofs**, **HookDataProofs**, **HookExecutionProofs** and
**ServiceManagerProofs** hold the proofs.

Simplifications of VscCharm. The names of image and template keep one value, so
that an archive has one file of each, side by side; a part of a bof.cfg counts as
the file. The options keep the order of `hooks.py:107-121`. Where a trace goes
along the `or` from one option to the next (`teardown`, `url`, `setback`,
`deploys`) they are all there; where much else happens (`faults`, `settled`) the
first test has `vsc-image-name`, `vsc-template-name`, URL and address, the second
`admin-user` and the domain. Juju prefers config-changed to the other hooks,
unless `"overtake"` is in `Env`. `BytesOutput` tells the code as `python3` of
`hooks.py:1` runs it, where `check_output` returns bytes, from the code with what
it does to bytes repaired, `download` (`archiveurl.py:60`) included. No Python
runs this charm as it is: under Python 2 `archiveurl.py:2` and `hookenv.py:109`
do not import, and install asks for the Python 2 packages of Cheetah and
pexpect. Waiting for the VM to answer changes nothing and is left out. Where
`"virsh"` is missing from `Env` no command of a script fails. `Skip` never skips
install: a hook that Juju is told to leave out would have installed nothing.

## Runs

| Run | Instance | Shows |
|---|---|---|
| `vm` | two images, two definitions, an unrelated shut off domain, failing commands, stopping guests, kills | no script copies over the disk of a running guest or defines a domain over part of an image; create replaces no disk of an existing domain; to their caller the scripts are `PersistentDomain`: create takes effect at once or not at all, and stop in two steps, down and removed |
| `faults` | every fault but guestfish, one edit of the URL or the address, one vrs relation, a second archive without bof.cfg unpacked over the first | the hooks remain a legal client of the scripts (`ImplementsVspVm`); "no change" means every option was seen (`DetectionSound`); no guest boots without an address, nor from a torn copy, nor from a part of an image unless an extraction was cut short over a directory in use (`GuestsAreAddressed`); no script runs without virsh and qemu-img, though apt's failures pass for success (`ToolsThere`) |
| `settled` | three edits of URL, address and domain, a vrs relation, two archives of one name, the VSD, upgrades, failing apt, DNS and fetch, a unit deployed with a domain | at rest the guest has the configured address and, where install got pexpect, the configured domain, and the vrs relations have that address; the VM is torn down only finitely often (`TeardownsEnd`), between two edits at most once for each option of the test (`TeardownsBounded`); every hook ends, whatever apt answers (`HooksEnd`), each step bringing it nearer to its end (`HooksProceed`); at rest or not, no guest boots with an address that is not configured at that moment (`BootsAsConfigured`) |
| `store` | HookData with one option and two keys of the client's, two values, two executions, a client that catches, removes by prefix and forgets rows | history and values agree on disk; a failed scope holds nothing over; no execution rewrites the record of an earlier one; HookData is a legal client of the store, and loses no change and reports none twice |
| `hook` | two options, an added key, two values | changed() compares with the last successful hook; added keys stay; the other units have every value that a successful hook has seen (`ChangesSent`); a stored context is the one first made |
| `services` | two services, one with ports that an upgrade adds or takes away, two remote units, one with a key that comes and goes, callbacks, open-port and close-port that raise, kills | after the last hook has succeeded the services that run, the open ports, the rendered files and the record agree with the data of that moment; a service that had its data is told before it is stopped, where the hook that told it so came to record it (`LostIsTold`), and none comes up before its file is rendered from what the hook read (`StartsRendered`) |
| `vm_similar` | a shut off domain "vsc-old" | **violated**: create_vsp_vm reports success and creates nothing |
| `untold` | the services, only open-port and close-port fail | **violated**: data_ready is called, open-port raises, the data is lost before the hook is run again: the service is stopped and data_lost never called |
| `teardown` | upgrades, no edit | **violated**: config-changed stops the VM though nothing was edited: `or` recorded only the options up to the first changed one, and the next one is `vsc-template-name` |
| `url` | upgrades, one edit, two archives | **violated**: once the config-changed hooks after two upgrades have recorded the options before it, a new URL is recorded by the first test, so the second fetches nothing: the VM is redeployed from the old archive |
| `deploys` | `check_output` returns bytes, fair | **violated**: `is_vm_running` raises a TypeError for ever, nothing is deployed |
| `setback` | upgrades until all ten options are recorded, three edits, nothing fails | **violated**: an address that changes together with the URL, tested before it, reaches the VM and is not recorded; set back to the recorded value it is no change, and the VM keeps the other one |

The relations of `vrsg-controller-service` are told the address when they join
only: `start` publishes to `vrs-controller-service` (`hooks.py:354`), and no
property speaks of the others.

Bounds. `MaxEdits` caps the operator's edits. Two suffice for a value that is
changed and changed back around a failing hook; three let a change be masked by
an earlier option of its test, acted on, and changed once more before it is
recorded, or set back. Upgrades are not counted: each leads to a config-changed,
and the lists of options are finite. `MaxVersion` caps hook executions of the
store: with two a rolled back execution's number is used again while an older
one's record is there. `MaxTries` caps the runs of apt-get, 30 in the code: none
where apt does not fail; one and two let the count be reached in the middle of
either command. `MaxStops` ends the count of teardowns at the first one too
many. Two URLs, one or two directories (two archives of one name share one), two
addresses and none, one vrs relation. ServiceManager's first service has one or
two ports, so that an upgrade keeps one and moves one, the second none; two
units, so that a context can lose a unit and still be ready. Every other
variable is finite by itself. CHECK_DEADLOCK is off where the system comes to
rest (VscCharm, UnitStorage at `MaxVersion`, ServiceManager after the unit's
removal).

Fairness (`settled`, `deploys`). Juju runs the hooks it has queued and retries a
failed one: weak fairness of `Run` and `Retry`. A hook and the script it waits
for go on: weak fairness of `HookStep` and `ScriptStep`, each of which is
enabled until it is taken, since one process runs. Nothing is assumed of the
operator, the guest and the other units, and nothing of apt: `HooksEnd` holds
because the retries are counted. `TeardownsEnd` holds because each test of the
options that finds a change records at least one more of them. The measures
behind both are properties of their own, `HooksProceed` and `TeardownsBounded`,
which need no fairness and are proved.

What the properties assume, and what happens otherwise, seen as counterexamples:

- `GuestKeepsItsDisk`, `DefinedOverWholeDisk`, `CreatesOnlyWhatIsMissing`: one
  domain per name. Two domains whose names contain "vsc" make create copy over
  the disk of the VM.
- `GuestsAreAddressed`: every archive has an image (`WholeArchives`: one without
  leaves that of an earlier archive in the directory) and guestfish works;
  `write_guestfs` logs its failure only. Where `install_guestfs` failed, the
  address is not written either. It excepts an extraction that was cut short, by
  a failure or a kill, over a directory the store already names (`spoiled`): the
  URL is recorded (`hooks.py:109`, `hooks.py:150`), so the retry fetches nothing
  and deploys from what is there, a part of an image.
- `TeardownsBounded`: the options of the test have values (`OptionsGiven`), as
  they do: `hooks.py:75-103` gives up without the required ones, and
  `config.yaml` has defaults for the others. An option without one is compared
  with a row that is not there, and is never found recorded.
- `AddressApplied`, `BootsAsConfigured` and `DomainApplied`: no kill, and no
  extraction cut short within a file over a directory in use. A kill, or a
  destroy or undefine whose failure is ignored, between recording an option and
  acting on it loses the change; so does an operator who skips the failed hook.
- They also leave out an operator who sets an option back to the value recorded
  while the VM has another (`Outdated`, `"back"` in `Env`): the test stopped at
  an option before it when it last changed, so that the VM was given a value
  that was not recorded. The run `setback` shows what happens then.
- A host with another domain that is shut off makes create's last test fail with
  the VM defined; the retry of the hook then starts the VM with the address that
  was staged before, whatever was edited in between.
- `AddressPublished` and `DomainApplied`: install got python-pexpect. It is
  imported when it is used (`virshutils.py:197`), after the guest was started;
  the hook fails there, its retry finds the VM running and returns early.
- `AddressPublished`: no failing ssh. If `set_vsd_domain` raises after `start`,
  the settings of the hook are lost and its retry returns early. A joined hook
  that overtakes config-changed publishes an address the VM does not have.
- `DomainApplied`: ssh answers within its second; the time-out is swallowed.
  With "overtake" and "back", an option reset and set again around a vsd-changed
  hook leaves the domain of the relation; and a redeployment loses a domain that
  was learnt from the relation, since it is kept in one process.
- A fatal apt-get that fails with another status than 100 leaves the loop of
  `_run_apt_command` without a word, so that apt_install returns as after
  success; `hooks.py:67` tests for virsh and qemu-img, and only that test keeps
  the later hooks from running scripts without them.
- `HistoryAgrees` excepts removal by prefix, which records "prefix%" and none
  of the keys. A key set and removed in one scope raises IntegrityError.
- `ChangesReported` excepts options without a value: config-get leaves them out,
  `load_previous` puts the old value back, and changed() reports nothing. It
  also excepts what was saved by a hook killed before it ended: its relation
  settings are lost, while its retry finds the configuration unchanged.
  `ChangesSent` excepts the same (`missed`). It speaks of a client that sends each
  option changed() reports and has a value.
- `hookenv.relations()` is cached with the local unit's settings under a key
  without its name, which `flush(local_unit())` in relation_set misses. The cache
  of what Juju's tools answered is not modelled; HookData alone asks for it, for
  a delta of the relations that nothing here reads.
- `Delivered`, `ReportedOnce`: HookData takes the delta and leaves it to its
  client to write the rows. That client (`Act`, `Put`: it acts, and then calls
  `update`) is the model's own: no code of the repository is one. It removes the
  row of an option that is gone ("forget"), which `update` leaves in the store:
  otherwise the option is reported in every later delta. With "back", an option
  acted on, not recorded and set back to the row is not in the delta: the change
  is lost. A client that ends with `sys.exit(0)` inside the scope is rolled back
  like one that raises.
- No exit callback adds a key to the configuration after the save, or is the
  first to call `config()`: what it would store is lost, or is saved by no one.
- `ContextStays`: a kill between the opening and the writing of the file leaves
  an empty one, which every later hook refuses: `yaml.load` gives None, and
  `helpers.py:207` raises OSError. A file written in part that still parses is not
  modelled.
- `PortsFollow`: no revision gives one service the port of another. If one does,
  the first service seen opens it, and the other then closes it as its own old
  port (`MCMoves` of MCServiceManager is such a choice). It speaks of the ports
  of the present revision: one that an upgrade gave up stays open for ever if a
  later callback raises, because Juju discards the close-port while the port
  file no longer names the port.
- `ServicesFollow`: there is a service, and the `service` command does what it
  is asked; its status is ignored, so with "service" in `Env` a service whose
  start failed is recorded as ready. A kill that cuts READY-SERVICES.json short
  makes every later hook raise in `json.load`, and the unit never comes to rest.
- `LostIsTold` excepts a hook that ended, by a callback or a port call that raised
  or by a kill, between data_ready and the record of it, whatever it was killed
  doing then: the next hook cannot know that data_ready was called, as the run
  `untold` shows. Once the service is told that it is ready again, and recorded,
  it is under the property again.
- A unit that stays and whose data changes its value, in place of its keys, is
  the same unit to ServiceManager: `TargetsFollow` tells units, not values.
- `RequiredConfig.__bool__` (`core/services/helpers.py:172`) is defined twice and
  the second definition calls itself without end, so
  ServiceManager has relations only as required data. `additional_required_keys`
  are added to the list of the class: every context of the class that is made
  later requires them too (`Required` is what results).
- A missing file of the archive reaches `os.path.exists(None)`: a TypeError in
  place of the ConfigurationError meant for it. The hook fails either way.

## Proofs

Each proof module extends its component, and TLC evaluates the named assumptions
on the constants in every run. Where a theorem needs more than they say, it has
an ASSUME of its own, given below; the list above shows what most of them keep
away.

**VspVmProofs** - `TypeCorrect`; `GuestDiskKept`, `DomainHasWholeDisk` and
`CreatesOnlyMissing` on a host where the name is unique. The two invariants say
nothing of the commands between create's check and its copy, so they are not
inductive. `DiskInv` adds what makes them so: create's check, made three
commands before, still holds at its copy, because one script runs at a time and
no other command of create defines the domain (`CheckStillHolds`); the copy has
a source (`CopiesWhatExists`); only a whole copy leads to the definition
(`DefinesOverCopy`). `AbsentAssumption` tells "no guest" from a guest.
`ScriptsImplementPersistentDomain` takes the steps of VspVm to those of
PersistentDomain: define is Create, since `DiskInv` has the whole copy there
(`DefineCreates`); start is Boot; what stops a guest is Down (`HaltIsDown`);
undefine is Remove, a step of its own after Down; every other command, the copy
and a kill among them, is a stutter, because it changes nothing of an existing
domain. A guest that was booted keeps what the VM was made of (`GuestIsMade`).
`CreateReports` is `CreateReportsTheDomain` where the name is unique: the
similar name of the run `vm_similar` is the only thing that breaks it.

**VscCharmProofs** - for every list of options, every repository, any set of
relations and any choice of what may go wrong. `ControlInv` is the types and
what an earlier step of a hook has ensured for a later one: a script runs only
while the hook waits for it, a URL is there from the test of the required options
to the fetch, a template was located before it is read, the test stays within the
list. From it:

- `TypeCorrect`, the domain included;
- `HooksImplementVspVm`: every step of the unit is a step of VspVm or changes
  nothing of it, since the steps that change the store or the files are taken
  while no script runs. So what VspVmProofs shows for any client holds for the
  charm;
- `NothingUnseen`, that is `DetectionSound`, from `DetectInv`: while the test
  runs it has found no change and the options before the current one are
  recorded;
- `ToolsAreThere`: no hook after install runs on a unit whose install has not
  seen virsh and qemu-img (`ToolsInv`).

The steps of the instance `VM` of VspVm are those of the instance `VmProofs` of
VspVmProofs (`SameNext`), so that every behavior of the unit is one of VspVm
(`HooksAreClients`) and the theorems of VspVmProofs hold of it: the types, the
disk invariant that VscGuestProofs needs, and
`HooksImplementPersistentDomain`, the end of the chain VscCharm - VspVm -
PersistentDomain. Further:

- `HooksGoOn`, that is `HooksProceed`: each step of a hook or of its script moves
  to a later part of the hook (`Stage`) or has fewer turns left in this one
  (`Turns`): runs of apt-get, options to compare, commands of the script. It is
  the safety half of `HooksEnd`; what remains to TLC is that a step which can be
  taken is taken;
- `TeardownsAreBounded`, for any number of options: `CountInv` sets the teardowns
  so far, and one that is due, against the options that are recorded as they are
  configured. What the test has recorded stays recorded until the next edit
  (`RecordShrinks`), so a teardown uses one option up. It bounds what
  `TeardownsEnd` says is finite;
- `NeverDeployed`: where `check_output` gives bytes, no guest ever runs, whatever
  the operator does. The run `deploys` shows one such behavior.

**VscGuestProofs** - `GuestsHaveAddress`, that is `GuestsAreAddressed`, where the
name is unique, guestfish works, the address is a required option and every
archive has an image (`WholeArchives`). `GuestInv` follows bof.cfg, which the
hook moves out of the directory of the archive: once the store names a directory
for it, it is there or in `templates/` (`BofKept`), and when the image is written
it is in `templates/` (`BofMoved`); and it follows the image through extractions
that are cut short anywhere: the store names a directory only after a whole
extraction into it, so the image in it is whole unless `spoiled` (`StagedWhole`).
A whole image that create copies has an address (`StagedAddressed`), and both
hold of the disk of the domain (`DiskAddressed`).

**VscSettledProofs** - what an operator relies on: `LastAddressApplied`,
`LastDomainApplied` and `LastAddressPublished`, for every unit at rest, with any
number of edits. `Calm` is their host: nothing is killed or skipped, the commands
of the scripts and guestfish work, the guest does not stop by itself, no option is
set back as above, every archive has an image and none is cut short within a file
over a directory in use, no other domain is shut off or has a name like the VM's.
Extractions may still fail between two files, or anywhere in a directory not in
use, apt, the DNS and ssh may fail to answer; the unit may be upgraded and
removed, and hooks overtake config-changed. The argument goes in steps, each an
invariant:

- `Flow`: which hook is where, and in which part of the unit's life; install never
  runs again once it is through (`InstallAlone`), so what it got stays, and
  nothing is `spoiled`;
- `DomInv`: a configured unit has its VM, except while config-changed is
  replacing it (`Served`), and start is never run on another domain than the one
  create defined, so each script finds the domain it expects (`DomFlow`);
- `AddrInv`: if the running guest has another address than the configuration
  (`Wrong`), a config-changed is queued or running, and it either finds the
  address changed or has found a change before (`Noticed`); past the
  teardown it is not so any more (`Redeployed`). Between them lies the image:
  what is staged for create, and then the disk, has the configured address
  (`StagedRight`, `DiskRight`), for the configuration does not change while a
  hook runs;
- `DomainInv`: the same of the XMPP domain, which every start of the guest
  loses. It needs that the second test of options has passed nothing changed
  (`SvcCompared`) and that the guest which was just started answers
  (`AddressAnswers`), and pexpect (`Unset` speaks of units that have it).
  `LastDomainApplied` assumes that ssh works;
- `ToldInv`: a relation whose joined hook is not to come sees the address of the
  guest's disk, or the running config-changed has it in its outbox or is about
  to put it there (`Told`, of units with pexpect, whose hooks do not fail after
  start). Relations that joined before the start are queued until then
  (`JoinedEarly`); a joined hook runs only on a unit that needs no
  config-changed (`JoinsServed`); what a hook holds back to send is the
  configured address (`OutboxRight`). `LastAddressPublished` assumes besides
  that ssh works and that no hook overtakes config-changed.

`BootsWithAddress`, that is `BootsAsConfigured`, says of every moment what
`LastAddressApplied` says of rest: the one step that brings a guest up is
start's, on a disk that `DiskRight` has followed from the image it was copied
from.

**UnitStorageProofs** - `TypeCorrect` and `PastKept` for any client;
`NothingHeld` for one that writes within scopes; `HistoryIsTrue`, that is
`HistoryAgrees`, for one that also lets an exception of the store leave the
scope. `PastInv`: tables and disk differ in the present revision only. `HeldInv`:
outside of scopes they do not differ. `AgreeInv`: history and values agree for
each key in the tables and on disk, and no revision beyond the last execution is
in use, so that a number given out again meets no rows.

**HookDataProofs** - `Implements`, that HookData implements UnitStorage;
`ChangesAreDelivered` and `ChangesAreReportedOnce` for a client that writes
within scopes, removes the row of an option that is gone, and where no change is
set back before it is recorded. `DeliveryInv`: a row that is up to date was acted
on, in the tables as on disk (`ActedInv`), and in a scope the delta is what is not
up to date but for the rows written since (`DeltaInv`).

**HookExecutionProofs** - `TypeCorrect`, `ChangesAreSent`, `ChangedIsSound`,
`AddedKeysStay`, `ContextIsKept`. `ConfInv` follows the saved file: unless it is
cut short, it remembers what the last successful hook saw (`FileRemembers`) and
the keys it added (`FileKeeps`), except between the writing of the file and the
end of the process, where it holds what the running hook saw (`FileSaved`); and a
dictionary that was read is that file under the configuration of now
(`DictLoaded`), with nothing left of it between hooks (`NoneAtRest`). changed()
follows for options that have a value. `SentInv` says the same of what was sent:
but for the options of `missed`, the other units have what the saved file says,
so that what is unsent is reported; a hook returns only with what was reported
to it in `held`, which Juju sends as the hook succeeds.

**ServiceManagerProofs** - `TypeCorrect`; `LosersAreTold`, from the record a
process has loaded (`LoadedInv`) and the services told so far (`ToldInv`), which
agree unless the file is cut short or the hook ended before the record;
`ServicesAreFollowed`, where the service command works and there is a service,
from what holds of the services the loop is past (`UpInv`, `RecordInv`);
`TargetsAreFollowed`; `PortsAreFollowed`, where no two services share a port;
`StartsAreRendered`, from `TargetInv`, which follows the rendered files of the
services that are ready. In all of them the contexts are those of the data of now
unless a hook is due (`ContextInv`).

Model-checked only: the two liveness properties, `TeardownsEnd` and `HooksEnd`,
which are out of the prover's reach: what is proved is the bound and the measure
they rest on. Every other property of a passing run is proved. No module uses a
RECURSIVE operator.

## Not modelled

- `core/fstab.py`, `core/sysctl.py`, and of `core/host.py` all but the service
  command: no hook calls them, and they edit files of the host line by line
  with no state of their own.
- `scan_ip.py`: the hooks call `get_dns_ip` only, which asks two commands of the
  host and keeps nothing. The threads of the scan ping, and share nothing.
- Of `fetch/__init__.py` the sources, keys and other plugins, and
  `payload/execd.py`: not used by this charm.
- Of `fetch/archiveurl.py` the validation of hashes and the retry of HTTP: the
  charm asks for neither.
- Of `hookenv.py` the wrappers around one Juju tool each, without state, and the
  cache of their answers.
- Of `unitdata.py` a commit that fails, as on a database locked by another
  process, and the deltas of relations.
- Of `core/services/` what `provide_data` sends, and `RequiredConfig`, see above.
- `scripts/charm_helpers_sync.py`: a developer's tool.

## What is left

`provide_data` and the wait for a relation's other side would complete
ServiceManager; the deltas of relations, taken like those of the configuration,
HookData. The theorems on a unit at rest assume a host on which the scripts'
commands work: `AddrInv` would have to follow the failures that stop ignores to do
without.
