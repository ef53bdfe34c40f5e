# TLA+ models of the Pedigree package system

This directory holds a specification of the Pedigree ports and package
repository: the recipes and the local ports builder, the artifact audit, the PUP
repository service with its migration to Cloud Storage, the `pup` package
manager, and the helpers that build and qualify language ports. Modules are named
below with the source they translate; paths are relative to the repository.

## The system

    language port helpers (cache)
          |
    recipes --buildPackages.py--> output tree --audit--> pup register --> repository service
     (walks, sysroots,             (root, marker,                          (Blobstore, Datastore,
      one builder process)          PUP archive)                            Cloud Storage mirror)
                                        |                                       |       |
              qualification (QEMU) <----+            pup sync / pup install <---+   blob migration

| Part | State it keeps | Operations | Talks to |
| --- | --- | --- | --- |
| Upload handler, `pup/http/pup_http/views.py`, and mirror, `gcs_mirror.py` | Datastore `Package` records, Blobstore blobs, Cloud Storage objects (`.pup-incoming/*` and package names) | `GET /upload`, `POST /blobstore` | called by `pup register`; calls three stores |
| Catalogue, `views.py` | none (reads records) | `/`, `/packages.pupdb`, `dedup_packages`, `version_cmp` | read by `pup sync`, `pup register` |
| Wheel release and graphs, `views.py`, `pup/dist.py` | `PupModel`, `DepsModel` | `POST /pup.whl`, `POST /*.svg` | called by `dist.py`, `upload_deps.py` |
| `pup register` | none | capabilities check, upload, verification polls | upload handler, catalogue |
| `pup sync` | local package database | merge of the repositories' databases | catalogue |
| `pup install` | package cache, install root | plan, cache check, download, verify, extract | repositories, local database |
| Recipes, `packages/`, and their loading, `support/buildsystem.py` | none | requirements, steps, script check | builder |
| Dependency walks, `support/deps.py`, `buildPackages.py`, `install.py` | none | sort, closure, upload order, install plan | builder, installer |
| Ports builder, `buildPackages.py`, `support/build.py`, `support/deps.py` | output tree: `root`, `root.incomplete`, `.complete`, PUP archives, sysroots | build, audit, upload, repackage | recipes, `pup create`, `pup register` |
| `pup create` and the audit, `support/audit.py` | none (reads root, archive, marker) | pack, `audit_package` | output tree |
| Wrappers, `buildPackages.sh`, `scripts/publish-packages.py` | none | chains build/audit and upload | builder processes |
| Blob migration, `scripts/migrate_package_blobs.py` | manifest on disk, upload sessions, bucket | snapshot, resumable upload, verification | Datastore, Blobstore, Cloud Storage |
| Language port helpers, `scripts/build-codex-app-server.py`, `build-rust.py` | a cache of downloads, trees, crates with markers; package roots | download, extract, patch, vendor, compile, stage | cargo |
| Qualification, `scripts/qualify-language-ports.py`, `qualify-codex-integration.py` | disk image, serial log, result file | inject, boot, poll, evaluate; scripted provider | QEMU guest, Codex |

What makes it hard:

- several upload handlers at once (two gunicorn workers on up to two
  instances, `pup/http/app.yaml`), without transactions, over three stores whose
  calls may each fail with or without having taken effect;
- handlers, builders, helpers and installers that are killed between two steps, and
  artifacts (archive, root, marker; cached file, extracted files; tree, stamp) that are
  replaced one after the other;
- checks of a file, an offset or a record that another process changes before it is used;
- answers that are lost and requests that are acted on long after they were given up;
- logs and threads that go on while they are judged;
- a wave of builds or uploads of which one member fails; requirements that are kept by
  hand in two places.

What makes each part correct:

- *Repository*: a published name keeps its contents; a record is never visible
  without its object and blob; clients are told the truth, whatever failed; what
  an interrupted upload leaves behind does not refuse its retry and goes away.
- *Publication*: what `pup register` reports as registered is and stays available;
  at no moment does the catalogue list a package without its dependencies; an
  interrupted wave can be published again.
- *Walks and recipes*: a walk ends on every graph, refuses exactly the graphs that
  have no order, and otherwise gives each needed package once, dependencies first;
  a recipe finds in its sysroot what its steps name; an installed program finds its libraries,
  interpreters and data; a failure costs only what depends on it.
- *Builder*: marker, root and archive belong to one build when a process says it
  built a port; a success is built from the current trees of its requirements;
  only sound artifacts are uploaded by the chains.
- *Audit*: what it accepts installs as the tree that was built, as far as the Python that
  installs it lets modes and link targets through, with links that stay in the FHS, scripts that find their interpreters and programs that load from the
  target; it does not refuse what `pup create` wrote.
- *Installer*: only archives with the listed digest are extracted; dependencies come
  first, whatever is interrupted; an installed package never loses a regular file to a later
  failure or to another process, and a link only while an extraction makes it again, or because
  one was cut short at that point; a command that reports success leaves all of its plan in place.
- *Migration*: a migration that completes has the whole catalogue in the bucket, uploads
  made meanwhile included; it can always be run again; an upload leaves no gap and ends.
- *Port helpers*: what is compiled and staged is what the checkout pins, whatever is
  left in the cache and in whatever order checkouts come; a build can be repeated offline.
- *Qualification*: a pass is earned, a failure deserved, and the runner ends whatever
  the guest does.

## Modules

| Module | Models | How it corresponds to the code |
| --- | --- | --- |
| `ImmutableCatalog` | the promise of the repository | names are bound once to a digest; "ok" is said of bound contents only |
| `PupRepository` | `views.py` 184-215, 286-358; `gcs_mirror.py`; `models.py`; `app.yaml`; `gcs-lifecycle.json` | one process per request; `pc` is the next call to a store; every call is an action with its failure outcomes; the client side of Blobstore uploads (`StoreUpload`) is external |
| `PackagePublication` | `upload_all` in `buildPackages.py` 53-96; `register.py` 45-118, 170-255; `lib/http.py` 103-167; `views.py` 79-102, 238-283 | extends `PupRepository` with the publishers: `doing` is the next exchange of a `pup register`, `wave` the packages still to be registered. Handlers run on when their publisher has gone; `sent` says which requests were posted |
| `UploadContract` | the promise of `GcsClient.upload` to `migrate_one` | an object is created at most once; a conflict is only reported about a taken name; an upload that returns has handed over every byte, and one that does not may still create its object later |
| `ResumableUpload` | `migrate_package_blobs.py` 109-148, 473-618 | one upload against a service that persists parts of chunks, loses answers and acts on requests late |
| `BlobMigration` | the rest of `migrate_package_blobs.py` | extends `PupRepository`: `main` (`phase`), paged queries that are no snapshot, workers (`step`), sessions as `UploadContract` promises them, kills and reruns beside live upload handlers |
| `DependencyWalks` | `deps.py` 7-63, `order_uploads`, `_resolve_packages` | the four recursions with their stack written out: `Visit` and `Collect` are one turn of a loop of a walk (emitted, seen, path, what is left of each loop, exception) |
| `WalkResults` | the same | whole walks as recursive operators, for instances that need an order as a constant |
| `RecipeCatalog` | `packages/*/package.py` | data: one record per enabled recipe, with its requirements and what its steps take, install and call |
| `CatalogBuild` | `main`, `build_all`, `upload_all`, `load_packages`, `prepare_sysroot`, `check_script_runtime`, `InstallCommand.run`, over that data | one run of the builder on a whole catalogue, then the images: every walk one turn at a time, sysroots, skipped recipes, upload order, base image, a request to `pup`. The catalogue is the real one, or any small graph |
| `PortsBuilder` | `buildPackages.py` 53-129, 220-275; `build.py` 46-125; `deps.py` 66-107; `audit.py` 695-745; `steps.py` 438-499; the two wrappers | one builder process over an output tree that outlives it; each replacement of a file another process reads is an action; recursive deletion has an intermediate state |
| `ArtifactFormats` | `audit.py` 350-679, `buildsystem.py` 14-122, 300-319 | operators: what the checks say of `#!` lines, ELF headers and paths, archives, libtool files; the loops over words (`AfterWord`) and over the parts of a path (`AfterPart`) one turn at a time |
| `ArtifactAudit` | `CreatePackageCommand.run`, `Package.check`, `audit_package` in its order | actions: stage, check, pack in any order, somebody edits the archive or the marker, audit; the reference is what an extraction (`Installed`, member by member, with and without the data filter of Python 3.14, `Filtered`), the kernel (`Walk`, one part or link a turn) and the loader make of it |
| `PupInstall` | `install.py` 41-55, 105-113, 161-234; `lib/http.py` 43-48 | processes that share cache and root; `pc` is the next access to a file; a repository may serve anything. Regular files are renamed into place; each symbolic or hard link is removed (`TakeLink`) and made again (`PutLink`), as `tarfile` does it |
| `PortCache` | `build-codex-app-server.py` and the provisioning in `build-rust.py` | one helper at a time over a cache that outlives it; each file operation an action; `Update` checks out another state of the repository, newer or older |
| `Qualification` | `qualify-language-ports.py` | the guest (`Script`, `Kernel`, `Exit`) writes the log while the runner polls it, a case that ends in the middle of a line included; injection and read-back before |
| `CodexIntegration` | `qualify-codex-integration.py` | the runner, one handler thread per connection, and a Codex that may do anything, drop its connections or survive its kill included |
| `RepositoryProofs`, `PupInstallProofs`, `PortsBuilderProofs`, `PortCacheProofs`, `QualificationProofs`, `CatalogBuildProofs`, `ArtifactAuditProofs` | - | inductive invariants and theorems about the module each is named after; `RepositoryProofs` has those about `PupRepository`, `PackagePublication`, `BlobMigration` and `ResumableUpload`, `QualificationProofs` those about `CodexIntegration` too, and `CatalogBuildProofs` those about the walks |
| `NaturalRecursion` | - | induction and recursion over the natural numbers, as lemmas the proofs about loops cite |
| `MC*` | - | instances for TLC |

`MCPortsBuilder` and `MCPupInstall` compute the orders and plans that `PortsBuilder`
and `PupInstall` take as constants with `WalkResults`, so that the
assumption each of them states about its constants (`BuilderAssumption`,
`InstallAssumption`) is checked against the translated code, while the two
modules themselves stay free of recursive operators. These assumptions are all the
proofs about the two modules use: that the build order of a selection has each of its
ports once and requirements first, and that a plan has dependencies before what needs them.
That the walks give such orders for every graph is proved in `CatalogBuildProofs`.

Abstractions that are common to all modules: contents, digests, names and
versions are values that can only be compared; texts, headers and log lines are
left out. In `PupRepository` a legacy package (published before there was a
mirror) is a record and a blob which the migration script may or may not have
mirrored before the service starts. In `PortsBuilder` a tree is the number of
the build that wrote it and whether all of it is there; in `PortCache` it is, file by file, the
pin it came from. In `PupInstall` an
archive is the listed one, another whole one, or a partial one; hashing a file
is one step. In `CatalogBuild` linking follows `ld`: a library whose shared object is in the
sysroot is needed at run time, an archive is not. In `RecipeCatalog` what a recipe's
`configure` is left to find in its sysroot is read from its options; libraries of the
cross compiler and of the base system are left out.

## Runs

| Run (`.cfg`) | Bounds | Question |
| --- | --- | --- |
| `repository` (`MCPupRepository`) | 2 concurrent requests, a new and a legacy name, 3 archives (two of one size), 2 dependency lists, 14 forms | safety of the upload protocol, that it implements `ImmutableCatalog`, and that staging objects go away |
| `publication` (`MCPackagePublication`) | 2 publishers, 2 requests, 2 polls; a wave of a library and a program that needs it, a new version, rivals in bytes or dependencies | the catalogue is closed under dependencies, retries are not refused, what is registered stays published |
| `resumable_upload` (`MCResumableUpload`) | archives of 0, 1 and 5 units, chunks of 2, the code's limits of 3 attempts and 5 stalled rounds | no gap, an end, and `UploadContract` |
| `blob_migration` (`MCBlobMigration`) | 2 legacy packages, a new name, one upload handler, 2 workers, 2 runs of the script | a completed migration has mirrored the catalogue and can be run again |
| `install` (`MCPupInstall`) | 2 processes, 2 packages, one with a link, and one that cannot be planned, 3 commands, 2 repositories, any initial cache; `FailuresAlone` | dependencies come first, nothing installed is damaged, only verified archives are extracted, and success means that all is there |
| `catalog_build` (`MCCatalogBuild`) | the 84 recipes, with any one file that cannot be imported or any one build that fails; and every graph on 3 names with lists of up to 2 entries, an unknown name, 4 selections | the walks against their reference; recipes against their sysroots and images |
| `builder` (`MCPortsBuilder`) | 3 ports, 4 selections, 4 chains of processes, 4 builds begun | soundness and freshness of artifacts and uploads |
| `builder_sysroot` (`MCPortsBuilderSysroot`) | as above, builds only | violated: `SysrootsAreWhole` |
| `artifact_audit` (`MCArtifactAudit`) | 2 packages; trees with hard and symbolic links, a link of every shape at every depth, three links that go through each other, every mode, `#!` lines, ELF fields; every packing order, 2 edits of the archive, a cut or a lost marker | the audit accepts what installs well and nothing of its own is refused |
| `port_cache` (`MCPortCache`) | 1 component, 2 checkouts in any order with other toolchains, patches, locks and files; archives of 1 and 2 files | what is compiled and staged is what the checkout pins, and a build can be repeated offline |
| `qualification` (`MCQualification`) | 2 cases that share a marker, 1 line each, with or without its end, 1 kernel message, 2 files to install | passes are real, failures deserved, and the runner ends |
| `codex_integration` (`MCCodexIntegration`) | 3 requests (one more than is expected) of 3 kinds | a pass is two checked requests; killed requests do not keep the verdict |

Why the bounds are enough. *Repository*: every race is between the calls of one
handler and what the others made of one name, one blob and one record; two
requests give every order of those, the legacy name gives the other path of the
handler, and archives of equal size tell a check of sizes from one of digests.
Three requests on one name were explored once without an error; the proofs hold
for any number. *Publication*: two requests are a first attempt and one beside it
that is left over, or the two of a wave; two
polls are one that is repeated and one that is the last (`VERIFY_ATTEMPTS` is 5).
The number of requests bounds the behaviours: a publisher that finds none left can only
fail. `CatalogueIsClosed` has the premise `WavesAreClosed`, since `order_uploads`
ignores dependencies outside the wave: that a selection is closed, or completed by
what is published, is up to the operator. *Upload*: five units are two whole chunks and a
short last one, none and one are the boundary cases. *Migration*: two legacy packages let two
workers run beside each other, and a second run meets what the first one left, a session that
completes late included. *Walks*: three nodes give self-loops, cycles of two and three,
diamonds, and unknown names at every depth. *Builder*: build and upload order
differ, requirements have depth two, and four builds are one complete wave and
one rebuild, with processes in between; the bound is `MaxBuilds`, in the guard of
`Prepare` (a further build raises). *Audit*: two edits are a member replaced by another, and
the names of the trees meet at every depth the walk distinguishes; `MaxDetour`, the number of parts that links may add to a path
before a walk counts as one that never ends, is more than any link of the instance adds. *Installer*: two packages give a
dependency, one link is in place, in a hand or dropped, and any initial
cache stands for whatever earlier processes left. A second repository and a plan that fails only matter to the process that meets
them; the constraint `FailuresAlone` leaves out the states in which they are met beside another process. *Port cache*: the second checkout
changes some pins and keeps others, so that a stale tree can be told from a current one; each archive of the compiler has a file the other
lacks, so that files are left over, and one source has two files, of which one may be patched or missing. Components share
the compiler, the headers and the crates, and only the lock tells whose crates are there: what a second component would leave
in the cache is what another checkout with another lock leaves. The proof is for any number of both.
*Qualification*: a marker that two
cases share shows whose section it was found in; one kernel message falls before, after or in the middle of
any line, and the proof is for any number.
*Codex*: a third request is one too many.

`CHECK_DEADLOCK FALSE` is used where a behaviour may end: requests are finite
(`repository`, `publication`, `blob_migration`), or the model is of one upload, one
audit, one build of a catalogue or one test. The builder, the
installer and the port helpers can always be invoked again, and deadlock is checked.

### Fairness

- `repository`: a handler that has begun continues or is killed (gunicorn runs with
  `--timeout 600`), and the lifecycle rule of `gcs-lifecycle.json` is applied to each
  staging object that is left. No store call is assumed to succeed.
- `resumable_upload`: the client takes steps, since every request has a timeout. Nothing is
  assumed of the service, which may never answer.
- `qualification`: the polling loop goes on (it sleeps a tenth of a second) and the clock
  advances. Nothing is assumed of the guest, which may hang or print for ever.
- `codex_integration`: the runner's waits and the handlers' socket reads have timeouts.
  Nothing is assumed of Codex.

All are weak fairness of one process. The other runs check safety under no fairness.

### What the violated run shows

`SysrootsAreWhole`: `build_package` deletes an old root file by file and leaves
the old `.complete` marker beside it. After a kill, or after a deletion that stops at an
error, `prepare_sysroot` takes the rest for a completed build
(`support/deps.py` 81-85). The audit finds such a tree (`ChainedUploadIsSound`),
and the builder itself never reports one as built (`BuiltIsSound`).

### Known limits of the code

The following are visible in the models and are why some properties have the premise
they have; no run is devoted to them.

- *Dependency lists of racing first uploads.* The handler queries and then puts without a
  transaction (`views.py` 322, 348). Two concurrent first uploads of one version with the
  same bytes and different dependency lists are both answered "ok" and leave two
  records, whereas `pup/http/README.md` 64-67 says that an attempt to change the
  list is answered with 409. `RecordsAgreeOnSha1` is what survives the race.
- *A shared package cache.* The archive is opened by its path after it was verified
  (`install.py` 227), and another install may have replaced it: `OnlyVerifiedIsExtracted` is
  about a process that is alone (`Alone`), and so is `OkIsInstalled`, since another process may have
  removed a link that this one made. `DependenciesComeFirst` and `InstalledSurvives` hold for any number.
- *Links of an installed package.* Only `makefile` is overridden (`install.py` 41-55): a link is made by
  `tarfile.makelink`, which unlinks what is there first. A kill or a full disk in between takes a link from a
  package that was whole (`dropped`), and so does a second process that extracts the same link and fails on it
  (`FileExistsError`). The next installation that succeeds puts it back (`OkIsInstalled`). Packages are
  taken to own different paths.
- *Interrupted vendoring.* `cargo vendor` is killed after `vendor.toml` was opened for writing,
  while the crates' stamp is still that of the old lock (`build-codex-app-server.py` 130-137): when that lock
  is wanted, the next run skips the vendoring and `cargo --offline --locked` refuses. `CompilesFromPinnedInputs` and
  `StagedIsPinned` hold, since cargo checks what it reads.
- *A pin that comes back.* The port helpers remove an outdated tree file by file, its marker at no particular
  moment (`build-codex-app-server.py` 39 and 54, `build-rust.py` 79). A helper builds the
  source with patch 1, patch 2 is checked out, its helper is killed in the removal while the marker of patch 1 is still there, and
  patch 1 is checked out again: `source_tree` trusts the marker, cargo compiles what is left, and `build.json` names
  patch 1. A branch switch or a revert is enough for it. Checkouts come in any order in the model, and the trees this can
  happen to are the history variable `interrupted`, which `CompilesFromPinnedInputs` and `StagedIsPinned` except; they
  hold of every other tree. `provision` removes its marker before it copies (`build-rust.py` 98), so that a prefix
  is only in `interrupted` if it was copied from such a component.
- *What the audit reads by its text.* The target of a hard link is checked for its form, and not that
  it is an earlier member of one mode with the link, as `tar.add` writes it (premise
  `LinkedAsCreated`, `audit.py` 187-200). In the target of a symbolic link the audit pops a name for every `..`, also when
  that name is another link (`audit.py` 275-284): with `usr/g -> /lib` and `lib -> /etc`, the link `usr/d/h -> ../g/../x`
  passes as `usr/x`, while the kernel goes to `/x`, which is not in the FHS. Such a target is what `ReturnsFromLink` excludes from
  `LinkStaysInFhs`; targets that go on through other links, in any number and depth, are not excluded.
- *The Python that installs.* `extractall` is called without a filter (`install.py` 232). Python 3.14, the
  one in `packages/python3`, then applies `tarfile.data_filter`: set-id bits and the write bits of group and others are
  dropped, directories get the mode of a new one, the owner may always read and write, link targets are normalised, and an absolute
  symbolic link ends the extraction, although the audit accepts one that leads into the FHS. `InstallsWhatWasBuilt` says
  what an extraction gives with this filter and with none (`Filters`), and that an absolute link is the only reason for a
  refusal. It is for the install root `/`; under another root the filter also refuses links that lead out of it.
- *Output without an end of line.* The boot script's `echo` of a status does not begin a new line. The status of a case whose last output
  ended no line stands behind that output, the anchored pattern misses it (`qualify-language-ports.py` 115), and
  the run fails though each case exited with 0. `FailureIsJustified` lists this cause (`unended`); it never makes a run pass.
- *Connections that Codex drops.* A connection that is silent or closed before its request is read, or that asks for
  anything but a POST, ends in `http.server` without an entry in `errors` (state `dropped`): a pass does not say that there
  were none. A Codex that survives its SIGKILL by ten seconds ends the program with an exception and no result (phase `raised`).
- *Exceptions of the audit.* `audit_packages` catches `AuditError` and `OSError`
  (`audit.py` 737). An archive too short to be opened is refused; one that ends later, a hard link that leads back
  to itself through symbolic links (`Endless`), or a script that is no UTF-8 raise
  something else and end the whole selection. The status is then no success either, so that
  no property is affected.

## Proofs

57 theorems in seven modules, for any values of the constants that satisfy the named assumptions. They
state every safety property that a passing run checks, action properties and refinements included. Each inductive invariant was first checked by TLC
as an invariant of the component's run. `NaturalRecursion` has no theorem of its own about the code.

| Theorems of | Assumptions on the constants |
| --- | --- |
| `RepositoryProofs` | `ConstantsAssumption`; `PublicationAssumption` for the publishers; `DigestAssumption` for `MigrationsAgree`; `UploadAssumption` for `ResumableUpload` |
| `PupInstallProofs` | `InstallAssumption` |
| `PortsBuilderProofs` | `BuilderAssumption` |
| `PortCacheProofs` | `CacheAssumption` |
| `QualificationProofs` | `SuiteAssumption`; `ConnectionsAssumption` for `CodexIntegration` |
| `CatalogBuildProofs` | `CatalogAssumption` |
| `ArtifactAuditProofs` | `AuditAssumption` |

### Repository

The first part of `RepositoryProofs` proves the safety properties of the run `repository`, and
that `PupRepository` implements `ImmutableCatalog`, for any sets of requests,
names, archives, digests and dependency lists, from `ConstantsAssumption` only: the
hash is a function of the contents, legacy packages are consistent with their
records, and keys, names and `None` are distinct. It also proves what no run lists:
type correctness (`TypeOK`), that every record is backed by an object with its digest
(`PublishedIsMirrored`) and by a blob (`RecordsAreServable`), that an "ok" is about a
recorded package (`OkMeansPublished`), that a refusal leaves no record (`RefusedIsNotPublished`), and that no
step replaces an object (`MirrorIsImmutable`).

None of the properties is inductive: that a `put` keeps `PublishedIsMirrored`, for
example, rests on the object which the handler found or made several calls
earlier. The invariant `IInv` therefore says for every handler

- `Local`: what its position says about its form, status, blob and staging object,
  in particular that the digest was checked before anything is copied;
- `Known`: what the record it found says about its upload, and that a name without
  a record is not a legacy name;
- `Achieved`: what it has achieved (the object is in the bucket before the put) and
  what its response rests on;

and for the stores

- `RecordInv`: a record is a legacy record or was put by a handler that has ended,
  and is backed by an object and a blob;
- `LegacyInv`, `BucketInv`: legacy blobs stay, and an object's metadata is the digest
  of its bytes.

`OtherHandlers` shows once that the stores only grow (`StoresGrow`) and that this
preserves the invariant of every handler that does not move; one lemma per action
treats the handler that does. `Refinement` maps a name to the digest of its object or of its
legacy record: `Copy` binds a name or stutters, the last step of a successful
handler acknowledges, and every other step is invisible.

`Promises` derives the six properties of a state from `IInv`; the proofs about
publication and migration cite it.

### Publication

The second part of `RepositoryProofs` first proves `Composition`: every step of publishers and service
together is a step of `PupRepository` or a stutter, so that `IInv` and all theorems above
hold of the composition. On top of it,

- `Registration` proves `RegisteredIsPublished`. Its invariant `PInv` says that the request a
  publisher waits for has the form of the package at the head of its wave, that this package is
  published (in the sense of `Achieved`) once the answer was "ok", and recorded with its
  very dependencies once the catalogue entry matched. `Stable` (records and objects
  stay, requests keep their forms) carries it through the steps of everyone else;
- `ClosedCatalogue` proves `CatalogueIsClosed`. The property is not inductive: a record may be
  written long after its publisher has gone. `CInv` adds that what a form needs is
  recorded from the moment its upload URL is asked for, and that what the rest of a wave
  needs is recorded or earlier in the wave; the head of a wave is only dropped once it is recorded;
- `Retries` proves `RetriesAreNotRefused`, whose premise `WavesAreGenuine` says that publishers register archives as
  `pup create` writes them. A refusal goes back to what another request stored, and that request may be
  long gone: `SInv` says that every record and every object is a legacy one or what a posted form describes, `GInv` that
  every form that was asked for comes from such a wave. `Achieved` gives
  a 409 its cause in the stores, and that is then a form with other contents.

They use `ConstantsAssumption` and `PublicationAssumption` (waves are non-empty sequences
of forms, names and dependency keys are functions).

### Migration

The third part of `RepositoryProofs` works on the composition of the migration with the upload handlers. Neither side can
be treated alone: the migration relies on records and objects that stay, and the handlers' invariant has to
survive objects which an upload session creates. The proof shows `IInv /\ MigrationInv` inductive:

- `CreateObjectKeeps`: an object a session creates is the archive of a recorded package (`HeldInv`), and only a
  legacy record can lack its object, so that a handler which meets it meets the digest it expects;
- `GrowthPreserves`: what handlers do only makes the stores grow, which `MigrationInv` tolerates;
- `LegacyInPass`, `ResultInv`: no legacy package is skipped between the two queries, and a run
  that goes on after its workers has a good result for each; with `PublishedIsMirrored` for the rest of the
  catalogue this is `CompletedIsMirrored`;
- `FinalInv`: what was recorded when the last worker ended is read by the second query, hence `ManifestIsCatalogue`.

`HandlersKeepPromises` and `MigrationNeverReplaces` carry the theorems about the repository over to the composition.
`DigestAssumption` (no two archives with one SHA-1) is needed since the mirror compares SHA-1 values and the
migration MD5 values as well.

It also proves of `ResumableUpload`, from `UploadAssumption` (sizes are naturals, limits positive), for archives and
chunks of any size, that the client's offset is never beyond what the session holds
(`OffsetSafety`) and that `ResumableUpload` implements `UploadContract`
(`UploadKeepsContract`), which is what `BlobMigration` assumes of an upload. The invariant
`UploadInv` adds to the offset what else rests on the session: requests that may be acted upon late lie
within the archive, an object this upload created and an upload that returned have all bytes, and only an upload that
has not begun yet has neither offset nor late requests.

### Installer

`PupInstallProofs` treats any number of processes over one cache and one root. `DependenciesComeFirst` is about the
root and becomes inductive with `OrderInv`: what a process has still to install is in the order of its plan, and a dependency that comes
no more is installed. Nothing a process does can disturb the `OrderInv` of another, since no step
takes a regular file of an installed package away, and a link only into the hand of the process that makes it again (`LinksLeave`,
`InstalledStay`). `LinkInv` accounts for every link of a package that is whole, or of which an extraction is under way: it is in
place, in a hand, was dropped, or is still to come (`Covered`). `AloneInv` is what a process knows about the file at the cache's path as long as
nobody else has run: it is the one that was verified, and only this process has it open. `DoneInv` adds that what such a process has
taken off its queue is whole, links included, from which `OkInstalls` derives `OkIsInstalled`.

### Builder

`PortsBuilderProofs` takes an output tree in which killed processes have left anything. What a process says it has
built is not what it has just written but what is still there after the rest of the wave: `MadeInv` says that each completed port
is sound and that the sysroot it was built in shows its requirements as they are now, `QueueInv` that neither a completed port nor
one that it needs is in the queue any more. `PortInv` says how far root, marker and archive of the port
under way have become those of this build, through the two renames and the deletion. `WaveIsSound` holds from the
success of a build or an audit to the end of the upload that follows it; there is one builder process at a time.

### Port cache

`PortCacheProofs` rests on `MarkInv`: what a marker names, its tree holds, unless a helper is at work under the marker or
the tree is in `interrupted`. Nothing is assumed about the order of checkouts. It holds through killed extractions, patches and removals,
because a marker is written after its tree is complete, a helper only removes a tree whose marker is not the wanted one, and a
kill in between puts the tree into `interrupted`, which it leaves when a marker is removed or a later helper has
written the tree anew. That a copy of an interrupted component is one itself is the only way from one tree to
another. `PassedInv` and `TreeInv` say what a helper has already checked at
each place, and that no later step of the same helper undoes it; `RepeatInv` says that a repeated helper finds everything in the cache and therefore
never comes to a place that needs the network.

### Qualification

`QualificationProofs` is about suites of any length whose cases print what they like. `EvaluateOutput` is a computation over the
log, and the proof has two halves. The first is about sequences: how `SerialLines`, `Statuses` and `Cursor` change
when a piece is appended to the log. They are recursive functions on the naturals; `Recursion` (of `NaturalRecursion`) shows that such
a function exists and obeys its equation, `NatInduct` is induction in the form of a set of naturals that contains 0 and the successors of its
elements, and both rest on `LeastNat`, the least element of a set of naturals (`WFMin`).
`PiecesAreMade` and `SerialLinesAppend` say that a kernel message, a line cut by one and a line whose rest is
still to come never change the lines read so far.

The second half is the invariant. `TextOK` describes `Text`, the log with its unfinished line: `Framed` (the lines
before BEGIN and after END), `BegunOnce`, `OutputOfACase`, `StatusOfACase` (each status after its begin and its output),
`RunningCase`, `EndedCases` and `StatusesInOrder` relate it to where the script is (`ScriptOK`) and to what
the guest has really done (`exit`, `printed`). One lemma per step of the script shows that it appends a line of the right kind. `PassIsEarned` walks `Cursor`
case by case through such a text: what is found between a case's begin and its status was printed by this case. `FailIsDeserved`
shows that each other verdict but "pending" needs a failed case, a fatal line, a missing marker or output that ended no line:
`HiddenOK` follows the texts in which a status was hidden, where the name of the case is in no status that can be read, so that there is
no pass either (`HiddenIsMissed`). A complete text is
read only when the script is over, since END is its last line (`EndIsRead`). `RunnerOK` carries the verdict, and
the verified disk, to the result.

### Codex test

The second part of `QualificationProofs` (`ExchangeInv`) relates the threads of `CodexIntegration` to what they have counted: `CountInv` says that the requests are those of
handlers past their count, each once, `AnswerInv` that an answered request had its place in the exchange and a rejected one is among the
errors, `OverInv` that no handler is under way after `server_close`. At the verdict two requests without an
error are therefore two different answered ones.

### Walks and catalogue

`CatalogBuildProofs` treats any catalogue that satisfies `CatalogAssumption` (it is finite, its lists are sequences, and `Sorted`
has all its names), with any cycles and unknown names, any `--only-depends`, any file that is lost and any failure.
The walks are loops over an explicit stack, so that what a recursion computes becomes an invariant of steps:

- the reference. `Closure` is defined by as many rounds as there are names. `ClosureIsLeast` shows that this is enough, for any finite graph:
  a round that adds nothing closes the set, and a chain of rounds that each add a name would be longer than the graph is
  large. From there on a closure is known by what it is, the least closed set, and `OrderIsPlan` turns "every prefix is closed, nothing
  twice" into `IsPlan`;
- the loop invariants. `Visiting` says of a walk of `sort_dependencies`, `order_uploads` or `_resolve_packages` that the
  emitted names are in order and below what was asked for, that each name on the path needs the next one, that a list under way is, but for its rest, emitted or entered, and that an
  exception has its cause: a name below the wish that is unknown or on a cycle. `Collecting` is weaker, because `collect_dependencies` has no notion
  of a cycle: what is seen is emitted or on the path. One lemma per way a turn can go (leave, pass, enter, raise) shows that they are kept;
  `VisitEnds` and `CollectEnds` read off what a finished walk returns: `out` is a plan of the closure, or the closure is
  not resolvable;
- the run. `IInv` has the walk under way at each stage (`SortFits`, `SelectFits`, `UploadFits`, `ResolveFits`), the queue (`QueueFits`:
  what waits has its requirements before it or done with), what is done with (`SettledFits`: a built recipe has all its requirements built,
  a blocked one has one that is not) and the build under way (`WorkFits`). `BuildsInOrder`, `UploadsInOrder` and `PlansAreComplete` are the three
  action properties of the run; `FailuresStayBelow` follows since what is built is closed under requirements. `SysrootsHaveWhatIsBelow` is the reason
  why `prepare_sysroot` may copy what it finds: `collect_dependencies` succeeds on every recipe that is not blocked, and each root it
  names is built.

The recipes keep by hand, in two lists, what their steps and their programs need. Three premises about the recipes alone
say that the lists are complete: `RequirementsAreListed`, `LibrariesAreListed` and `UsesAreListed` compare each recipe with the closure of its lists.
`BuildsHaveWhatTheyName` and `ProgramsRun` prove that this is enough for `BuildsLackNothing` and `InstalledProgramsRun` (`LibrariesComeFirst` and
`ProgramsFindWhatTheyUse`) in every run, for any catalogue: no order, lost file, failure, selection or request can take away what
the lists lead to. `ContentsInv` carries this through the run: a root was linked with what the whole catalogue offers (`RootsFit`), the image is closed under
dependencies at every moment, and what it lacks of the base is in the plan (`ImageFits`). TLC finds the three premises true of the 84 recipes, and the
mutants of the run `catalog_build` are recipes of which one is false.

Induction is again `NatInduct`, and the recursive functions (`Closure`, `Among`) exist by `Recursion`.

### Audit

`ArtifactAuditProofs` treats any selection, any trees with any links, any archive that whatever number of edits leaves of what `pup create` wrote, and any `#!` lines
and ELF fields. `AuditAssumption` says what a directory tree is (`IsTree`: finite, no `.`, `..`, `/` or empty part in a name, and
what is not at its top is in a directory of it), what an inode with several names is (`AreTwins`), that only files have data and only links a
target, and that no option or assignment of `env` has the name of an interpreter.

The invariant is about who has looked at what. `Known` says of each phase what the phases before it have accepted, `AuditInv` that a package that
passed has all of it (`Audited`) and that a success means every package passed, `BuildInv` that an archive nobody has touched is what `Member` makes of some order of the tree.
What has been accepted is then compared with what really happens, in five arguments of their own:

- `OwnArchives`. `CreatedPasses` shows that the members of any order of the tree have safe and distinct names, and that each hard link has data;
  `DataFacts` that following links one more time changes nothing once data has been found, so that the payload read back is the tree.
- `Interpreters`. The audit's loop over the words after `env` and what `env` does are two scans with different states; `EnvAgrees` relates them word by word, and
  an option that is taken for a command has no provider.
- `Programs`. An `$ORIGIN` path is resolved by the audit part by part and walked by the loader part by part. `WalkIsResolved` shows for any tree that
  the two agree on a path that meets no link, and `ResolvedPlain` is the case without `..`.
- `Installs`. An extraction is a recursion over a disk of names and inodes, in which a member may be placed through links that are there by
  then. In an archive that was vouched for it never is: `VouchedArchive` derives from `MembersOk` and `SamePayload` that every member is a new name of the tree, and `PathOnDisk` that no
  directory above it is a link, so that a path leads to itself (`PlainWalk`). Then the disk after k members has a closed form (`After`: the names so far, each with the
  node of its own member or, for a hard link, of the member it was linked to), `InstallStep` carries it over one more member, and
  `InstalledIsKept` reads the tree off the last one. The data filter changes modes and targets of single members only, so that a filtered archive is
  an archive of the filtered tree (`FilteredKeeps`), of which the same argument holds.
- `LinksStay`, for any number of links that go through each other. `TextInFhs`: read by its text, an accepted target ends in the FHS. The kernel
  leaves the text where it meets a link. The invariant of its walk (`Bound`) is that it stands in the FHS and has only
  parts without `..` to go, or that it stands where the text of some link's target stands after some of its parts, with the others to go and then
  only parts without `..`. `StaysBound` is one turn: a link that is met is entered at its directory or, absolute, at the
  root (`EntersLink`, `AbsoluteTarget`), which the second case describes, because by the premise of the property no `..` is left of the target
  that came to the link. `LinkLeads` reads off where the walk ends.

The proofs are also the reason for a condition in `LeadsIntoFhs`: a target that comes back to its own link (`usr/g` to `g/x`) passes
the audit, and the kernel gives it up. A leaf that could not be proved also showed that the arms of two `CASE`
expressions (`InterpreterName`, `InstallMember`) overlapped, which leaves the value open; they are now written in the order of the code's tests.

### Only model-checked

- Liveness: `StagingIsReclaimed`, `UploadEnds`, `RunEnds`, `VerdictComes`.
- That the 84 recipes are complete in the sense of the three premises above: data, which TLC evaluates with every lost file, failure and request.
- That a walk ends, which is liveness and no property of a run. Each turn takes a name off a loop, and a list is entered once per
  name, since `Visiting` keeps what is on the path and what is emitted apart.

## Not modelled

| Part | Why |
| --- | --- |
| Catalogue pages, `version_cmp`, `dedup_packages` | read-only; `version_cmp` is not transitive over versions of mixed shape, so that "the latest" depends on the order of the query and no document says what it should be. `PackagePublication` takes the order of versions of one package (`Rank`) as given |
| Wheel release and dependency graphs | a check and a put by one administrator; nothing in the code or its documents says what two at once should do |
| Package download | a query and a blob lookup; that what it looks up is there is `RecordsAreServable` |
| `pup sync`, configuration | the local database is rebuilt by every sync |
| `repackage_all` | writes a marker before its archive; what a later run should do with what a kill leaves is not said, an upload refuses it |
| Build environment, compilers' command lines, downloads and patches of recipes | command lines and environment variables, no state beyond the directories of `PortsBuilder` |
| `build-v8.py`, `stage_native`, the state probe, `build_ripgrep` | linear scripts, no state from run to run beyond what `PortCache` models of the others |
| What probes test inside the guest | programs of the guest |
| Legacy build scripts and build workers | superseded by `buildPackages.py` |

## Plan

1. Repackaging as further actions of `PortsBuilder`, with a kill between marker and
   archive, once it is decided what a later run does with the rest.
2. `pup sync` composed with `PupInstall`: several sync processes and the readers of the
   database.
