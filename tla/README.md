# TLA+ models of the sailfish-secrets daemon

This directory holds TLA+ models of the secrets daemon in `src/daemon`. It
also holds the TLC configurations that check them on small instances and the
TLAPS proofs of the queue's invariants. `PROJECT.json` lists the following:

- every component;
- every run;
- the mutant that each property must catch;
- the source lines each definition models;
- the findings;
- the hazards;
- the theorems.

## The system

The daemon is one Qt process with one event loop. Nothing in it runs
concurrently. Concurrency comes from the order of events: DBus calls, queued
`handleRequests()` invocations, authentication plugins that report back later,
and timers.

- **Request queue.** `src/daemon/requestqueue.cpp` and
  `SecretsRequestQueue` in `src/daemon/SecretsImpl/secrets.cpp`.
  - Every DBus method of `SecretsDBusObject`, and every secrets request made on
    behalf of the crypto daemon, calls `handleRequest`. That calls
    `enqueueRequest`, which does three things:
    - it takes the next free id after a function-static `quint64` counter, with
      wrap-around;
    - it appends a `RequestData` record to `m_requests`;
    - it posts `handleRequests()`.
  - A `handleRequests()` pass walks `m_requests` from the front:
    - a Pending record is marked InProgress and handed to
      `handlePendingRequest`;
    - a Finished record is answered by `handleFinishedRequest`;
    - an InProgress record is skipped;
    - after about 100 ms the pass re-posts itself and yields.
  - `requestFinished(id)` marks the record with that id Finished and posts
    another pass.
- **Request processor.** `src/daemon/SecretsImpl/secretsrequestprocessor.cpp`.
  - Each operation is one synchronous handler. It does the following:
    - it validates its arguments against the master SQLite database, the
      Collections and Secrets tables;
    - it calls a storage, encryption or encrypted-storage plugin;
    - it keeps two in-memory caches: `m_collectionAuthenticationKeys`, and the
      relock timers in `m_collectionLockTimers`.
  - When a custom-lock collection needs a key, the handler does three things:
    - it calls `beginAuthentication` on an authentication plugin;
    - it parks its arguments in `m_pendingRequests`;
    - it returns Pending.
  - Later `authenticationCompleted` takes the parked request, runs the
    `...WithAuthenticationKey` continuation and calls `requestFinished`.
- **Plugins.** The plugins (`src/plugins`) are given in `src` only by their
  headers. The OpenSSL helpers (`evp_p.h`) do the AES encryption.

## Modules

| Module | Models | Checked by |
|---|---|---|
| `RequestQueue` | the queue: `enqueueRequest`, `handleRequests`, `requestFinished`, the reply and erase decisions of `handlePendingRequest` / `handleFinishedRequest` | `MCRequestQueue` |
| `RequestQueueProofs` | TLAPS proofs about `RequestQueue` | `tlapm` |
| `SecretsCollections` | the collection operations of the request processor and `authenticationCompleted` | `MCSecretsCollections` |

### RequestQueue

| Code | Model |
|---|---|
| `m_requests` | the sequence `requests` of records `[id, tok, status]`. `tok` is a ghost name for one accepted call, because ids are reused. |
| the static counter | `requestId`, in `0..2^W-1` |
| queued `handleRequests()` invocations | the count `posted` |
| iterator position during a pass | `cursor` (0 when no pass runs) |
| ids the processor holds a pending authentication for | `parked` |
| (ghosts for the properties) | `replied`, `calls` and `started` |

The actions map to the code as follows:

- `EnqueueRequest` is `handleRequest` with `enqueueRequest`. `FreeOffsets` and
  `FirstFreeId` are the search loop of `enqueueRequest`.
- `BeginPass` is an event-loop turn that starts a pass.
- `HandlePending`, `HandleFinished` and `SkipInProgress` are the three branches
  of the loop body. `HandlePendingRequest` and `HandleFinishedRequest` are the
  processor-side decisions of `secrets.cpp`.
- `Continue` is the erase or advance of the iterator, followed by the yield
  check.
- `EndPass` is the end of the loop.
- `AuthenticationCompleted` is the `requestFinished` call at the end of the
  processor's `authenticationCompleted`. The `RequestFinished` operator models
  `requestFinished` itself.

Elapsed time is not modelled. Yielding is a nondeterministic choice after any
record that was handed to the processor or answered. Skipping an InProgress
record is treated as taking no time, so a pass made only of skips does not
yield.

### SecretsCollections

The state is the following:

- `collections`: the Collections table, name to row (owner,
  UsesDeviceLockKey, plugin names, authentication plugin, unlock semantic and
  access-control mode);
- `secretRows`: the Secrets table;
- `pcoll`: the collections that exist in each plugin;
- `pdata`: the payloads, each with the key it was written under and, as a
  ghost, its writer;
- `ekey` and `unlocked`: what an encrypted-storage plugin remembers, namely
  the creation key and whether the collection is unlocked;
- `keys`: `m_collectionAuthenticationKeys`;
- `timers`: `m_collectionLockTimers`;
- `pending`: `m_pendingRequests`;
- `flows`: the authentication flows the plugins are running;
- `last`: a ghost for the reply to the last request.

There is one action per handler:

- `CreateDeviceLockCollection`;
- `CreateCustomLockCollection`;
- `DeleteCollection`;
- `SetCollectionSecret`;
- `GetCollectionSecret`;
- `DeleteCollectionSecret`;
- `TimeoutRelockCollection`;
- `AuthenticationCompleted`, which dispatches to the four continuations.

Each action contains the whole handler, from its checks in the code's order to
its plugin calls, compensations and cache updates. The shared pieces are
operators:

- `CreatePluginCheck`;
- `CreateInPlugin`, the commit, the plugin create and the compensation;
- `UnlockOrPark`, the isLocked / cached-key decision, CollectionIsLocked,
  Prevent mode, `beginAuthentication` and parking;
- `EncUnlock`, the `setEncryptionKey` dance of the continuations;
- `Decrypt`;
- `DeleteRecheck`, the continuation's second look at the row.

Every plugin call and every database statement that can fail has both outcomes
when `PluginCanFail` / `DbCanFail` is TRUE. `NewCall` picks a request id no
parked request holds. This is the queue's free-id search seen from the
processor. The processor only compares ids for equality, so the lowest free id
stands for any.

The model rests on these assumptions:

- **Database schema.** The schema is created outside `src`. The model assumes
  the foreign key from Secrets to Collections with `ON DELETE CASCADE`, so
  deleting a Collections row deletes its Secrets rows, and an insert of a
  Secrets row for a missing collection fails.
- **Plugin behaviour.** The plugin sources are not in `src`, so the model
  assumes the following:
  - an encrypted-storage plugin unlocks only with the key the collection was
    created with;
  - after `createCollection` the collection may be open or locked;
  - removing a collection the plugin does not have succeeds;
  - decryption under the wrong key fails or yields garbage, as AES-CBC with
    PKCS padding does.
- **Unlock semantics.** The code compares only `CustomLockTimoutRelock`. The
  other custom semantics behave like `CustomLockKeepUnlocked`, and the
  device-lock semantics are never compared. So the model keeps one
  device-lock semantic and two custom ones.
- **UnknownError branches.** The "unknown continuation" and "unknown pending
  request" UnknownError branches of `authenticationCompleted` are left out.
  Every flow has its parked request, and every parked type is one of the four
  handled ones.

## Runs

All runs are listed in `PROJECT.json`.

- **`queue_pass`** (`MCRequestQueue.cfg`) uses W = 2 (4 ids) and MaxCalls = 6,
  so the counter wraps while requests are still parked and the queue can be
  full. It checks these properties:
  - `TypeOK`: besides the types, the iterator of a running pass points at a
    record of `m_requests` or at `end()`. Every erase in the loop is written
    `it = m_requests.erase(it)`; an erase followed by `++it` would step past
    `end()` when the last record is erased, and TLC finds that;
  - `UniqueIds`: no two records share an id;
  - `InProgressIffParked`: the InProgress records are exactly the ones with an
    outstanding authentication;
  - `AtMostOneReply`: every request is answered at most once and never while
    it is still queued;
  - `DispatchInOrder`: requests reach the processor in enqueue order across
    yields;
  - `EveryRequestAnswered`: each accepted request is eventually answered.

  The run reaches about 47,000 distinct states.
- **`collections_pass`** (`MCSecretsCollections.cfg`) uses the following
  instance:
  - two apps, one collection name, one secret name, one value and two user
    keys;
  - a registry with a storage plugin S, an encryption plugin O and an
    encrypted-storage plugin E, each also registered under the other roles
    (so that E can be used as a pair);
  - plugin choices `<<S,O>>`, `<<E,E>>` and one with an unknown storage name;
  - two request ids;
  - failing plugins and database.

  It checks these properties:
  - `TypeOK`;
  - `NoOrphanPayload`: every payload has its Secrets row and a plugin
    collection, and every plugin collection has its Collections row naming
    that plugin;
  - `DeleteSecretOnlyByOwner`: a continuation that removes a payload does so
    only for the current owner.

  Two reductions keep the run small:
  - `MCSymmetry` permutes apps, values and keys, which the model only compares
    for equality;
  - the `MCView` view drops the `last` ghost and the parked entries of ended
    flows, which no action reads.

  Each property of the run reads only state the view keeps. The action
  property compares `last'` within one step, and TLC evaluates it on the
  actual states.
- **Eight violation runs**, each checking one property of the design (spec.md)
  that the code does not keep. `findings` in `PROJECT.json` says what each
  shows. They use failure-free plugins and database, so each counterexample is
  a behaviour of a healthy system:

  | Run | What the counterexample shows |
  |---|---|
  | `encrypted_pair` | An encrypted-storage pair is refused. |
  | `delete_others` | Any app deletes any collection. |
  | `cross_app_write` | A stale set writes into another app's re-created collection. |
  | `failed_set_row` | A wrong key leaves a Secrets row without a payload. |
  | `relock` | The relock timer does not relock an encrypted-storage collection. |
  | `stale_continuation` | A failed authentication leaves its parked request behind. |
  | `device_lock_key` | A stale get arms a timer that drops the device-lock key. |
  | `delete_key_error` | Deleting from an unlocked device-lock encrypted-storage collection fails with an incorrect-key error. |

Every property of a passing run has a mutant in `PROJECT.json`. A mutant is a
plausible bug in the mapped definition, and TLC finds the property violated
under it.

**Why the bounds are enough.** Four ids with six calls let the counter wrap
past a parked request, which is the case the free-id search must handle. One
collection name, reused by two apps, is the minimum for a delete and re-create
between a park and its continuation. Two request ids allow one parked request
while another operation runs.

## Fairness

Fairness is assumed only in `RequestQueue`, for `EveryRequestAnswered`:

- **Weak fairness of the event loop's steps.** The event loop eventually runs a
  posted invocation, and a running pass is never abandoned: it is one function
  call on the only thread.
- **Weak fairness of `AuthenticationCompleted`.** Every authentication plugin
  eventually reports back, with success or failure. This is an assumption
  about the plugins, not something the daemon enforces. The daemon has no
  timeout on an authentication flow.

Client calls carry no fairness.

## Proofs (RequestQueueProofs, checked by tlapm)

Both theorems hold for every W and MaxCalls:

- `THEOREM TypeCorrect == Spec => []TypeOK`. `TypeOK`, with its bound on the
  pass iterator, is inductive. `ContinueType` carries the bound across the
  re-posting and ending of a pass. One step
  per action, with lemmas `RemoveAtProperties` (what `RemoveAt` of
  SequencesExt returns), `SetStatus`, `ReplyType`, `ContinueType` and
  `FirstFreeIdFree`. `FirstFreeIdFree` says the id the search returns is in
  `0..2^W-1` and held by no record. It uses `WFMin` with
  `NatLessThanWellFounded` to show the least free offset exists.
- `THEOREM IdsUnique == Spec => []UniqueIds`. The inductive invariant is
  `TypeOK /\ UniqueIds`. `TypeOK` is needed to read records as `Request`s
  and to apply `FirstFreeIdFree`. The lemmas `AppendDistinct`,
  `RemoveAtDistinct` and `SetStatusDistinct` show that appending an unused id,
  erasing a record and changing a status keep the ids distinct.

The proofs assume:

- `WAssumption`: `W` is positive;
- `MaxCallsAssumption`: `MaxCalls` is a natural;
- `IdSpaceAssumption`: `2^W` is a positive natural. The provers treat `^` as
  an uninterpreted operator. TLC checks all three on every run.

## What is only model-checked

- Liveness (`EveryRequestAnswered`) is out of TLAPS's reach here.
- `InProgressIffParked`, `AtMostOneReply` and `DispatchInOrder` are
  model-checked only.
- All properties of `SecretsCollections` are model-checked only.

## Not modelled

- **Standalone secrets.** None of the standalone-secret operations are
  modelled. A hazard in `PROJECT.json` records that the GetStandaloneSecret
  continuation checks for 7 parameters where 8 are parked.
- **Plugin loading.** `loadPlugins` is not modelled: the registry is a
  constant.
- **Read-only and marshalling code.** `getPluginInfo` and the DBus marshalling
  of `SecretsDBusObject` are not modelled.
- **The crypto helper shim** (`secretscryptohelpers.cpp`) is not modelled.
- **The cipher itself.** Only the outcome of decryption is modelled.
