# Formal models of the PFCP generator

This directory models the replay engine of the PFCP generator in TLA+.
The engine reads a pcap of PFCP traffic, creates a live session for each
recorded one and rewrites the recorded requests so that they can be sent
to a live UPF. It also contains the TLC configurations that model-check
the modules, and TLAPS proofs of the main safety properties of the
session manager and of the transaction tracker.

## The system and how its parts interact

- **pcap parser** (`src/internal/pcap/parser.go`). It yields the recorded
  requests in order. It also yields the CP→UP SEID pairs that it captured
  from establishment responses in the recording (`SetSEIDMappings`).
- **Session manager** (`src/internal/session/manager.go`). `Replay` hands the
  messages one at a time to `processMessage`, and each handler runs to
  completion: allocate, map, rewrite, send, wait, reconcile.
  - It keeps three lookup tables: by original CP SEID, by original remote
    SEID and by local SEID.
  - Its state is the list of `SessionInfo` records.
  - `CleanupSessions` deletes the established sessions when the run ends.
- **SEID allocator** (`src/unnamed/part_005`). It allocates SEIDs
  sequentially or at random and keeps the set of used SEIDs.
- **UE IP pool** (`src/unnamed/part_004`). It allocates addresses by a cursor
  scan over the CIDR block and keeps the set of allocated addresses.
- **Sequence counter** (in manager.go). It produces 24-bit PFCP sequence
  numbers, wrapping to 1.
- **Transaction tracker, UDP client and receiver** (`src/internal/network`,
  `part_003`). Each request waits here for its response, with
  retransmissions and a timeout. Four goroutines meet in the tracker:
  - the replay goroutine (`Track`, `Send`, `waitForResult`);
  - the receive path (`Receiver.listen`, `handleResponses`, `Resolve`);
  - the timeout monitor (`checkTimeouts`, `handleTimeout`);
  - the signal goroutine (`cancel()`).
- **`run`** (`part_002`). It wires these parts together. Its signal handler
  cancels the context. After `Replay`, it runs `CleanupSessions` under a
  fresh 30 s context when `cleanup_on_exit` is set.
- **Mock UPF** (`src/test/mockupf/main.go`). This is the peer:
  - it numbers UP SEIDs from 1;
  - it stores a session on every establishment;
  - it removes a known session on deletion;
  - it stays silent for an unknown SEID.

## Modules

| Module | Models | State / actions |
|---|---|---|
| `SEIDAllocator` | `SEIDAllocator` (part_005) | Pure operators on a record `[next, used]`. `AllocateOutcomes(a)` is the set of possible results: deterministic for the sequential scan (at most `MaxSEIDAttempts` tries, wrapping over `SEIDBits` bits, skipping 0); any free SEID or a failure for the random draw. `Release` deletes from `used`. |
| `UEIPPool` | `UEIPPool` (part_004) | `[next, allocated]`, where addresses are offsets in a block of `2^PoolHostBits`. `Allocate` keeps the reset of an out-of-block cursor, the scan, its two stop conditions (`checked >= total-1` and back at start) and the wrap. `Release` deletes from `allocated`. |
| `SessionManager` | manager.go, the end of `run`, the mock UPF | See the list below. |
| `MC_SessionManager` | — | Gives the recorded SEID values for TLC. |
| `SessionManagerProofs` | — | The TLAPS proofs. |
| `SessionRoutingProofs` | — | The TLAPS proof of `RoutedToOwnSession`. |
| `TransactionTracker` | transaction.go, the handlers' Track/Send/wait, `handleResponses`, the mock UPF's loop, `run`'s wiring | See below. |
| `TransactionOutcome` | spec 4.5 | The abstract contract of the transaction layer: `Issue`, `PeerHandles(k)`, `Respond(k)` and `GiveUp(k)` over `issued`, `processed` and `outcome`. |
| `TransactionTrackerProofs` | — | The TLAPS proofs for the tracker. |
| `TransactionRefinementProofs` | — | The TLAPS proof that the tracker implements `TransactionOutcome`. |

`SessionManager` in detail:

- **Variables.** The `sessions` list, the three tables, `seidAlloc`,
  `ipPool` and `seqCounter`, the captured mappings, the phase
  (replay/cleanup/done), `cancelled` and the cleanup snapshot.
- **The UPF's state.** `upfSessions` and `nextUPSEID`.
- **Ghost variables.** `trueRemote` is the original UPF's SEID of each
  recorded session. `wire` is the last request sent.
- **Handler actions.** Each handler is an action, split by its branches:
  - `AssociationSkipped` and `AssociationSent`;
  - `HeartbeatSent`;
  - `EstSEIDExhausted`, `EstPoolExhausted` and `EstSent`;
  - `Unresolved`, `ModSent` and `DelSent`;
  - `UnsupportedSkipped`.
- **Signal and cleanup actions.** `Cancel`, `EndReplay` (with the cleanup
  snapshot taken from the local-SEID table, as at manager.go:516),
  `CleanupDelete` and `CleanupEnd`.
- **Transaction outcomes.** The wait on a transaction is abstracted to its
  outcome:
  - `EstOutcomes`: accepted, rejected, request lost, response lost, no
    UP F-SEID;
  - `DelOutcomes`.
  - The peer's side of each outcome is applied in the same step.
- **Possible answers.** The set of outcomes is wider than the mock's
  answers. A rejection or a response without a UP F-SEID is allowed, since
  the handler has a branch for each.
- **Peer behaviour.** `PeerAnswersUnknownSession` turns the silent mock into
  a UPF that rejects a deletion of an unknown session, as a 3GPP UPF does.

Each handler is one step because only the replay goroutine touches the
tables. The handler blocks on its transaction before the next message is
read. The tracker's goroutines are folded into the outcome of the wait in
this module, and modelled in their own right in `TransactionTracker`.

`TransactionTracker` in detail:

- **Requests.** Requests `1..MaxRequests` are issued in replay order.
  `seqOf[k]` is the sequence number request k got from `NextSeq`.
  `pending` is the tracker's map from sequence number to request.
- **Time.** Time is abstracted to a flag `expired[k]`, set by `Expire(k)`
  while k is pending and cleared by a retry (`SentAt` reset).
- **Replay goroutine (`hpc`).**
  - `Issue` is the handler's `Next`, `Track` and `Send` in one step. A
    failed send returns to the loop at once and leaves the entry tracked.
  - `Wait` and `WaitCancelled` are the two cases of `waitForResult`'s
    select.
  - `ReplayEnd` is `Replay` returning.
- **Receive path.** `Receive(k)` takes a response to request k off the
  network and calls `Resolve` with its sequence number. `Resolve` drops
  an unknown number, or deletes the entry and fulfils its channel.
- **Monitor (`mpc`).**
  - `CheckTimeouts` is a tick: the snapshot `todo` of expired pending
    requests is taken under the lock.
  - Then, per snapshot entry, the three branches of `handleTimeout`:
    `TimeoutStale` (the number is no longer pending), `TimeoutRetry`
    (count and clock updated under the lock) and `TimeoutGiveUp` (delete,
    then send the timeout).
  - `Retransmit` is the send after the unlock. It is a separate step
    because the lock is released before it.
  - `MonitorStop` is the select taking `ctx.Done()`.
- **Peer and network.** `PeerHandles(k)` is the mock UPF answering a copy
  it read. `LoseRequest` and `LoseResponse` drop datagrams.
- **Observation variables.** `attempts`, `processed`, `fulfilled` and
  `result` only record what happened, for the properties.
- **Cancellation.** `Cancel` is the signal. Go's select may still pick a
  ready tick or a buffered response after cancellation. `CheckTimeouts`
  and `Receive` are therefore not guarded by it, and the receive path,
  which has no fairness, may stop at any time.

## Runs

| Run | Config | Expect | Shows |
|---|---|---|---|
| replay_sequential | `MC_SessionManager.cfg` | pass (1.9M states) | Up to 5 requests of 2 sessions, sequential 2-bit SEIDs, a /30 pool, association and cleanup on, cancellation anywhere. Three properties hold: `TypeOK`, `LiveIdentifiersExclusive` (no two live sessions share a SEID or UE IP, and both are marked in use) and `RoutedToOwnSession` (every modification or deletion sent goes to the session of its own recorded session). |
| replay_random | `MC_SessionManager_Random.cfg` | pass | `LiveIdentifiersExclusive` only, with random SEIDs and a /31 pool of one address, so both exhaustion paths fire. The random draw must skip used SEIDs. `TypeOK` (proved by `TypeCorrect`) and `RoutedToOwnSession` are not repeated: with cleanup off and one address, this run reaches no routing case that replay_sequential lacks. |
| double_release | `..._DoubleRelease.cfg` | violation | Against a UPF that rejects unknown deletions, TLC's trace runs as follows. Session 1 is established and deleted, and session 2 takes the freed UE IP. A duplicate deletion of session 1 is then rejected, and the rejection still releases that IP. The pool then counts as free the address that live session 2 holds (the next establishment would hand it out a second time). `handleSessionDeletion` releases on any response (manager.go:458). |
| fallback_misjoin | `..._MisJoin.cfg` | violation | When the original UPF numbered sessions in the same range as the SMF, the fallback lookup (manager.go:591) routes one session's modification to another. Spec §9 leaves this open. |
| failed_establishment_leak | `..._FailedLeak.cfg` | violation | A timed-out or rejected establishment keeps its SEID, its UE IP and its table entries. Spec §4.4 says they are released (manager.go:292). |
| host_route_pool | `..._HostRoute.cfg` | violation | A /32 pool, which Validate accepts, issues the network address plus one, which is outside the block (part_004:44). |
| tracker_safety | `MC_Tracker.cfg` | pass (149k states) | 2 requests, 2-bit numbers, 2 retries, failing sends, lossy network, signal anywhere. `AtMostOneResult`: every result channel gets at most one result. `TimeoutAfterAllRetries`: a timeout comes only after `MaxRetries + 1` sends. |
| tracker_liveness_refinement | `MC_Tracker_Live.cfg` | pass (20k states) | `Refines`: the tracker implements `TransactionOutcome` under the mapping `issued <- cur`, `outcome <- result`. `ReplayTerminates`: `Replay` returns, even if every datagram is lost. |
| send_failure_retransmit | `MC_Tracker_SendFailure.cfg` | violation | `NoSendAfterFinished`: after a failed first `Send` the handler has returned, but the tracked entry is retransmitted by the monitor (manager.go:191; spec 7). |
| retransmit_after_return | `MC_Tracker_LateRetransmit.cfg` | violation | `NoSendAfterFinished`: a retransmission goes out for a request whose handler has already returned (transaction.go:132; spec 8). TLC's shortest trace takes the cancellation path: `Issue`, `Cancel`, `WaitCancelled` (the handler returns), `Expire`, `CheckTimeouts`, `TimeoutRetry`, `Retransmit`. The model allows the same late send when a response is resolved between `handleTimeout`'s unlock and the send. |
| cancel_leaves_pending | `MC_Tracker_Cancel.cfg` | violation | `CancelDrainsPending`: after a signal the monitor stops and `CancelAll` has no caller, so an entry stays pending for ever (spec 5). |
| seq_reuse_double_result | `MC_Tracker_SeqReuse.cfg` | violation | `AtMostOneResult`: with 1-bit numbers, a stale snapshot entry passes `handleTimeout`'s check by number, fails its request twice and deletes the new request's entry (transaction.go:116). With 24 bits this needs a full wrap while the entry sits in a snapshot, so it is practically unreachable. |

**Bounds.**

- **Sessions and messages.** Two recorded sessions with 4–5 messages are
  enough for a session to be created, modified, deleted and then
  deleted again by a duplicate request. They also allow a second session
  to reuse the freed identifiers.
- **Identifier spaces.** SEID spaces of 3 values and pools of 1–3 addresses
  make wrap-around and exhaustion reachable. 2-bit sequence numbers wrap
  within a run.
- **Captured mappings and recordings.** Every subset of captured mappings
  and every bijection of recorded SEIDs is enumerated in `Init`.
- **Tracker.** Two requests are enough for one to be waiting while the
  other's entry is still in a snapshot. Two retries make "retry, then give
  up" and a resend racing a response reachable. 2-bit numbers avoid reuse
  in the passing runs; the reuse run uses 1 bit on purpose.

**Mutants.** Every property of a passing run has a mutant of the code that
TLC catches:

- a late wrap of the sequence counter;
- a fallback to the wrong table;
- a pool scan without the allocated check;
- a random draw without the used check;
- `Resolve` that keeps the entry (caught by `AtMostOneResult`);
- the give-up test one retry early (caught by `TimeoutAfterAllRetries`);
- the retry test `<=` instead of `<` (caught by `TypeOK` and `Refines`);
- giving up without fulfilling the channel (caught by
  `ReplayTerminates`).

**Fairness.** `SessionManager` assumes no fairness, because only safety is
checked there. The process may stop at any point (a signal), and
`CHECK_DEADLOCK FALSE` reflects that the program exits.

`TransactionTracker` assumes weak fairness only where the code justifies
it:
- the replay goroutine's steps, since it is runnable;
- the monitor's tick, its loop over the snapshot, its send and its stop,
  since the ticker fires every 100 ms;
- `Expire`, since time passes.

The network, the UPF, the receive path and the signal get none: datagrams
may be lost for ever, and no signal need come. `ReplayTerminates` holds
even so, because the timeout ends every wait.

## What is proved (TLAPS, `SessionManagerProofs`)

The assumptions are `ConstantsAssumption`, which holds the constraints of
`Config.Validate` on the modelled settings, and `WidthAssumption`, which
states that `2^w` is a natural number ≥ 2 for the widths.

- **`TypeCorrect`: `Spec => []TypeOK`**, for every value of the constants.
  It rests on these lemmas:
  - the results of both allocators (`AllocateSEID`, `AllocateUEIP`);
  - the sequence counter (`NextSeqType`);
  - one lemma per action.
- **`LiveIdentifiersExclusiveHolds`: under `~PeerAnswersUnknownSession`,
  `Spec => []LiveIdentifiersExclusive`.** The property is not inductive by
  itself, because `DelSent` releases identifiers on any response. The
  inductive invariant `IInv` strengthens it with two facts:
  - `DeletedNotAtUPF`: the UPF does not hold the UP SEID of a session that
    is marked deleted.
  - `RemoteBelowNext`: every recorded UP SEID is below the UPF's next one,
    so a UP SEID is never issued twice.

  The argument goes as follows. The silent peer answers only for a UP SEID
  it holds. Therefore a response to a deletion means the session was not
  yet deleted. Its identifiers then belong to it alone, and releasing them
  frees nothing that another live session holds. TLC confirms `IInv` on
  both passing configurations.

The double_release run shows that the hypothesis is needed. Without it the
property fails.

## What is proved (TLAPS, `SessionRoutingProofs`)

- **`RoutedToOwnSessionHolds`: `RecordedSEIDsDisjoint => (Spec =>
  []RoutedToOwnSession)`.** The hypothesis says that no original UP SEID
  of the recording is also an original CP SEID. The fallback_misjoin run
  shows that without it the property fails: the fallback of
  `findSessionByOriginalRemoteSEID` looks a UP SEID up in the CP table and
  can hit another session.

  The inductive invariant `RoutingInv` adds these parts to `TypeOK`:
  - `TrueRemoteInjective`: the original UPF gave distinct sessions
    distinct SEIDs;
  - `MappingsCaptured`: each pcap mapping is 0 or the recording's true
    pair;
  - `CPTableOwn`: `sessionsByOriginalCPSEID[k]` has original CP SEID `k`;
  - `RemoteTableOwn`: `sessionsByOriginalRemoteSEID[k]` belongs to the
    recorded session that the original UPF numbered `k`;
  - `WireTarget`: a modification or deletion sent names an existing
    session.

  Lemma `FindSessionOwn` carries the argument. When the first lookup
  finds a session, that session is the request's own, by
  `RemoteTableOwn` and injectivity. When the first lookup finds nothing,
  the fallback's hit would have an original CP SEID equal to a UP SEID,
  which the hypothesis excludes. `handleSessionEstablishment` keeps both
  table facts because it stores the new session under its own CP SEID
  and under the mapping of that CP SEID. Deletions only change a
  session's state. TLC confirmed `RoutingInv` on both passing
  configurations (1.9M states) before it was proved.

## What is proved (TLAPS, `TransactionTrackerProofs`)

The assumptions are `TrackerAssumption` (the constants' ranges) and
`TrackerWidthAssumption` (`2^SeqBits` is a natural number ≥ 2).

- **`TypeCorrect`: `Spec => []TypeOK`.** `TypeOK` is split into parts by
  the variables each step writes (`TypeCtl`, `TypeMaps`, `TypeMon`,
  `TypeNet`, `TypeRes`). There is one lemma per group of actions.
- **`AtMostOneResultHolds`** and **`TimeoutAfterAllRetriesHolds`**, under
  the hypothesis `NoSeqReuse` (`MaxRequests <= 2^SeqBits - 1`: no
  sequence number is issued twice). The inductive invariant `IInv` adds
  these parts:
  - `SeqOfIssued` and `PendingOwn`: an entry holds the request that
    took its number;
  - `FreshUntouched`: requests not yet issued have no traffic, sends or
    results;
  - `PendingUnfulfilled`: a request in the map has no result yet;
  - `MonitorOwn`: the snapshot holds only issued requests, and a resend
    is held exactly in the "sending" state;
  - `SendCount`: sends plus the pending resend equal retries + 1;
  - `TimedOutDone`: a timed-out request was sent `MaxRetries + 1` times
    and is out of the map.

  Both Resolve and the give-up delete the entry under the lock before
  they fulfil. With `PendingOwn`, whichever comes second sees its own
  entry gone. The seq_reuse run shows that without `NoSeqReuse` this
  fails. TLC confirmed `IInv` before it was proved.

## What is proved (TLAPS, `TransactionRefinementProofs`)

- **`RefinementHolds`: `NoSeqReuse => (Spec => Refines)`.** The tracker
  implements the safety contract `TransactionOutcome!Spec` (which has no
  fairness, so this is the whole of `Refines`). The mapping is
  `issued <- cur`, `outcome <- result`, with `processed` shared. Under it:
  - `Issue` is the abstract `Issue`;
  - `PeerHandles(k)` is the abstract `PeerHandles(k)`;
  - a `Receive` whose `Resolve` finds the entry is `Respond(k)`, and one
    that finds nothing (a duplicate or late response) is a stutter;
  - `TimeoutGiveUp(k)` is `GiveUp(k)`;
  - every other step (waits, the monitor's snapshot, retry and
    retransmission, losses, cancel) is a stutter.

  The abstract guards need more than `IInv`. `PeerHandles` needs
  `processed[k] < MaxRetries + 1`, and `Respond` needs `processed[k] >= 1`.
  These come from a second inductive invariant, `NetBound`:
  - responses in flight ≤ copies handled;
  - copies handled + copies in flight ≤ sends.

  With `SendCount`, the sends of an issued request are at most
  `MaxRetries + 1` (lemma `AttemptsBounded`). `NetBound` is proved
  inductive given `IInv` (lemma `NextNetBound`), and TLC confirmed it
  before the proof on the tracker configurations (up to 3 requests). Each
  kind of step has a lemma: `IssueRefines`, `PeerHandlesRefines`,
  `ReceiveRefines`, `GiveUpRefines` and `OtherStutters`.

**Left to TLC.**

- Liveness and `ENABLED` are out of the prover's reach. `ReplayTerminates`
  is checked only by TLC. TLC also finds the counterexample to
  `CancelDrainsPending`.
- The proofs claim nothing without their hypotheses (`NoSeqReuse`,
  `RecordedSEIDsDisjoint`, the mock UPF's silence for
  `LiveIdentifiersExclusive`). Each of the runs seq_reuse,
  fallback_misjoin and double_release shows a failure when its
  hypothesis is dropped.
- What the bounded scans compute, beyond the facts used above, is checked
  only by TLC.

## Not modelled (and why)

- **The tracker inside `SessionManager`.** There it is still the outcome
  of the wait. `TransactionTracker` models it separately and is not
  composed with the session tables. `CancelAll` (no caller) and
  `PendingCount` (read only) are not actions.
- **Socket I/O, the PFCP codec, `MessageModifier`'s byte-level rewriting and
  statistics.** None of them makes a control decision the properties
  depend on.
- **Packet decoding in the pcap parser.** Its results enter as data.
- **The test pcap generator.**

## Plan for later work

1. Retransmitted establishments at the mock UPF, which may create
   duplicate UP sessions.
2. Cleanup properties:
   - every established session is in the snapshot;
   - orphaned UPF sessions, which are `upfSessions` that no session
     references.
3. The pcap parser's mapping extraction.
