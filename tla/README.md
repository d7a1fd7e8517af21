# Verification models of monitorism's withdrawal monitor and op-eventer

These TLA+ modules model the Python sources under `src/`:

- `op-monitorism/faultproof_withdrawals/runbooks/automated/lib/web3.py`: the withdrawal monitor's `Web3Utility`.
- `op-monitorism/faultproof_withdrawals/runbooks/automated/runbooks/lib/web3.py`: an older copy of its scanner.
- `op-monitorism/faultproof_withdrawals/utilities/monitor.py`: a mitmproxy addon that records the monitor's RPC traffic.
- `op-eventer/`: the BigQuery-driven alerting tools.

There are TLC configurations that check the modules on small instances, and TLAPS proofs of the scanner's and the resolver's main invariants for every value of the constants.

## 1. Inventory

### Components, their state and their operations

| Component | Source | State it keeps | Operations |
|---|---|---|---|
| Event Scanner | `lib/web3.py` 61-99. It also appears in `runbooks/lib/web3.py` 38-75 with the same loop, modelled separately (`LegacyScanner`). | `latest_block` (read once), `current_block` | `find_latest_withdrawal_event(batch_size)`. One iteration does: `get_logs` on the window `[max(0, current_block - batch_size), current_block]`; if logs come back, `logs[-1]` and `get_block_timestamp` on it. An exception inside the `try` is printed and the scan moves down one window. `No WithdrawalProven event found` is raised at block 0. |
| Block timestamp | `lib/web3.py` 112-132 | none | An `eth_getBlockByNumber` call, plus UTC formatting. |
| Game Resolver | `lib/web3.py` 54-59, 134-146 | none. It reads three endpoints. | `get_game_data(hash, submitter)` does these steps in order: `bytes.fromhex` for a str hash; `provenWithdrawals`; `get_fault_dispute_game`; `l2BlockNumber()`; `rootClaim()`; `sentMessages(hash)` on L2; `optimism_output_at_block`; return the record. Nothing is caught. |
| Output-root oracle client | `lib/web3.py` 149-171 | none | A POST of `optimism_outputAtBlock`. Status 200 returns `["result"]["outputRoot"]`; any other status raises. |
| Receipt decoder | `lib/web3.py` 101-108 | none | `get_withdrawal_proven_extension_1`: it prints an exception and returns `None`. |
| Web3Utility constructors | `lib/web3.py` 18-52, `runbooks/lib/web3.py` 16-35 | providers, ABIs | Connect. A failed connection only prints a warning. Then load the ABIs. |
| Query config | `op-eventer/parse_yaml.py` | none | `process_queries`: for each check and each of its queries, `Template.safe_substitute` of the query template with its parameter set. |
| Checker | `op-eventer/checker.py` | none | One pass: each query runs on BigQuery, then `bash <Path> '<fields>'` runs for each result row. |
| Polling daemon | `op-eventer/setup/query_exec.py` | the loop position | `while True`: reload the YAML, run every query, call `send_alert` (`subprocess.run(..., shell=True)`) once per row, sleep 10 s. A SIGINT handler calls `sys.exit(0)`. |
| Superchain fetch | `lib/superchain.py` | none | An HTTP GET plus a TOML parse. |
| Proxy plugin | `utilities/monitor.py` | the `target_url` and `log_file_name` options, per flow its destination and `Host` header, the log file | `load` registers the options. `request` rewrites host, scheme, port (default 443/80 by scheme) and `Host` header to `target_url`, then appends the JSON body tagged with the parsed URL. `response` appends the response body tagged with the request's `Host` header. `json.loads` raising ends a hook part-way. |

### How the components interact

The scanner and the resolver share one `Web3Utility`, which holds read-only connections to three endpoints: L1 geth, L2 op-geth and the L2 op-node. The runbooks, which are not in `src/`, call `find_latest_withdrawal_event` and then pass the event's `(withdrawalHash, proofSubmitter)` to `get_game_data`. A consumer then compares `rootClaim` with `optimism_outputAtBlock`.

While the monitor works, the chains keep moving. Between two RPCs:
- L1 mines new blocks;
- a withdrawal can be proven again against another game;
- L2 messages are sent;
- the op-node syncs further.

The op-eventer tools share the YAML config format. The daemon and the checker call external alert scripts through a shell.

### Hard behaviours

- **Scanner:** batch failures are absorbed in the middle of a scan. The window arithmetic has an edge at block 0. The head is read once while the chain grows.
- **Resolver:** it makes five reads interleaved with state changes on two chains. It has several failure exits, none of them caught.
- **Daemon and checker:** the daemon has an unbounded loop with no exception handling, and re-reads its config every pass. Shell quoting of data that comes from query results is fragile. The alert script's exit status is ignored, and `subprocess.run` has no timeout. A `$placeholder` with no parameter stays in the query: BigQuery rejects it, unless it stands inside a string literal.
- **Proxy:** hooks of different flows interleave, and a hook can raise between its rewrite and its log write.

### What makes each component correct

- **Scanner:**
  - it never passes over a proven log silently;
  - with healthy RPCs it returns exactly the latest proven log at or below the head it read;
  - it always ends.
- **Resolver:** a returned record describes one game, and the canonical output root at that game's block.
- **Daemon and checker:**
  - a finished pass has alerted every returned row through its own check's script;
  - the daemon keeps polling, unless it exits or blocks in a script;
  - every alert reaches its script intact.
- **Proxy:** every redirected flow goes to the target's host and scheme, on its explicit port or the scheme's standard one.

PROJECT.json `hazards` lists, line by line, what is hard to test here, and which property covers each hazard.

## 2. Modules

| Module | Models | State and actions |
|---|---|---|
| `L1Chain` | The L1 chain seen through JSON-RPC. This is the environment, not code. | `head`, and `proven`: the blocks that carry a `WithdrawalProvenExtension1` log. `NewBlock` grows the chain. Blocks are final, because reorgs are not modelled. |
| `EventScanner` | `find_latest_withdrawal_event` | `pc`, `latest_block`, `current_block`, `result`, and `errors` (the printed windows). `ReadBlockNumber` covers lines 78-79. `ScanBatch` covers one loop iteration, lines 81-97, with four outcomes: get_logs fails, empty, get_block fails, found. `Exhausted` covers line 99. `FailingCalls` selects which RPCs may fail. |
| `LatestWithdrawal` | What the scan promises (spec §4.2) | The head is read once, then in one step the call returns the latest proven block at or below it, or "not found". |
| `GameResolver` | `get_game_data`, `get_fault_dispute_game`, `optimism_output_at_block` | There is one action per read. The record is returned in `ReadOutputAtBlock`. The environment actions are `ProveWithdrawal` (a re-proof), `SendMessage` and `OpNodeSync`. |
| `QueryConfig` | The shared config walk of `parse_yaml.py` | `Slots` holds the `(check, query)` index pairs the two nested `for` loops visit, and `Earlier` is their visiting order (lexicographic). `Unresolved` models `safe_substitute`: it keeps exactly the `$names` that have no value. The dry run itself only prints the list it builds, so it has no action of its own. |
| `QueryExec` | `setup/query_exec.py` | Two loop counters, `check` and `query`, as in `for check in Checks: ... for query in queries:`. Actions: `StartPass` (the reload, which may raise), `RunQuery` (raises, or runs even with a placeholder left in a literal), `SendAlert` (the script succeeds, fails unnoticed, or never exits: status `"hung"`), `NextQuery` (inner loop), `NextCheck` (outer loop), `EndPass` (the sleep), `Interrupt` (SIGINT), and `TableChange` (the environment). |
| `Checker` | `checker.py` | The same two loop counters. Actions: `RunQuery`, `RunScript` (its exit status is discarded, so failure leaves the same state as success; or the script never exits), `NextQuery`, `NextCheck`, `Return`, and `TableChange`. |
| `LegacyScanner` | `runbooks/lib/web3.py` 38-99, the older copy | `stage`, `latest_block`, `current_block`, `logs` (the answer of `get_logs` in hand), `result`, `errors`. One action per RPC: `ReadBlockNumber`, `GetLogs`, then `EmptyWindow` or `ReturnLast` (`logs[-1]` and `get_block`), `Exhausted`. L1 may grow between `get_logs` and the use of its answer. |
| `RecordingProxy` | `utilities/monitor.py` | `target_url`, and per flow `origin`, `dest`, `hostHeader`, `stage` and whether its bodies are JSON; `log`, the appended lines. `Request`, `RequestPassThrough` (empty `target_url`), `Upstream` (the server answers: environment), `Response`. Flows interleave freely; mitmproxy gives no order between them. |
| `EventScannerProofs`, `GameResolverProofs`, `LegacyScannerProofs`, `RecordingProxyProofs`, `CheckerProofs`, `QueryExecProofs` | The TLAPS proofs about the module each is named after | See §4. |
| `QueryConfigProofs` | Lemmas about `Slots` and `Earlier`, used by `CheckerProofs` and `QueryExecProofs` | See §4. |

Each `MC*` module gives the model values and the small configurations.

### Abstraction choices

- A block holds at most one portal log, so a log is identified by its block.
- Roots, games, hashes and addresses are model values.
- `f"0x{rootClaim.hex()}"` becomes `Render(r) = <<"0x", r>>`. This keeps the prefix, which a mutant drops, and abstracts the digits.
- A template becomes the set of its placeholders. A result row becomes one of a few values, some of which contain a single quote.
- Timestamps and formatting are left out, because no property is about them.

## 3. Runs

| Run | Config | What it shows |
|---|---|---|
| `scan_faults` | `MCEventScanner.cfg`: MaxBlock 6, batch 2, every L1 call may fail | `ScanSound`: every proven log above the floor and at or below `latest_block` lies in a printed window. `Termination`: every call returns or raises (the variant is `current_block`, which every iteration lowers). `TypeOK`. |
| `scan_refines_latest` | `MCEventScannerRefinement.cfg`: only `eth_blockNumber` fails | The scan implements `LatestWithdrawal!LSpec` under the mapping `status <- IF pc = "loop" THEN "scanning" ELSE pc`, `snapshot <- latest_block`, `answer <- result`. Weak fairness is part of this, so the abstract answer must eventually come. |
| `scan_call_failures` | violation, `ScanExact` (only `get_block` may fail) | The trace reads block 1, finds the log there, fails `eth_getBlockByNumber` inside the `try`, and ends in "not found". A failed `get_logs` takes the same `except` branch. See the two findings. |
| `resolver` | `MCGameResolver.cfg`: 2 games, 2 roots, 2 L2 blocks, repeated calls, op-node always answers | `RecordFaithful`: every field of the record comes from the same game, even when it is re-proven in the middle of the call. The op-node output matches the game's block. `TypeOK`. |
| `resolver_op_node_hang` | violation, `ResolutionEnds` (`OpNodeMayHang = TRUE`) | An op-node that never answers the POST blocks `get_game_data` for ever: `requests.post` has no timeout. See the finding. |
| `query_exec` | 2 checks, 3 queries (one with a placeholder its parameter set lacks), 2 rows; BigQuery, the reload and the scripts may fail, scripts may hang | `PassComplete`. `AlertsBeforeCrash`: when a query or the reload raises and the daemon dies, every row an earlier query of the pass returned has been alerted. `KeepsPolling`: the daemon finishes pass after pass unless it exits or blocks in a script that never returns, so its own loops never stall. `TypeOK`. |
| `query_exec_script_fails` | violation, `AlertsDelivered` | An alert script that exits non-zero loses its alert; the daemon sleeps as if it were sent. See the finding. |
| `query_exec_bigquery_fails` | violation, `NoCrash` | One BigQuery error ends the daemon. |
| `query_exec_quoted_row` | violation, `AlertArgsIntact` | A row value with a `'` breaks the alert command line. |
| `checker` | as for the daemon; BigQuery may fail, scripts may hang | `AllRowsReported`, `ReportedBeforeRaise` (a raise loses no row an earlier query returned), `Termination`: checker.py returns, raises or blocks in a hung script; its own loops always end. |
| `legacy_scan_refines_current` | `MCLegacyScanner.cfg`: MaxBlock 6, batch 2, every call may fail | `CurrentSpec`: the runbooks copy implements `EventScanner!Spec` under `pc <- IF stage = "logs" THEN "loop" ELSE stage`, with the same windows, printed errors, result and fairness, although L1 grows between its `get_logs` and the use of the answer. So the two copies spec.md §9 describes are interchangeable. `LegacyTypeOK`. |
| `proxy` | `MCRecordingProxy.cfg`: 2 flows, targets with and without a port, JSON and non-JSON bodies | `ForwardedToTarget`: with a target, every flow that left the proxy went to the target's host and scheme, on the target's port or, without one, the standard port of its scheme (`StandardPort`: 80 for http, 443 for https, per RFC 9110), even when `json.loads` raised in the hook. It is stated against the standard ports, not the model's `TargetPort`, so the `TargetPortSwapped` mutant is caught. `ProxyTypeOK`. |

### Why the bounds are enough

In the scanner runs, batch 2 with up to 6 blocks gives windows that are:
- full,
- partial and clamped at 0,
- overlapping at their boundaries.

There are logs in the same window and in different windows, and there are chain growth and failures at every call. In the resolver, two games with possibly different roots and block numbers are enough for a re-proof in the middle of the call to mix fields, which the `ReadRootClaimCurrentGame` mutant shows. In op-eventer, two checks, where one has two queries, cover the moves to the next query and to the next check. Two rows cover the per-row loop. Query `qC` uses the parameter set `holesky`, which lacks the `address` its template needs, so a placeholder stays in the query: `RunQuery` then either raises (BigQuery rejects it) or runs it (the placeholder stood inside a string literal), and both are explored. In `LegacyScanner`, the same chain bounds as the scanner, with block production allowed between `get_logs` and the use of its answer. In the proxy, two flows are enough for the hooks of one to run between the two hooks of the other; the three targets give a default https port, a default http port (through the scheme) and an explicit port.

spec.md §4.3 says a `"0x…"` hash string is accepted, while `bytes.fromhex` raises `ValueError` on the prefix. The model keeps that outcome (the `"0xhex"` form of `Call` raises), but no run is kept for it: a unit test reaches it directly.

Every property of a passing run has a mutant in PROJECT.json that TLC finds violated.

### Fairness

- **Scanner, resolver steps and op-eventer loops:** each is a sequential loop of blocking calls. The web3 calls time out, and a BigQuery job ends within BigQuery's own limits. So weak fairness is assumed for the program's own steps.
- **Alert scripts:** `subprocess.run` in `send_alert` and in `checker.py` has no timeout. The model gives each script run a `"hung"` outcome (`ScriptMayHang`), after which no step of the program is enabled; only SIGINT leaves it in the daemon. Fairness therefore never forces a script to return: `KeepsPolling` and `Termination` count `"hung"` as an end, and say only that the programs' own loops never stall.
- **Environment:** new blocks, re-proofs, table changes and SIGINT are never assumed to happen.
- **Resolver:** weak fairness of its five reads (`ResolverReads`). The web3 calls time out; the op-node POST has no timeout, so the model gives the op-node a `"hung"` outcome, enabled by `OpNodeMayHang`. With it, no fairness can take the call out of `"hung"`, and `ResolutionEnds` fails: that is the finding, not an assumption.
- **Proxy:** no fairness; its properties are safety only.

## 4. Proofs

### `EventScannerProofs`

Assumptions: `MaxBlock ∈ Nat`, `batch_size ∈ Nat \ {0}`, `FailingCalls ⊆ RpcCalls`.

- `TypeCorrect`: `Spec => []TypeOK`. `TypeOK` is inductive by itself. The lemma `WindowBounds` shows that every window lies within `0..current_block`.
- `ScanSoundness`: `Spec => []ScanSound`. `ScanSound` is not inductive on its own, for two reasons:
  - to show that skipping or passing a window keeps the property, a step needs `current_block <= latest_block`;
  - to show that `NewBlock` adds no log inside the scanned range, it needs `latest_block <= head`.

  The inductive invariant `IInv` is `TypeOK /\ ScanSound` plus those two facts. The proof of `IInvStep` has one case per action. Under `ScanBatch` it has one case per outcome. Each case splits the logs above the new floor into two groups:
  - logs inside the current window are either logged now, absent (the window was empty), or impossible (they would be above `logs[-1]`);
  - logs above the window are logged by the induction hypothesis.

  The choice of `logs[-1]` is written as a constrained `\E` (`LastLog`), so the proof does not need a lemma that a finite set has a maximum. Such a lemma would need induction.

More in `EventScannerProofs`:

- `RefinesLatestSafety`: under `NoWindowFailures` (neither `eth_getLogs` nor `eth_getBlockByNumber` may fail), `Spec => Latest!LInit /\ [][Latest!LNext]_Latest!avars`. The invariant `RInv` is `IInv` plus `errors = {}` plus "before the call, `latest_block` and `result` are 0". With no printed window, `ScanSound` says that no proven log lies above the floor and at or below `latest_block`. The step mapping is:
  - `ReadBlockNumber` is `Begin` or `Fail`;
  - an empty window is a stutter, because `current_block` is not mapped;
  - returning `logs[-1]` is `Answer` with the maximum: a candidate above the window would be above the floor, and one below it is below `logs[-1]`;
  - `Exhausted` is `Answer` with no candidate, since `current_block = 0` is the floor and every proven block is at least 1;
  - `NewBlock` is `NewBlock`.

### `GameResolverProofs`

Assumption `ResolverConstantsAssumption`: non-empty hashes, submitters and roots, `ZeroAddress \notin Games`, `MaxL2Block >= 1`, `OpNodeMayHang` Boolean.

- `ResolverTypeCorrect`: `Spec => []TypeOK`.
- `RecordFaithfulness`: `Spec => []RecordFaithful`.

`TypeOK` is not inductive by itself: `ReadRootClaim` indexes `games[gameProxyAddress]`, and only the earlier read guarantees that the address is a game. The inductive invariant `IInv` is `TypeOK /\ RecordFaithful` plus one fact per stage of the call:
- `GameRead`: from the `rootClaim` read on, `gameProxyAddress` is a game and `l2BlockNumber` is its block;
- `ClaimRead`: from the `sentMessages` read on, `rootClaim` is that game's rendered root;
- `MessagesRead`: at the op-node read, a `True` answer of `sentMessages` means the hash is in `sent`.

The environment preserves all three because games and outputs never change and `sent` only grows (lemma `EnvFrame`). A re-proof changes `proven_withdrawals` only, which no fact mentions after the first read: this is why the record cannot mix two games. `IInvStep` has one case per action and one sub-case per outcome; each changed variable's type is proved in its own step, and the unchanged rest comes from the lemma `CallTypeFrame`.

### `LegacyScannerProofs`

Assumptions: `MaxBlock ∈ Nat` and `LegacyAssumption` (`batch_size ∈ Nat \ {0}`, failing calls among the three RPCs).

- `LegacyTypeCorrect`: `Spec => []LegacyTypeOK`.
- `RefinesCurrentSafety`: `Spec => Current!Init /\ [][Current!Next]_Current!vars`. This is the safety part of `CurrentSpec`.

The runbooks copy holds the answer of `get_logs` (`logs`) across steps in which L1 may grow. The invariant `AnswerCurrent` says that, while in the loop, `current_block <= latest_block <= head`. It also says that in stage `"logs"` the answer in hand equals what `get_logs` on the same window would return now. New blocks come above the head, so they never enter the window. With it, each step maps to a step of `EventScanner`:
- `GetLogs` that fails maps to `SkipWindow`;
- `GetLogs` that succeeds maps to a stutter;
- `EmptyWindow` and `ReturnLast` map to the outcomes of `ScanBatch` on the same window;
- `NewBlock` while holding the answer maps to `NewBlock`.

### `RecordingProxyProofs`

Assumption `ProxyAssumption`: the target URLs are URLs or the empty default, and the default ports are among `Ports`.

- `ProxyTypeCorrect`: `Spec => []ProxyTypeOK`.
- `AlwaysForwardedToTarget`: `Spec => []ForwardedToTarget`.

The inductive invariant is `ProxyTypeOK /\ ForwardedToTarget`. The lemma `RedirectedStandard` shows that the code's port rule (`TargetPort`) gives the target's port or the standard port of its scheme, for every URL; with it, a `Request` step establishes `ForwardedToTarget` for its flow, and no other step moves a destination. The lemma `AppendLineType` covers the log write: a line is appended, or nothing is written when `json.loads` raises, and old lines stay where they were.

### `QueryConfigProofs`, `CheckerProofs`, `QueryExecProofs`

Assumption `QueryConfigAssumption`: `Checks` is a list of `[Path, Queries]` records, each `Queries` a list of defined query names, and each query names a defined parameter set and template. No bound on the number of checks, queries or rows.

`QueryConfigProofs` holds the lemmas about the loop positions:
- `ConfigShape`, `SlotIsPair`, `PairIsSlot`, `SlotTypes`;
- `EarlierNextQuery`: advancing the inner loop leaves behind exactly the position it was at;
- `EarlierNextCheck`: advancing the outer loop past an exhausted check leaves nothing more behind;
- `EarlierPastLast`: past the last check, every position is behind.

`CheckerProofs` proves `CheckerTypeCorrect`, `AllRowsReportedHolds` and `ReportedBeforeRaiseHolds`. `QueryExecProofs` proves `QueryExecTypeCorrect`, `PassCompleteHolds` and `AlertsBeforeCrashHolds`. Both use the same inductive invariant:
- every position behind the loops (`Earlier(s, cur)`) is fully reported or alerted;
- in the row loop, `pending` is a subset of the current query's rows, and the rows no longer pending are reported;
- every script run or alert is for a row of its position's query, through its check's script, at a position behind the loops, or at the current one during its row loop (or when a hung script or SIGINT stopped it). This is what makes `RunQuery` overwrite no reported rows;
- the program returns or sleeps only once the outer loop is past the last check.

`ReportedBeforeRaise` and `AlertsBeforeCrash` are the first conjunct at the moment of the raise. `AllRowsReported` and `PassComplete` follow from it with `EarlierPastLast`. Every conjunct was checked by TLC as an invariant of the `checker` and `query_exec` configurations before it was proved.

An earlier version indexed the positions with `FlattenSeq`. That is a recursive function over sequences, and even `Len` of its result needs induction over data, so the provers could not use it. The model now keeps the code's two loop counters, which is also closer to the source.

### What stays with TLC

- Liveness: `Termination` (scanner and checker), `KeepsPolling` and, in its violation run, `ResolutionEnds`. Proving them needs fairness and ENABLED, which TLAPS does not handle.
- The fairness part of the refinements `LatestSpec` and `CurrentSpec`, for the same reason. Their safety part is proved.
- The violation runs. They are counterexamples, not theorems.

## 5. Not modelled

- The Superchain fetch: one HTTP GET and a TOML parse that re-raise their errors; it keeps no state and nothing else in `src/` calls it.
- `get_withdrawal_proven_extension_1`: a single read that turns an error into `None`. Nothing in the repository calls it.
- The constructors' connection warning and ABI loading. Their only later effect, that calls fail, is covered by `FailingCalls` and by the resolver's `Raise("rpc")`, `HTTPError` and hang outcomes.
- In the proxy: the timestamp formatting, the `log_file_name` option (an unset name makes `open("")` raise in every hook), and the text of the logged bodies.
- L1 and L2 reorgs. TLS verification, which is disabled process-wide.
- Date formatting.

## 6. Plan for the next sittings

Modelling is ordered by importance.

1. A composed `Monitor` module. It runs the scanner, then the resolver on the event found. It checks that the record's game is the one proven by the latest event, or a later re-proof, and never an earlier one.
2. Config files whose content changes between passes of the daemon (the model re-reads the same config, or fails).
3. L1 reorgs below `latest_block`, as a hazard of the scan's snapshot.

Proofs:
1. `ScanExact` under `NoWindowFailures`, from `RInv` (it is false when windows may fail: run `scan_call_failures`).
2. An action property for the daemon: that a pass's alerts are never withdrawn before the next `StartPass`.
3. Lemmas that let `GameResolverProofs` state `RecordFaithful` for the composed `Monitor` module once it exists.
