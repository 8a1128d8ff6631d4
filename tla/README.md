# TLA+ models of the SophiaTX operation evaluators

This directory checks the state-changing operations of SophiaTX with TLC. It has two sources:

- The chain's operation evaluators, in `src/libraries/chain/sophiatx_evaluator.cpp`.
- The SQLite statement wrapper, in `src/libraries/SQLiteCpp/src/SQLiteC++/SQLiteC++.cpp`.

`PROJECT.json` lists the following, with the source lines behind every definition:
- every component;
- every run;
- the mutant that each checked property must catch;
- the findings;
- the hazards of the code.

## The system and how its parts interact

Each evaluator's `do_apply` is one operation. The chain applies operations one at a time. A failing `FC_ASSERT` throws and rolls back the whole operation. So in every module an operation is one atomic TLA+ action:
- The action's guard is the conjunction of the assertions and early returns.
- Its primed variables are what the evaluator writes.

The interesting behaviour is in long sequences of operations by different accounts, interleaved with the per-block processing of the database (expiry, pruning, payouts).

Some code is called by the evaluators but is not under `src/`. These parts are modelled from `spec.md` and marked `spec_modelled` in the map:
- the `database` helpers: `adjust_proxied_witness_votes`, `update_owner_authority`, `vest`, vesting payouts, account recovery processing and the head block time;
- the operations' `validate()` bodies.

The parts share accounts and balances. The following interactions are kept inside one module:
- Vesting shares gate witness candidacy, so witnesses and vesting share `WitnessVesting`.
- The three operations that write a witness's exchange rates are also in `WitnessVesting`.
- Owner updates, deletion and recovery all write the owner authority, so they share `AccountRecovery`.
- Account creation grows the set of existing accounts, which the application evaluators look authors up in. `AccountsApplications` composes `AccountCreation` with `Applications`: `Applications` reads the `accounts` variable that `AccountCreation` writes, and operations of both interleave one at a time.
- `database::pay_fee` is modelled from the spec's account_create scenario: it takes the required fee from the creator.
- `economic_model_object::withdraw_from_promotion_pool` is neither under `src/` nor in the spec. It is abstracted to paying any amount up to the request and up to what the pool holds.
- Of the operation declarations (`steem_operations.hpp`), the required authorities that a guard depends on are modelled: `SetPropertiesAuthority`, `RecoverAccountAuthorities` and `OwnerSigned`.

## Modules

| Module | Code | State | Actions |
|---|---|---|---|
| `Escrow` | escrow_transfer/approve/dispute/release (365-529) | balances, escrow objects keyed by (from, escrow_id), head time | `EscrowTransfer`, `EscrowApprove`, `EscrowDispute`, `EscrowRelease`, `Tick` |
| `EscrowLifecycle` | abstract: what an escrow promises | phase, parties, funds and fee of each deal; balances | `Open`, `Cancel`, `Ratify`, `Dispute`, `Payout` |
| `WitnessVesting` | witness_stop/update/set_properties (54-215), feed_publish (787-803), transfer, transfer_to_vesting, withdraw_vesting (531-597); payouts from the spec | vesting shares, balance, withdraw rate, to_withdraw, withdrawn; witnesses with signing key, stopped flag and submitted rates | one action per evaluator, plus `ProcessVestingWithdrawal` |
| `ProxyVoting` | account_witness_proxy, account_witness_vote (600-681); `adjust_proxied_witness_votes` from the spec | proxy, proxied_vsf_votes per depth, vote objects, witnesses_voted_for, witness votes | `SetProxy`, `ClearProxy`, `AccountWitnessVote` |
| `AccountRecovery` | account_update (owner part), account_delete, request_account_recovery, recover_account, change_recovery_account (285-363, 811-927); block processing from the spec | owner, last_owner_update, last_account_recovery, owner_history, recovery_account, recovery and change requests | one action per evaluator, plus `NewBlock` |
| `CustomContent` | custom_json, custom_binary (685-784) | custom_content_objects (sender and recipient sequences) | `CustomJson`, `CustomBinary` |
| `Applications` | application_create/update/delete, buy_application, cancel_application_buying (960-1051) | applications by id, next id, buyings; reads the existing accounts | one action per evaluator |
| `AccountCreation` | account_create (231-282), transfer_from_promotion_pool (1053-1069), sponsor_fees (1071-1091); `pay_fee` from the spec | existing accounts, balances, fees paid, sponsor of each sponsored account, promotion pool, current supply | `AccountCreate`, `SponsorFees`, `TransferFromPromotionPool` |
| `AccountsApplications` | composition of the two above | both | either component's step |
| `SQLiteStatement` | Database::registerStatement and unregisterStatement, Statement ctor/dtor, reset, executeStep | statement list, mbDone, engine cursor and halted flag | `Construct`, `Destroy`, `Reset`, `ExecuteStep` |

Each `MC*` module gives the constants model values and small sets for TLC.

History variables record what a property needs, and no action reads them:
- `last_owned` and `change_requested_at` in `AccountRecovery`;
- `failed` and `ops` in `CustomContent`;
- `rows_read`, `threw` and `last_step` in `SQLiteStatement`.

Several things are abstracted:
- **Data fields.** Memo keys, JSON payloads, URLs and block-size properties are left out, because no guard reads them.
- **Assets.** Everything is SPHTX, and VESTS convert one for one.
- **Authorities.** An authority is a model value. `OpenAuth`, `ImpossibleAuth` and `DeletedAuth` stand for the open authority, the impossible authority and the unusable authority that `account_delete` installs.
- **Failing operations.** A failing operation is simply not enabled. The one exception is CustomContent, where an aborted operation is a step that changes nothing.

## Runs

| Run (cfg) | Expect | Checks | Distinct states |
|---|---|---|---|
| `MCEscrow` | pass | TypeOK, SupplyConserved, FeeSettledOnRatification, NoDrainedEscrow, RefinesLifecycle | 196,812 (about 90 s) |
| `MCWitnessVesting` | pass | TypeOK, WithdrawalBacked, SupplyConserved, RatesQuotedAgainstSPHTX, StoppedWitnessRestartedByOwner | 807,378 (about 95 s, no symmetry) |
| `MCWitness_ActiveWitnessBacked` | violation | ActiveWitnessBacked | |
| `MCProxyVoting` | pass | TypeOK, VotesMatchDelegation, NoProxyLoop | 1,029 |
| `MCProxy_ChainWithinDepth` | violation | ProxyChainWithinDepth | |
| `MCAccountRecovery` | pass | TypeOK, RecoveryProvedByRecentOwner, RecoveryPartnerChangeDelayed | 1,467,556 (about 60 s) |
| `MCRecovery_DeletedStaysDeleted` | violation | DeletedAccountStaysDeleted | |
| `MCCustomContent` | pass | SequencesFollowOperations | 47,989 |
| `MCCustom_ProducingAborts` | violation | ProducingAbortsOnInterpreterFailure | |
| `MCApplications` | pass | TypeOK, BuyingOfLiveApplication, AuthorsExist, SupplyMatchesBalances | 963,428 (about 90 s) |
| `MCSQLiteStatement` | pass | RowsReadOnce | 1,836 |
| `MCSQLite_StepTrueOnlyOnRow` | violation | StepTrueOnlyOnRow | |

What the passing runs show:

- **Escrow** conserves SPHTX across every path of transfer, rejection refund, fee payout and partial release.
  - The fee is paid exactly when both parties have approved.
  - No escrow object remains once its balance is zero.
  - `RefinesLifecycle` maps each escrow to its phase and checks the code against `EscrowLifecycle`. It verifies:
    - funds leave only after ratification (the abstract payout does not say who releases or who receives, so those checks of `ReleaseAllowed` are not verified by the refinement);
    - rejection returns funds and fee;
    - dispute is possible only once, after ratification.
- **WitnessVesting:**
  - Supply is conserved.
  - A running withdrawal is always backed by vesting shares, across requests, payouts and transfers.
  - Every stored exchange rate has SPHTX as its base and is stored under its quote symbol. This holds whichever of witness_update, witness_set_properties and feed_publish wrote it, and in whichever orientation it was submitted.
  - `StoppedWitnessRestartedByOwner`: once a witness's signing key is empty, only its owner's witness_update gives it a key again. witness_set_properties is signed by the key in its own props (`get_required_authorities` in `steem_operations.hpp`, 285-298), not by the owner. The holder of the old key is kept out only by the evaluator's comparison with the current key and by the empty key being unsignable.
- **ProxyVoting** checks the incremental bookkeeping against a reference computed from the proxy graph (`DelegatedStake`, `ReferenceWeight`, both RECURSIVE over the chain):
  - every level of `proxied_vsf_votes`;
  - every witness's votes;
  - the vote counts.

  It also checks that no proxy loop ever forms.
- **AccountRecovery:**
  - A recovery is only ever proved by an authority that owned the account within `RECOVERY_PERIOD`.
  - A new recovery partner only takes effect after the full delay, also when a pending change is redirected.
  - Recovery processing completes. Once the accounts stop issuing operations and only blocks go on, every recovery request that expires within the explored time is dropped, and every partner change due by then takes effect. Its mutant applies a change only strictly after `effective_on`, so a change due at the last block would never be applied.
- **CustomContent:** sender and recipient sequences, per party and app, follow the order of operations without gaps. The model assumes that the `by_sender` and `by_recipient` indexes (declared outside `src/`) return the highest sequence of a party and app first, as the evaluator's reads at lines 690-701 expect.
- **Accounts and applications** (`MCApplications` checks `AccountsApplications`):
  - No purchase outlives its application or attaches to a re-created one.
  - Every application's author is an existing account, while accounts are created in between and authorship moves.
  - The recorded supply equals the balances plus the fees paid. Account creation moves the fee without creating or losing SPHTX, with and without an excess. A promotion-pool withdrawal raises the supply by exactly what it credits, also when the pool pays less than was requested.
- **SQLiteStatement:** `RowsReadOnce`. SQLite 3.40 resets a halted statement on the next `sqlite3_step` and runs the query again. So only the `mbDone` test at line 120 keeps a caller that keeps calling executeStep after SQLITE_DONE from reading the result twice. As long as no step failed, a statement delivers at most the rows of its result between construction or `reset()` and the next reset. After an error, SQLite re-runs the query on a retry; that case is exempt and listed as a hazard.

Each property of a passing run has a mutant in `PROJECT.json`. A mutant is a plausible bug in the mapped definition, such as a dropped guard, a stale read, a missing reset or a missing cascade, and TLC finds the property violated under the run's own cfg.

## Findings (the violation runs)

- **`ActiveWitnessBacked`:**
  - `witness_update` (line 70) checks `vesting_shares` but not the pending withdrawal.
  - An account can start a withdrawal and then become a witness.
  - Its payouts then take it below `witness_required_vesting` while it signs blocks.
- **`ProxyChainWithinDepth`:**
  - The loop check (614-624) walks only upward from the new proxy.
  - So the sequence a2→a1, a1→a3, a3→a4 builds a three-link chain with `SOPHIATX_MAX_PROXY_RECURSION_DEPTH` = 2.
  - The deepest stake then no longer reaches the top.
- **`DeletedAccountStaysDeleted`:**
  - `account_delete` installs an unusable owner through the normal owner-update path.
  - The recovery partner can then request recovery.
  - `recover_account` proves it with the pre-deletion owner and revives the account.
- **`ProducingAbortsOnInterpreterFailure`:**
  - `catch(...)` (729-732) swallows non-fc exceptions even on a producing node.
  - So the content objects are committed although the interpreter failed. Spec §4.6 says the operation aborts.
- **`StepTrueOnlyOnRow`:**
  - `executeStep` returns `true` on `SQLITE_DONE` (127-131).
  - A `while (executeStep())` loop therefore sees one row that does not exist.

## Bounds and why they are enough

- **Escrow:**
  - Two senders and a third account are enough for every role: from, to and agent are distinct, and both senders can act as to or agent for the other.
  - An escrowed amount of 2, released in parts of 1 or 2, and fees {0,1} with balance 3 make partial releases, zero fees and insufficient balance all reachable.
  - A clock of 0..2 puts deadlines and expiration both before and after the current time.
- **WitnessVesting:**
  - 3 shares, a requirement of 2 and 2 intervals give withdrawals that keep the requirement and ones that break it.
  - Rates come both floored to 1 and as shares/2.
  - Rate vectors of length 2 make later rates replace earlier ones.
  - Both price orientations are submitted.
- **ProxyVoting:**
  - Four accounts with stakes 1, 2, 4 and 8 make every subset of delegators produce a distinct sum.
  - Depth 2 with four accounts allows chains longer than the limit.
- **AccountRecovery:**
  - An update limit of 1, an expiration of 2 and a recovery period of 3, with 6 blocks, put every expiry, pruning and delay boundary inside the explored time.
- **CustomContent:**
  - Two apps (one interpreted), two accounts and all non-empty recipient sets.
  - Three operations give overlapping senders, recipients and apps.
- **Accounts and applications:**
  - One genesis account with balance 2 and two more names: creation with the minimum fee 1 and with an excess (fee 2), creation until the balance runs out, and sponsorships between created accounts.
  - A promotion pool of 1 and requests of 2: a withdrawal pays 0 or 1, always less than requested.
  - Three creations with two application names force deletion and re-creation under the same name.
  - The two non-genesis names are interchangeable, and so are the two prices. Both are symmetry sets.
  - The run ends once every id has been created and the balances or names run out. That is the only reason the cfg disables deadlock checking.
- **SQLiteStatement:**
  - Two statements and two rows cover row, done, a step after done, errors and the automatic re-run after them, resets and re-creation.
  - `rows_read` stops counting at `ReadBound` = NRows + 1, which is all the property tells apart; without the bound a failed query could be re-read forever.

## Fairness

No liveness property is checked, so no fairness is assumed.

The only steps the code would make happen by itself are block processing: vesting payouts, the expiry of recovery requests, and partner changes taking effect. That code is `database` code outside `src/`, modelled from the spec. A liveness property over it would check the modelled step, not this code, so none is stated. Every run checks safety only: invariants, action properties and the escrow refinement.

## Not modelled

- What a sponsorship changes: `pay_fee` is neither under `src/` nor in the spec. In the model a sponsorship changes no balance.
- `verify_authority_accounts_exist` and the authorities of a new account: authorities are left out of `AccountCreation`. A created account is not added to `AccountRecovery`, whose accounts are the genesis ones.
- How the promotion pool fills and what withdraw_from_promotion_pool pays: this is economic_model code, outside `src/`. Its virtual operation is only a record for indexers.
- The remaining declarations of `steem_operations.hpp`: these are struct fields, or single-account authorities that the models express by which account performs an action.
- claim_reward_balance2: compiled only with SMT.
- The SQLite Database constructor and destructor. The hazard of a statement that outlives its database could only be shown as a violation run. The project already uses its 12 runs on questions that pass or on findings, and no passing property of this code can be stated.
- The fee an escrow charges in an asset other than SPHTX. The spec (§4.4) says the sender is debited the escrow plus any fee in the native asset. The check on the fee's asset is in `validate()`, which is not under `src/`, so which fees reach `do_apply` cannot be translated.
- The disabled operations (report_over_production, reset_account, set_reset_account) are not modelled: each one's evaluator starts with `FC_ASSERT(false)`, so no action of theirs could ever be enabled.
- The CLI wallet, logging and the declaration-only headers.

`PROJECT.json` gives the reason for each and lists the hazards no property covers yet.

## Plan for later work

1. Add expiry of unratified escrows once the code that expires them is available; no code under `src/` does it today. Then check, under weak fairness of block production, that every escrow is eventually settled.
2. Model Database open and close in `SQLiteStatement`, for the statement-outlives-database hazard.
3. Give sponsorships their effect on `pay_fee` once that code is known.
