# VentureChain in TLA+

A verification project for VentureChain, a permissioned proof-of-authority
blockchain written in Go whose native transactions are the escrow of an
investment contract: money is locked, released milestone by milestone,
refunded, frozen by a dispute and awarded by an arbitrator. Paths below are
relative to the repository.

## 1. The system

| Component | State it keeps | Operations that change it |
|---|---|---|
| `internal/blockchain` | blocks, world state (balances, nonces, escrow locks) | `AddBlock` (validate, clone, apply each transaction, roll back) |
| `internal/consensus` | validator set (fixed), this node's id | `ProposeBlock`, `AcceptBlock` |
| `internal/mempool` | pending transactions by the id their sender wrote | `Add`, `RemoveBatch`, `Pending` (reads in map order) |
| `internal/storage` | Badger: `block:<i>`, `meta:height`, `balance:`, `nonce:`, `lock:`, `contract:` | `SaveBlock`, `SaveState`, `SaveContract`, the loads at start |
| `internal/p2p` | peer list | block, transaction and join handlers, production loop, gossip |
| `internal/escrow` | contracts: lifecycle state, milestones | `Advance`, `SubmitMilestone`, `ApproveMilestone`, `DisputeMilestone`, `ResolveArbitration` |
| `internal/api` | contract store, operation counter | transaction submission, mint, the escrow handlers |
| `internal/wallet`, `pkg/crypto`, `cmd/walletcli` | key files | sign, verify, derive addresses |
| `cmd/node` | none | first boot, restart from the store, joining the peers of `--peers`, wiring |

How they interact. A client or the API submits a transaction; the node
validates it against the live world state, adds it to its mempool and gossips
it. Every `block_time_seconds` the production loop asks whether the next height
is its own (round robin over the validator list), takes up to 200 transactions
from the mempool in map order, signs a block and commits it through
`AcceptBlock` and `AddBlock`. A block from a peer goes through the same
`AcceptBlock`. Whoever committed a block then cleans the mempool, saves the
block, saves the world state and broadcasts. The API reads locks and nonces
from the world state and keeps contracts of its own.

What makes it hard:

- *Threads.* Each HTTP request is a goroutine; the production loop is another.
  `bc.mu` covers `AddBlock` only: the mempool, `SaveBlock` and `SaveState` come
  after it in any order, and the world state is read without it by admission
  and by `SaveState`. A transaction is validated first and added later, and
  contracts are changed without any lock.
- *Crashes.* Blocks and world state are two Badger transactions; the mempool
  is in memory only.
- *Network.* Gossip is best effort and unordered, and nothing is requested
  again. Peers are known from a flag or from a join, and the joins a node has
  received are gone when it restarts.
- *Escrow money.* Five of the seven transaction types have no nonce; only the
  status and amount of the lock stop them from paying twice. Who signs them is
  not compared with the escrow authority.
- *Two truths.* A contract's lifecycle and the lock on chain are changed by
  different steps, and `POST /advance` moves a contract to any state that the
  lifecycle table allows, whatever its milestones and its lock say.

The repository has no tests. `PROJECT.json` lists the hazards line by line.

## 2. Modules

| Module | What it is |
|---|---|
| `Ledger` | `ValidateTransaction` and `ApplyTransaction` as operators on a world state, one operator per case of their switches. No variables. |
| `WorldState` | State machine of committed transactions, one action per transaction type, with history variables (minted, spent nonces, deposits, payments). |
| `EscrowPromise` | Abstract specification: what an escrow promises its parties, without accounts, signatures or nonces. `WorldState` implements it. |
| `Blocks` | Blocks, when one may follow another, the proposer of a height, and the world state a chain stands for. No variables. |
| `Mempool` | The pool of a node, keyed by transaction id, as operators on a set. No variables. |
| `Store` | The Badger store of a node: what each save writes and each load reads, as operators on a record. No variables. |
| `AtomicChain` | Abstract specification of `AddBlock`: one chain that grows by whole, valid blocks. `Node` and `Network` implement it. |
| `Node` | One validator process: goroutines, chain, state, mempool, Badger store and its failures, crash and restart, and the network it hears from. |
| `Network` | Several validators that commit at the grain of `AtomicChain`, save and admit in separate steps, and the HTTP posts between them: joining, flooding, proposing in turn, losses, crashes and restarts from the store. |
| `Escrow` | The contract of `internal/escrow`: lifecycle table, milestones, and the guard and result of every method, as operators. No variables. |
| `EscrowApi` | The escrow handlers of one node as concurrent goroutines, with the contract store, what clients sign themselves, the posted transactions and the chain that takes them. |
| `FoldTheorems` | What a loop over a sequence (`FoldLeft`) computes, by induction. |
| `SumTheorems` | What a sum over a finite set (`SumFunctionOnSet`) is, by induction on the set. |
| `LedgerProofs`, `BlocksProofs` | Lemmas about transactions and chains that the proofs below share. |
| `WorldStateProofs`, `NodeProofs`, `NetworkProofs`, `EscrowApiProofs` | Theorems about the state machines of these names, section 4. |
| `MCWorldState`, `MCNode`, `MCNetwork`, `MCEscrowApi` | Instances for TLC. |

Everything runs the transaction rules of `Ledger`: `WorldState` directly,
`EscrowApi` through `Escrow`, and `Node` and `Network` through `Blocks`,
`Mempool` and `Store`. `AtomicChain` is the hinge of the composition: `Node`
shows that the goroutines of one process come down to its steps, and `Network`
lets every process commit a block in one such step. What comes after a commit,
the two saves and the broadcast, and the two halves of an admission are steps
of their own in both.

### Ledger and WorldState

Go maps become total functions: a missing balance or nonce is 0 and a missing
lock is `NoLock`, as reads in the code give. `signer` is the address of the
attached public key if the signature verifies under it, `NoAddr` if not;
`VerifySignature` compares it with `From`. Amounts are any int64, negative and
zero included, because they arrive as JSON. `Wrap` is the two's complement
result of a credit; debits cannot underflow because `checkSenderFunds` compares
first, and payouts because they are capped by the lock. `MilestoneID` and
`Timestamp` are not read by the rules and are left out. `id` is not read by
them either, but it is the mempool's key. The hash and the signature do not
cover it, so that one transaction may come under two ids and two under one. A
transaction that fails validation changes nothing and is not a step.

The empty address `""` can receive transfers, and a contract with `""` as
founder can be funded, so `Account` has it (`NoAddr`) and `ContractRef` has the
empty contract id.

### Node

| Variable | Code |
|---|---|
| `phase` | where `main` is: down, genesis block saved, serving |
| `blocks`, `state`, `mu` | `bc.Blocks`, `bc.State`, the holder of `bc.mu` |
| `pool` | `Mempool.txs`: transactions of which no two have one id |
| `th[t]` | program counter and local variables of a goroutine: its block, position in it, `snapshot` of `AddBlock` or the copy `SaveState` has read |
| `disk` | the store's keys for blocks, height and world state |
| `net` | the chain of the other validators, taken as one |

The goroutines are the production loop (`Producer`), block handlers
(`Handlers`) and submissions (`Submitters`). A commit is `AddBlock` (lock,
`ValidateBlock`, clone), `ApplyNext` per transaction, `AppendBlock` (unlock),
`CleanPool`, `SaveBlock`, `ReadState`, `SaveState`. Steps under `bc.mu` that only
read or write what `bc.mu` protects need no finer grain; each transaction is a
step of its own because the world state is read from outside during the loop.

Abstractions, all deliberate:

- A block stands for its hash: `prev` holds the block it names. Collisions and
  forged signatures do not exist; `Delivered` holds the blocks the honest
  network made, and blocks whose parent this node does not know (another
  genesis, because `GenesisBlock` reads the clock).
- `NoFork` speaks of networks whose nodes share a genesis block, that is, were
  started from one store. Nodes that make their own genesis refuse each other's
  blocks, which the unknown-parent blocks cover from this node's side and
  `Network` from everybody's.
- `SaveState`'s iteration over three maps, and one validation's reads of a
  balance, a nonce and a lock, are each one read. The code takes the locks of
  `State` one read at a time (or not at all), so a mixture is possible; no
  property of a passing run depends on what these reads return.
- What has no entry in a Go map is not written by `SaveState` and keeps its key
  in the store. An account has a balance entry once its balance or nonce is not
  0; a balance that was credited and spent to 0 without its own nonce does not
  occur.
- `POST /p2p/tx` asks the mempool first whether it has the id; `Add` asks again,
  and only its answer counts.
- Go may also stop the process when a map is iterated and written at once:
  that is a `Crash`.
- A Badger transaction that fails (`SaveBlockFails`, `SaveStateFails`) leaves
  the store as it was; the code logs the error and goes on to broadcast.
- A block's time tells apart what one proposer proposes for one height before
  and after a crash (`crashes` stands for it); otherwise it is left out.

### Network

| Variable | Code |
|---|---|
| `chain[n]`, `world[n]` | blocks and world state of a running node |
| `saving[n]` | the blocks it has committed and not yet saved and broadcast: for each the goroutine (production loop or a handler), the next of the two saves, and the state `SaveState` has read |
| `store[n]` | its Badger store |
| `pool[n]`, `adding[n]` | its mempool, and the transactions its handlers have validated and not yet added |
| `peers[n]` | its `PeerList` |
| `posts` | HTTP posts under way: `/p2p/block`, `/p2p/tx` and `/p2p/join` |
| `issued` | transactions that the API of some node has accepted |
| `reordered` | history: nodes that saved a block after a later one |
| `stale` | history: nodes that once started with a world state that was not the one of their blocks |

`FirstStart` makes a genesis block at one of the times in `Clock` and saves it
and its state; in `FirstStartDies` the process ends between these two.
`Restart` loads whatever `SaveBlock` and `SaveState` wrote last. Both starts
register the peers of `--peers` and announce the node to them. `ReceiveBlock`,
`ReceiveTx` and `ReceiveJoin` are the handlers, `Propose` a tick of the
production loop that commits a block. `SaveBlock`, `ReadState` and `SaveState`
follow a commit, and the broadcast the last of them; several goroutines of one
node save at once, in any order. `SubmitTx` and `ReceiveTx` validate a
transaction, `AddToPool` adds it and posts it on, whatever was committed in
between. A crash may come between any two of these.

Abstractions:

- `AddBlock` and `RemoveBatch` are one step here. `Node` has them apart, with
  the snapshots of half a block that `SaveState` may then take, and with saves
  that fail; `Network` has neither.
- Clients submit each transaction once, to one node.
- `posts` is a set: two posts that are equal and under way at once are one.
- Posts to a node that is not running wait for it or are lost. A crash leaves
  the posts from and to the node as they are; one that is never delivered
  stands for one that was lost with the node.
- A join is answered with the peer list, which `cmd/node/main.go:70` does not
  read, so nodes that join one bootstrap node do not learn of each other.
- A batch that is not valid in its order changes nothing and is not a step.
- A node that restarts with a gap in its store does not start (`CanLoad`).

### Escrow and EscrowApi

| Variable | Code |
|---|---|
| `heap` | the `escrow.Contract` objects of the process |
| `registry` | `ContractStore.contracts`: which object an id names |
| `saved` | the store's `contract:` keys |
| `th[t]` | a handler: program counter, the object it holds, its transaction, the states it will advance to, the copy it has marshalled |
| `state` | the world state |
| `posted` | transactions that some node has accepted: the handlers', the funding transactions and what clients sign |
| `chain` | the transactions of the blocks, in their order |
| `ops` | `Server.opCounter`, and the timestamps of the transactions it numbers |
| `admitted` | history: which of the handlers' transactions `submitTx` accepted |
| `steered` | history: contracts that a client advanced to a state past SIGNED |
| `errored` | history: contracts whose last change was answered by an error and not saved since |

A handler gets a *pointer* from the store, so two requests change one object;
no lock protects it. `heap` and `registry` keep that identity, also when two
requests create one id. The steps of a handler are: `Get` and the method's
tests; `submitTx`, if it has a transaction; the marks a method makes before
`Advance`; `Transition`; the assignment of the state (and of the status that
`SubmitMilestone` and `DisputeMilestone` write next); the map of the store;
`json.Marshal`; `SaveContract`. A step that fails ends the handler where the
code returns, and what was changed before stays changed.

Abstractions:

- Titles and times are left out. Milestones are found by the first id that
  fits, as in the code, so duplicate ids are allowed.
- `SubmitMilestone` and `DisputeMilestone` write the state and then the
  milestone's status (`contract.go:91-94`, `149-152`); `WriteState` writes both in one
  step. `json.Marshal` reads the contract in one step.
- The chain takes one transaction per block. `Node` models how blocks come
  about; here only the order of transactions matters.
- A posted transaction may be committed whenever it is valid, also a second
  time: a node that no longer has its id in the mempool admits a late or
  repeated post of it. What every mempool has lost is simply never committed.
  Ids are not modelled here: those of the handlers' transactions are hashes.
- Clients sign the funding transaction (`FundEscrow`) and any of `ClientTxs`
  (`ClientTx`): the rules ask of a freeze, release, refund or award only that
  somebody signed it. The proofs allow any set of transactions not signed by the escrow
  wallet; the runs take the investor's freeze and a release by the founder, and
  leave out MINT, which could go on for ever.
- `ops` does not start again after a crash. `opCounter` does, but the timestamp
  in the hash keeps transactions apart.
- Investors hold enough to fund their offers.
- The world state survives a crash here; `Node` shows when it does not.
- `SaveContract` may fail; the contract then stays changed in memory, and the
  client is told, as the comment at `internal/api/handlers_escrow.go:46-49` asks.

## 3. Runs

| Run | Expect | What it asks |
|---|---|---|
| `world_state` | pass | Do accounts and escrows keep their money rules under every sequence of transactions? |
| `node_threads` | pass | Do the goroutines of one node commit, clean up and persist blocks correctly in every interleaving? |
| `node_crash` | pass | What does the store hold after crashes at any step, and restarts from it? |
| `block_forgotten` | violation | Does a restarted node still have the blocks it persisted and broadcast? |
| `state_behind_after_crash` | violation | Does the chain state survive a restart? |
| `turn_without_block` | violation | Does a validator produce a block at its turn? |
| `network` | pass | Do several nodes keep one chain, and make progress, while none crashes? |
| `network_crash` | pass | What keeps them from forking, or from including a transfer twice, when one crashes or a post is lost? |
| `minted_twice` | violation | Is a mint included once? |
| `escrow_serial` | pass | Do contract, milestones, store and chain agree when requests come one by one? |
| `escrow_threads` | pass | What do concurrent requests and a crash leave intact? |
| `milestone_released_twice` | violation | Do the handlers release a milestone once? |

**world_state** (about 120 000 states, 1 minute). Two addresses and the empty
one, two contracts, amounts -1, 0, 1 and 2, int64 shrunk to -4..3, two tokens
at genesis and two more by MINT, nonces 0 and 1. This is enough for partial and
full releases, an award that leaves a rest, two escrows drawing on one account,
replays with old nonces, transfers to oneself, lock and founder being one
party, and credits that overflow. The bounds are `MaxMinted` and `MaxNonce`
(guards of `Mint` and range of `Nonces`).

- `EscrowConservation`: held + paid = deposited, per contract.
- `SettledIffEmpty`: RELEASED or REFUNDED exactly when empty.
- `NoReplayedSpend`: spent nonces are exactly those below the current one.
- `SupplyConserved`: the total of accounts and escrows is what was issued,
  modulo the width of int64.
- `NoOverdraft`: no negative balance while less than the int64 range is issued.
- `EscrowFinality`: parties fixed, escrow only shrinks, a settled id is dead.
- `DebitSpendsNonce`: a balance falls only with its owner's nonce.
- `EscrowPaysParties`: what leaves a lock reaches one of its parties in full.
- `KeepsPromise`: refinement of `EscrowPromise`.

**node_threads** (about 130 000 states, a minute). Block 1 is the peer's, 2 this node's,
3 a third validator's; two handlers, so that two blocks, or the same block
twice, are in flight; one submitter; the transactions are the lock, the
release and the refund of one escrow, so that blocks with an invalid suffix
occur and are rolled back after the first transaction moved money and a lock.
Release and refund come under one id, as a client may send them.

- `AtomicBlocks`: with `bc.mu` free, the world state is the replay of the chain.
- `NoFork`: this node and the others hold prefixes of one chain.
- `StoredBeforeBroadcast`: a block the others have from this node is stored.
- `StoredIsCommitted`: no rejected or foreign block is stored.
- `OnlyIncludedLeavePool`: a transaction leaves the pool only when the chain
  has one with its id. That it is included itself, `WaitsUntilIncluded`, is
  false in this run, where the two ids are one; with ids that differ it is a
  theorem (section 4).
- `CommittedReachesDisk`: every committed block is stored eventually.
- `ImplementsAtomicChain`: refinement of `AtomicChain`. The abstract world is
  the state while `bc.mu` is free and the holder's clone while it is held, so a
  block appears there at its append and a rollback is not seen.

**node_crash** (about 900 000 states, half a minute). One crash and one failed
Badger transaction; block 1 is the peer's, 2 this node's, 3 a third
validator's, so that the producer overlaps a handler that has not saved yet,
and blocks are committed after the restart. `StoredIsCommitted` survives every
interleaving and the crash, including a stored height that went back and a
block that was never written. It is claimed for one crash and while no save
fails, because it does not hold otherwise: a block whose save failed, or that
the height went back behind, is proposed anew after a crash, and the older
block of that height can stay, or come to lie, below the height again when a
later save moves it on. For the same reason `NoFork` and
`StoredBeforeBroadcast` are not claimed here, and TLC refutes `NoFork`
(`block_forgotten` has the second way).

`MaxHeight` bounds the chain, `MaxTxsPerBlock` is 2 instead of 200, and
`MaxCrashes` and `MaxFailures` bound crashes and failed writes. Deadlock is not
checked where the system really stops: clients may stay silent, the chain ends
at `MaxHeight`, and a node whose store has a gap does not start.

**network** (about 44 000 states, a minute). Three validators; the second and
the third name only the first in their flags, so that blocks and transactions
between them need a join and a node that passes them on (the scripts of the
repository name all peers, which needs less). Two blocks, by the second and the
third node; one transfer that any node may accept; no crash, nothing lost, but
posts in any order, saves of one node in any order and admissions that overlap
commits.

- `KeepsOneChain`: refinement of `AtomicChain` by the longest chain.
- `NetworkAdvances` and `TxReaches`: liveness under `Reliable`, below.

**network_crash** (about 1.7 million states, two minutes). The same network with
one lost post and one crash, at any step of any node, its first start included.
A restart loads what `SaveBlock` and `SaveState` wrote last, in whatever order
they wrote it: the height may have gone back, and the world state may lag behind
the blocks, or, after a first start that died, lack the allocations.

- `Agreement`: of any two chains one is the beginning of the other, and no post
  carries a block that contradicts a chain. It is claimed until *both* has
  happened: a crash, and a block that was saved after a later one
  (`reordered`). `block_forgotten` is what both together do; with one of them
  the store keeps what was broadcast, or nobody reads it.
- `IncludedOnce`: the nonce keeps a transfer from being included twice, however
  late its posts arrive, on every node that never started with a world state
  other than that of its blocks (`stale`). Such a node may lack the last
  nonces, which `state_behind_after_crash` shows for one node; it then takes a
  transfer again.
- `TypeOK`: chains linked, stores with a block at their height.

That a crashed network goes on is not claimed: a node that forgot a block asks
nobody for it, and one that died in its first start is without tokens for good.

**escrow_serial** (about 3 million states, a minute). One handler goroutine, one
contract with two milestones of one token, or of two tokens and none, or of two
and minus one; two transactions signed by the escrow wallet, one save that
fails, clients that advance the contract to any state or to a name that is
none, the investor's freeze and a release that the founder signs, and blocks
that take any posted transaction whenever it is valid, also again. Two
milestones are needed to tell "back to IN_PROGRESS" from "COMPLETED".

All but `ReleaseSubmittedOnce` speak of moments between requests.

- `MilestonesMatchState`: in review exactly when one milestone is submitted,
  nothing touched before funding, all approved when completed. The last part
  is claimed for positive amounts only: a contract whose open milestones are
  worth nothing is completed without them.
- `BooksAgree`: what the milestones of a funded contract leave open is what the
  escrow holds on chain, less the releases that are in no block. It holds until
  a refund, an award or a party's own release is posted, or a release is in two
  blocks (`PaidByHandlers`): these move money that the contract does not count.
- `ReleaseSubmittedOnce`: the handlers submit one release of a milestone. It
  says nothing of how often blocks include it.
- `SavedOrReported`: the store has what memory has of a contract, or a client
  was answered by an error since the contract was last saved. This is what
  `internal/api/handlers_escrow.go:46-49` says that the handlers do.
- `AwardResolves`: an award ends a dispute, but for that of the last open
  milestone, after which `Advance` refuses COMPLETED.

`MilestonesMatchState`, `BooksAgree` and `AwardResolves` leave out contracts
that a client advanced past SIGNED (`steered`): `POST /advance` looks at the
lifecycle table only, and such a contract may be in review with nothing
submitted, or completed with nothing approved. The requests are in the run, and
`SavedOrReported` and `ReleaseSubmittedOnce` hold for those contracts too.

A refund is submitted to the chain before the contract is moved to TERMINATED,
and from SIGNED, FUNDED or MILESTONE_REVIEW the lifecycle refuses that move:
the contract stays where it was, with its submitted milestone
(`MilestonesMatchState`), and goes on although its escrow is refunded. That a
refunded contract always ends therefore does not hold, and no property claims
it; the chain never pays out more than was locked (`EscrowConservation`).

**escrow_threads** (about 4.8 million states, a minute and a half; the two handlers
are symmetric, and both properties treat them alike). Two handlers, one
milestone, two signed transactions, advance requests to every state of the
lifecycle and to a name that is none, one crash.

- `ApprovedIsBacked`: an approved milestone, in memory or in the store, has a
  release or award that `submitTx` accepted. That a block has paid it, or will,
  is not said and not so.
- `TypeOK`: requests never take a contract out of the lifecycle.

`ReleaseSubmittedOnce` is *not* among them: `milestone_released_twice` refutes
it. Neither is `SavedOrReported`: two handlers may write their copies of one
contract in the other order than they changed it.

The bounds are `MaxOps`, `MaxObjects`, `MaxCrashes`, `MaxFailures` and, for the
blocks, the transactions to be had and the money of the lock. Deadlock is not
checked: a completed or terminated contract takes no more requests. `MaxObjects`
is 1: two objects, that is, two creates of one id at once, make more states than
these runs can hold.

**Fairness** (`FairSpec` of `Node` and of `Network`; the other specifications
have no liveness property and state none). `Node`: weak fairness of every
goroutine step, because the Go scheduler runs what can run, and strong fairness
of `AddBlock`, which waits for `bc.mu`: a `sync.RWMutex` does not starve a
waiting writer. First boot is fair; crashes, failing writes, arriving blocks,
peers and clients are not. `Network`: weak fairness of starting a node (its
operator does), of the production loop, of saving, of adding what was validated,
and of serving some post that is under way to a running node.

Fairness alone does not make a network advance. `Reliable` names what else it
takes, and is the premise of both liveness properties: nothing lost and no
crash; every node up and joined before the first block or transaction; and
every block post arrives at a node that has the block before it. The last one
is what a block interval of three seconds is for, but it is an assumption: a
block that overtakes its predecessor is refused, `internal/p2p/node.go:72`
relies on a next round of gossip that does not exist, and
`internal/p2p/gossip.go:27` on a peer that asks for what it missed, which no
code does (`README.md:88` says so). `NetworkAdvances` has one premise more,
`PoolsFit`: at a node's turn, whatever `Pending` may return is valid in that
order. A pool with two transactions that exclude each other, or with one that was
validated before and added after the block that made it invalid, stops its
node for good (`turn_without_block`); with the one transfer of this run the
latter happens, and the premise is needed.

**Findings.** The violation runs show places where the code does less than
its comments say; `PROJECT.json` quotes both.

1. `SaveBlock` writes whatever index it is given as the height, outside
   `bc.mu`; two goroutines can make it go back, and a node that then restarts
   has lost a block that it broadcast, and proposes another.
2. A crash between `SaveBlock` and `SaveState` leaves a world state that lacks
   the last block; on first boot, the genesis allocations.
3. A MINT whose post arrives after the block that contains it is admitted and
   included again: tokens are issued twice for one request.
4. Two admitted transactions that exclude each other stop this validator, and
   with round robin the chain, for good. So does a single spend that
   `submitTx` or `handleReceiveTx` (`node.go:111-115`) validated while
   the block that contains it was being applied, and added after `RemoveBatch`:
   with `Txs <- LockTxs` the same run finds that behaviour.
5. Two concurrent release requests of one milestone both pass its status test
   and pay it twice, from the money of the other milestones.

Others have no run of their own. About the chain and the network:

- Every node makes its own genesis block, with the time of its first start
  (`internal/blockchain/block.go:107`), so nodes that start in different
  seconds never accept each other's blocks. With `Clock = {1, 2}` TLC refutes
  `NetworkAdvances`.
- The mempool is keyed by `tx.ID`, which `POST /api/chain/tx` takes from the
  client and fills only when it is empty (`internal/api/handlers_chain.go:55`), and which
  neither hash nor signature covers. `RemoveBatch` (`mempool.go:49`) so
  removes a transaction when a block includes another one with its id, and
  `Add` drops a second one although the client is told that it is pending.
  `mempool.go:9` speaks of transactions "waiting to be picked up"; as a
  property of `node_threads`, TLC refutes `WaitsUntilIncluded`.
- A release that comes late is admitted and included again like the mint of
  finding 3, while the escrow holds enough: the founder is paid from what other
  milestones are to be paid with (`PaidByHandlers`).
- `ValidateTransaction` compares the signer of a RELEASE, REFUND, ARBITRATE or
  FREEZE_DISPUTE with `tx.From` and not with the escrow authority
  (`validation.go:70-123`), so that a release which a party signs is valid at
  `POST /api/chain/tx`, although `internal/escrow/contract.go:100-102` says that
  the authority is "the entity that signs this transaction" and no contract
  party is. A MINT needs no signature at all there, although `validation.go:50-52`
  counts on the API to gate it.
- `internal/p2p/node.go:120` says the reply to a join lets the joiner build its
  registry; nobody reads it.

About the escrow handlers:

- `ApproveMilestone` marks the milestone and then calls `Advance`. When a
  client has moved the contract meanwhile, the handler returns at
  `handlers_escrow.go:263` without `Save`: memory says APPROVED, the store
  SUBMITTED, though `badger_store.go:218` says that every mutation is saved. The
  client is answered by an error, which is all that `SavedOrReported` claims.
- Two requests on one contract may write it in the other order than they changed
  it (`handlers_escrow.go:55` is outside the lock): both succeed, and the store keeps the older
  copy. With two handlers TLC refutes `SavedOrReported`.
- `POST /advance` takes a contract into MILESTONE_REVIEW with nothing submitted,
  on into COMPLETED with nothing approved, or into IN_PROGRESS without a lock,
  although `internal/escrow/lifecycle.go:15-17` says what these states stand
  for. Without `steered`, TLC refutes `MilestonesMatchState`, `BooksAgree` and `AwardResolves`.
- A milestone is approved when its release is in the mempool.
  `internal/escrow/contract.go:122` says: after it is confirmed on chain.
- A dispute through the API submits no FREEZE_DISPUTE, although
  `internal/blockchain/transaction.go:22` says the escrow is frozen pending
  arbitration. The award is refused until a client freezes the escrow itself.
- An award of the last open milestone is submitted, but the lifecycle has no
  step from DISPUTED to COMPLETED, although `internal/escrow/lifecycle.go:30`
  says that arbitration resumes or ends the contract: the exception that
  `AwardResolves` names.

And `README.md:87` says contracts are not persisted, but
`internal/api/handlers_escrow.go:50` saves them and `NewContractStore` loads
them. `EscrowApi` models what the code does.

Each property of a passing run has a mutant, a faulty variant beside the
definition it replaces, that TLC finds.

## 4. Proofs

Everything here is proved with TLAPS for every set of accounts, contracts,
transactions, validators and goroutines, every width of the integers and every
value of the bounds. The assumptions are the named ones of the modules
(`LedgerAssumption`, `BlocksAssumption`, `StoreAssumption`, `NodeAssumption`,
`NetworkAssumption`, `WorldStateAssumption`, `EscrowApiAssumption`): typed
constants, at least one validator, some time for the clock to show, goroutine
names that differ, and clients that do not sign with the key of the escrow
wallet.

| Module | Theorem | Property | Claimed when |
|---|---|---|---|
| `WorldStateProofs` | `TypeCorrect` | `TypeOK` | always |
| | `EscrowConserved` | `EscrowConservation` | always |
| | `SettledExactlyWhenEmpty` | `SettledIffEmpty` | always |
| | `SpendsNotReplayed` | `NoReplayedSpend` | always |
| | `EscrowsAreFinal` | `EscrowFinality` | always |
| | `DebitsAreSigned` | `DebitSpendsNonce` | always |
| | `PayoutsReachParties` | `EscrowPaysParties` | always |
| | `EscrowKeepsPromise` | `KeepsPromise` | always |
| | `SupplyIsConserved` | `SupplyConserved` | `FiniteNames` |
| | `NothingOverdrawn` | `NoOverdraft` | `FiniteNames` |
| `LedgerProofs` | `ApplySound` | | a validated transaction |
| `FoldTheorems` | `FoldEmpty`, `FoldAppend`, `FoldType` | | always |
| `SumTheorems` | `SumRemove`, `SumChange`, `SumBounds`, `SumSame`, `SumType`, `SumZero`, `SumEmpty` | | a finite set |
| `NodeProofs` | `TypeCorrect` | `TypeOK` | always |
| | `AtomicUntilCrash` | `AtomicBlocks` | `crashes = 0` |
| | `NoForkUntilCrash` | `NoFork` | `crashes = 0` |
| | `StoredFirst` | `StoredBeforeBroadcast` | `crashes = 0`, `failures = 0` |
| | `StoreHoldsChain` | `StoredIsCommitted` | always (it names its condition) |
| | `PoolKeepsPending` | `OnlyIncludedLeavePool` | always |
| | `PendingUntilIncluded` | | `DistinctIds` |
| | `OneLifeIsAtomic` | `ImplementsAtomicChain` | `MaxCrashes = 0` |
| `NetworkProofs` | `TypeCorrect` | `TypeOK` | always |
| | `NodesAgree` | `Agreement` | `OneGenesis` (it names its condition) |
| | `NetworkKeepsOneChain` | `KeepsOneChain` | `OneGenesis`, `NoCrashes` |
| | `SpendIncludedOnce` | | always (of nodes never `stale`) |
| | `SpendsIncludedOnce` | `IncludedOnce` | `OnlySpends` |
| `EscrowApiProofs` | `TypeCorrect` | `TypeOK` | always |
| | `ApprovedBacked` | `ApprovedIsBacked` | always |
| | `OneReleaseSubmitted` | `ReleaseSubmittedOnce` | `OneAtATime` |
| | `StoreIsCurrent` | `SavedOrReported` | `OneAtATime` |
| | `AwardsResolve` | `AwardResolves` | `OneAtATime` |
| | `MilestonesInOrder` | `MilestonesMatchState` | `OneAtATime`, `OffersFit` |
| | `BooksInOrder` | `BooksAgree` | `OneAtATime`, `OffersFit` |

So every safety and action property that a passing run checks is also a theorem.

Each condition is one without which the property is false, by a run or a trace:

- `crashes = 0`: `state_behind_after_crash` refutes atomicity after a crash, and
  `block_forgotten` and the failed saves of `node_crash` refute the rest. The
  proofs hold until the first crash also in behaviours that crash later.
- `failures = 0`: a block whose save failed is broadcast all the same. What
  does not depend on the store (`NoFork`, `AtomicBlocks`) is proved without it.
- `DistinctIds`: no two transactions that clients submit have one id. Two are
  enough for one to push the other out of the pool.
- `OneGenesis`: the clock gives every node one genesis block; with two, nodes
  fork at height 0.
- `NoCrashes` (`MaxCrashes = 0`) for the refinement, which maps to the longest
  chain in memory: a node that stops may have been the only one to have it.
  `Agreement` itself is proved for any number of crashes, or any saves out of
  order, and not for both; `SpendIncludedOnce` for both, but of nodes that
  never started with a world state other than that of their blocks.
- `OnlySpends`: clients submit transfers and locks only; `minted_twice` is the
  counterexample for a MINT. `SpendIncludedOnce` needs no such condition, it
  speaks of the transfers and locks among whatever is submitted.
- `OneAtATime`: one handler, and `MaxCrashes = 0`. `milestone_released_twice` is
  what two handlers do; a crash between `submitTx` and `SaveContract` leaves the
  milestone SUBMITTED in the store, so that it can be released again. Blocks,
  failed saves, awards and refunds are not restricted.
- `FiniteNames`: finitely many accounts and contracts. A sum over an infinite
  set is not defined; the code sums nothing, and its maps are finite.
- `OffersFit`: whichever milestones of an offer are added up, the sum is an
  int64. The code adds without a test of overflow and asks for a positive total
  only. A milestone of 1 and four of 2^62 have the total 1; once the first is
  released nothing seems to be left, and the contract is COMPLETED with four
  milestones open. Four of 2^62 - 1 and one of 2^62 + 4 have the total 2^62;
  when the four are released before the next block, what is left open and what
  the lock still has to give differ by 2^64. Zero and negative amounts fit.

**WorldState.** The inductive invariant is `IInv`, the conjunction of the first
four properties. The types alone are not inductive: that a release leaves an
amount that is still an int64 needs the cap of `ReleaseValid` and a non-negative
lock; that a refund counts what it paid needs `EscrowConservation`; the
refinement needs `SettledIffEmpty`, because `EscrowPromise` closes an escrow
exactly when it is empty. The proof has one lemma per transaction type on what
`ApplyTransaction` does to accounts and to the lock, then one step per action,
then the temporal theorems. `ApplySound` says the same of one transaction, for
any state of which lock amounts are not negative; `Node` needs it because there
the world state may be one that no chain stands for.

The supply needs a stronger invariant than its two properties: `SupplyExact`,
that while less than 2^63 is issued the total is what was issued, not only
modulo 2^64, and no balance is negative. Each holds up the other: a credit
cannot overflow because the receiver's balance, the other balances and the
escrows are terms of one sum, none negative (`SumBounds`), and the sum stays
exact because no credit overflows. One transaction exchanges two or three
terms (`SumChange`); past 2^63 a credit that wraps moves the sum by the width.

**Node.** `IInv` of `NodeProofs` says, beside the types, what every goroutine
has established at its program counter (`Applying`, `InChain`, `ProducerOK`,
`HandlerOK`): whoever is inside `AddBlock` has validated its block against the
tip that is still the tip, and has applied a prefix of its transactions to its
snapshot; a handler holds a block that the others hold, or one whose parent
this node does not know; the production loop holds a block that nobody else has, and
it is the tip until it is broadcast. Around it stand the chain, the store and
the others:

- `WorldAgrees`: the state, or the snapshot of the goroutine that holds
  `bc.mu`, is the replay of the chain. It gives `AtomicBlocks` and the
  refinement, and needs `Applying`: that a rollback returns to the replay is a
  fact about the snapshot, and that the last step of the loop arrives at the
  replay of the longer chain is an induction over the transactions.
- `OwnBroadcast`: what this node proposed in this life and the others hold is
  in its chain, and in its store unless a save failed. `NoFork` does not
  survive a step of the producer without it.
- `StoreAgrees`, `OwnStored`, `FirstLifeAgrees`: the store agrees with the chain,
  but for the block that the production loop is about to save, and a block of
  an earlier life differs from a new one in its time only if the others do not
  hold it. Without them `StoredIsCommitted` is not inductive: the height may
  jump over blocks that were never in this chain. They hold through one crash.

The condition of `StoredIsCommitted` (one crash, no failed save) is the one the
invariant gives. Without it the property is false: with blocks 1, 2 and 4 of
other validators and a second crash, for instance, the stored height moves on
past a block that this node proposed twice.

**Network.** `IInv` of `NetworkProofs` has, beside the types, for every node:
`Local`, a linked chain, and tasks that save blocks of it; `Sane`, that a node
which is not `stale` has a chain of valid blocks, the world state that they
leave, and in its store only blocks that once stood at the end of such a chain
(`Rooted`: the height may go back, but what the store then holds below it is
still linked, and by `LastDecides` one chain); `Saved`, that a task past
`SaveBlock` has its block where a restart would load it, unless blocks were
saved out of order.

The one that carries the proof of `Agreement` is `Backed`: while `Calm`, a block
that is anywhere but with its maker (in a post, or in the chain or store of
another: `Out`) is in its maker's chain, and, unless blocks were saved out of
order, in its store (`Holds`). So a proposer that restarts has every block that
anybody took from it and proposes none of these heights again; one that never
stops has them anyway. Two chains agree at a height because both have the block
of the validator whose turn it was. `Agreement` alone is not inductive, because
it says nothing of what a crashed proposer may have told. `Calm` is what lets `Holds`
survive: a crash is harmless while stores are in order, and disorder while nobody
reads them.

The refinement maps to the longest chain; a step is `Extend` when it commits a
block that no chain had, and its validity there comes from `Sane` and from
`Agreement`. `SpendIncludedOnce` needs an induction over a chain (`ChainUsesUp`): the
nonces of the spends in a chain are used up in the world it leaves, so a later
block that repeats one is not valid. That is where a node with another world
state has to be left out. `OneLifeIsAtomic` is what allows `Network` to take a
commit as one step.

**EscrowApi.** The invariant (`IInv` of `EscrowApiProofs`) has what a handler has
established at its program counter (`HandlerOK`): past `submitTx` its
transaction was accepted, the states ahead of it are states of the lifecycle,
and what it has marshalled is backed. `ApprovedIsBacked` alone is not inductive,
because handlers hold objects that the map may no longer name: a second create
of an id replaces the first object, whose handlers go on. `OwnedBy` therefore
gives every object, named by the map or not, one contract id, under which its
approvals are backed; the copy about to be stored is backed as well, and a
restart gives the objects it makes the ids of their keys. `SerialInv` adds that
a milestone whose release was accepted is APPROVED or about to be marked by the
handler that submitted it, that a handler which is to release still finds its
milestone SUBMITTED, and that no mark is set on an APPROVED one. That amounts
stay int64 is an induction over the milestones (`SumTyped`).

*Between requests.* The properties that start with `Quiet` speak of moments
when no handler works; their invariant, `BetweenInv`, speaks of all. A contract
that no handler holds is `Fine`: its milestones fit its state, unless it was
`steered` (`Story`, `Told`), and the store has it, or a client was told that it
may not (`Kept`). For a handler at work, `Working` says at each program counter
what it has still to do until its contract is `Fine`: before `submitTx` it may
stop, because nothing has changed; once it has approved a milestone it must come
through `Advance` and `Save`, or answer by an error. That `Advance` never refuses a contract
that was not `steered` and that the handler has already changed, with the award
of the last open milestone as the only exception, is the heart of the proof, and
where the lifecycle table enters (`Lifecycle`). Each successful save clears
`errored`, so that one failed save does not excuse the next request.

*Sums.* `TotalAmount` and `RemainingAmount` are loops that wrap.
`LoopAdds` shows, by induction over the milestones, that a loop whose terms fit
computes the sum over the set of milestones, and `RemainingIsSum` that
`RemainingAmount` is the sum over those that are open. Without the second way
to see it, approving a milestone in the middle of the list says nothing of the
loop's result. `AllSized` carries `OffersFit` from the offers to the contracts.

*The books.* `BooksAgree` relates a contract, a lock and the posted
transactions, which change in different steps: `submitTx` posts a release
before `ApproveMilestone` closes the milestone, and a block takes it from the
lock later. `Books` says of every `Plain` contract (not `steered`, and
`PaidByHandlers`) that its open amount is the lock less the releases in no
block, plus `Due`: what the handler between those two steps has submitted and
not yet approved (`Balanced`). It also says what the move into IN_PROGRESS
starts from: before funding no release was posted, and `ConfirmFunded` has
compared the lock with the total, which is then all open (`Ledgered`).
`PostedKnown` keeps the posted transactions finite and, by the order of `ops`, a
new release different from those there, so that the sum over the set counts it.
A block that includes a release again makes the contract not `Plain` from then
on; any other goes through the rules of `Ledger`, by which only a release of
the contract itself takes from its lock while it is `Plain` (`LocksKept`).

**Induction.** The induction theorems of the library take an operator as their
parameter, which the installed provers cannot instantiate. `FoldTheorems`
derives what is needed from the well-foundedness of `<` on sets of numbers
(`LeastNumber`, `CountUp`), and an operator to fold with enters as the constant
`Op`, with `INSTANCE ... WITH`. That reaches the loops over transactions,
blocks and milestones. `SumTheorems` does the same for finite sets: a set of
subsets that has every set whose proper subsets it has, has them all
(`FiniteInduction`). The library's sum is a recursive function that adds its
elements in an order of its own choosing; `SumRemove` says that any order gives
the same.

Model-checked only: liveness (`CommittedReachesDisk`, `NetworkAdvances`,
`TxReaches`), because the prover knows neither fairness nor `ENABLED`.

## 5. Not modelled

Signatures, hashes and key files (`pkg/crypto`, `internal/wallet`,
`cmd/walletcli`): cryptography is taken as perfect, and these parts compute or
read and write one file. Configuration, flags and scripts; the check of the
internal API key. Read-only API queries and `/p2p/peers`. `AnnounceSelf` and
`PeerList.Remove`, which nothing calls. Clocks beyond the genesis block, HTTP
timeouts (a post that times out is lost), a full disk that also keeps Badger
from opening.

## 6. Plan

1. *Done:* `Ledger`, `WorldState`, `EscrowPromise` and their proofs; `Blocks`,
   `Mempool`, `Store`, `AtomicChain`, `Node`; `Network` with the saves, crashes
   and admissions of `Node`; `Escrow` and `EscrowApi` with failing saves, odd
   amounts, and clients that name any state and sign transactions themselves.
2. *Done:* the proofs of section 4: every safety property of `WorldState`,
   `Node`, `Network` and `EscrowApi`, and both refinements of `AtomicChain` and
   the one of `EscrowPromise`.
3. If the bounds allow it: two creates of one contract id, and what a network
   still promises after a bootstrap node has forgotten its peers.
4. What `ReleaseSubmittedOnce` becomes after a crash: which requests a restarted
   node would have to refuse.
5. `Agreement` through a crash after saves out of order, for blocks that every
   node has saved.
