----------------------------- MODULE NftService -----------------------------
(***************************************************************************)
(* InvoiceNFTService (server/nft-service.ts): how a server process finds   *)
(* or creates the Merkle tree and the collection its NFTs go to, how it    *)
(* heals itself (server/index.ts), and how the NFT of an invoice is minted *)
(* and recorded (server/nft-routes.ts).                                    *)
(*                                                                         *)
(* One process, whose tree and collection are kept in system_settings and  *)
(* not in its environment (MERKLE_TREE_ADDRESS is not set; nothing sets a  *)
(* collection there), with ENABLE_NFT_MINTING on.  A task runs one step    *)
(* per await.  An address is a number: those from FirstMade on were        *)
(* created by this service, in that order.                                 *)
(*                                                                         *)
(* Left out: what an NFT says and where its metadata is stored, fees, and  *)
(* the update authority of the collection, which is this server's.         *)
(* Receipts are in Settlement, transfers in Escrow.                        *)
(*                                                                         *)
(* Where two operators with the same parameters stand one above the other, *)
(* the first is a fault the second must not have: no action uses it, the   *)
(* runs show that the properties would notice it.                          *)
(***************************************************************************)
EXTENDS Integers, FiniteSets

CONSTANTS
    Tasks,       \* callers of initialize(): startup, routes, the timer
    Timer,       \* ... the one that comes back every minute
    Invoices,
    Requests,    \* POST /api/nft/mint-invoice, each at most once
    Settings,    \* system_settings as a process may find it: rows of another
                 \*   network, or none
    Balances,    \* what the server's wallet may hold: see ForTree, ForCollection
    NoNft,
    MaxFaults    \* bound: crashes, failed statements and calls

NoAddress == 0
Foreign == 1     \* a row that was written on another network
FirstMade == 2

\* The wallet holds less than 0.01 SOL (0), less than 0.025 SOL (1), or more.
ForTree == 1
ForCollection == 2

ASSUME NftAssumption ==
    /\ Timer \in Tasks
    /\ Settings \subseteq [tree : {NoAddress, Foreign},
                          collection : {NoAddress, Foreign}]
    /\ Balances \subseteq 0 .. ForCollection
    /\ NoNft \notin [tree : Nat, leaf : Nat]
    /\ MaxFaults \in Nat

VARIABLES
    settings,  \* system_settings: merkle_tree_address, genesis_collection_mint
    made,      \* the chain: the last tree and the last collection created
    service,   \* the fields of the process's InvoiceNFTService
    task,      \* doInitialize: where it is, the row it read
    balance,   \* of the server's wallet
    leaves,    \* the chain: the leaves of the trees
    nft,       \* invoices: nftMint
    unproven,  \* history: invoices with a confirmation that did not show their mint
    mint,      \* mint[r]: where a request to mint is
    faults

vars == <<settings, made, service, task, balance, leaves, nft, unproven, mint, faults>>

Addresses == [tree : Nat, collection : Nat]
Leaf == [tree : Nat, leaf : Nat, invoice : Invoices]
InitSteps == {"idle", "readTree", "checkTree", "fundTree", "createTree",
              "persistTree", "readCollection", "checkCollection",
              "fundCollection", "createCollection", "upsertCollection",
              "updateCollection"}
ServerSteps == {"build", "readLeaf", "derive", "record"}
MintSteps == {"idle", "send", "sign", "ask", "done"} \union ServerSteps
Mint == [at : MintSteps, server : BOOLEAN, invoice : Invoices,
         tree : Nat, leaf : Nat]

Exists(kind, a) == a \in FirstMade .. made[kind]

Init ==
    /\ settings \in Settings
    /\ made = [tree |-> Foreign, collection |-> Foreign]
    /\ service = [tree |-> NoAddress, collection |-> NoAddress,
                  initialized |-> FALSE, promise |-> "none"]
    /\ task = [t \in Tasks |-> [at |-> "idle", row |-> NoAddress]]
    /\ balance \in Balances
    /\ leaves = {}
    /\ nft = [i \in Invoices |-> NoNft]
    /\ unproven = {}
    /\ mint \in [Requests -> [at : {"idle"}, server : {FALSE},
                              invoice : Invoices, tree : {NoAddress},
                              leaf : {0}]]
    /\ faults = 0

-----------------------------------------------------------------------------
(* initialize() and doInitialize().                                         *)

Ready == service.tree # NoAddress
HasCollection == service.collection # NoAddress

\* initialize() returns the promise of an initialization under way.
MayInitializeAgain == ~service.initialized

MayInitialize == ~service.initialized /\ service.promise = "none"

At(t, step) == task[t].at = step
Go(t, step) == task' = [task EXCEPT ![t].at = step]
Read(t, step, a) == task' = [task EXCEPT ![t] = [at |-> step, row |-> a]]

\* doInitialize ends, with everything in place or for want of funds.
Settle(t, fields) ==
    /\ service' = [fields EXCEPT !.promise = "settled"]
    /\ task' = [task EXCEPT ![t] = [at |-> "idle", row |-> NoAddress]]

\* The catch of doInitialize.
CaughtHolding(fields) ==
    [fields EXCEPT !.initialized = FALSE, !.promise = "settled"]

Caught(fields) == [fields EXCEPT !.initialized = FALSE, !.promise = "none"]

Throw(t, fields) ==
    /\ service' = Caught(fields)
    /\ task' = [task EXCEPT ![t] = [at |-> "idle", row |-> NoAddress]]

OnlyTask == UNCHANGED <<settings, made, balance, leaves, nft, unproven, mint, faults>>

Initialize(t) ==
    /\ At(t, "idle")
    /\ ~Ready \/ ~HasCollection
    /\ MayInitialize
    /\ service' = [service EXCEPT !.promise = "pending"]
    /\ Go(t, "readTree")
    /\ OnlyTask

ReadTree(t) ==
    /\ At(t, "readTree")
    /\ Read(t, IF settings.tree = NoAddress THEN "fundTree" ELSE "checkTree",
            settings.tree)
    /\ UNCHANGED service
    /\ OnlyTask

CheckTree(t) ==
    /\ At(t, "checkTree")
    /\ \/ /\ Exists("tree", task[t].row)
          /\ service' = [service EXCEPT !.tree = task[t].row]
          /\ Go(t, "readCollection")
       \/ /\ ~Exists("tree", task[t].row)
          /\ Go(t, "fundTree")
          /\ UNCHANGED service
    /\ OnlyTask

FundTree(t) ==
    /\ At(t, "fundTree")
    /\ \/ /\ balance >= ForTree
          /\ Go(t, "createTree")
          /\ UNCHANGED service
       \/ /\ balance < ForTree
          /\ Settle(t, [service EXCEPT !.initialized = FALSE])
    /\ OnlyTask

NewTree == made' = [made EXCEPT !.tree = @ + 1]
NewCollection == made' = [made EXCEPT !.collection = @ + 1]

CreateTree(t) ==
    /\ At(t, "createTree")
    /\ NewTree
    /\ service' = [service EXCEPT !.tree = made.tree + 1]
    /\ Go(t, "persistTree")
    /\ UNCHANGED <<settings, balance, leaves, nft, unproven, mint, faults>>

\* A row that was there is updated, whatever became of it; else one is
\* inserted.  The key is unique.
PersistedKeeping(t) ==
    IF task[t].row = NoAddress THEN service.tree ELSE settings.tree

Persisted(t) == service.tree

PersistTree(t) ==
    /\ At(t, "persistTree")
    /\ \/ /\ task[t].row # NoAddress \/ settings.tree = NoAddress
          /\ settings' = [settings EXCEPT !.tree = Persisted(t)]
          /\ Go(t, "readCollection")
          /\ UNCHANGED service
       \/ /\ task[t].row = NoAddress /\ settings.tree # NoAddress
          /\ Throw(t, service)
          /\ UNCHANGED settings
    /\ UNCHANGED <<made, balance, leaves, nft, unproven, mint, faults>>

ReadCollection(t) ==
    /\ At(t, "readCollection")
    /\ Read(t, IF settings.collection = NoAddress
               THEN "fundCollection" ELSE "checkCollection",
            settings.collection)
    /\ UNCHANGED service
    /\ OnlyTask

Complete(fields) == [fields EXCEPT !.initialized = TRUE]

CheckCollection(t) ==
    /\ At(t, "checkCollection")
    /\ \/ /\ Exists("collection", task[t].row)
          /\ Settle(t, Complete([service EXCEPT !.collection = task[t].row]))
       \/ /\ ~Exists("collection", task[t].row)
          /\ Go(t, "fundCollection")
          /\ UNCHANGED service
    /\ OnlyTask

\* Too little for a collection is an error, which the catch gets.
FundCollection(t) ==
    /\ At(t, "fundCollection")
    /\ \/ /\ balance >= ForCollection
          /\ Go(t, "createCollection")
          /\ UNCHANGED service
       \/ /\ balance < ForCollection
          /\ Throw(t, service)
    /\ OnlyTask

CreateCollection(t) ==
    /\ At(t, "createCollection")
    /\ NewCollection
    /\ service' = [service EXCEPT !.collection = made.collection + 1]
    /\ Go(t, "upsertCollection")
    /\ UNCHANGED <<settings, balance, leaves, nft, unproven, mint, faults>>

UpsertCollection(t) ==
    /\ At(t, "upsertCollection")
    /\ settings' = [settings EXCEPT !.collection = service.collection]
    /\ \/ /\ task[t].row # NoAddress
          /\ Go(t, "updateCollection")
          /\ UNCHANGED service
       \/ /\ task[t].row = NoAddress
          /\ Settle(t, Complete(service))
    /\ UNCHANGED <<made, balance, leaves, nft, unproven, mint, faults>>

UpdateCollection(t) ==
    /\ At(t, "updateCollection")
    /\ settings' = [settings EXCEPT !.collection = service.collection]
    /\ Settle(t, Complete(service))
    /\ UNCHANGED <<made, balance, leaves, nft, unproven, mint, faults>>

Initializing(t) ==
    \/ ReadTree(t) \/ CheckTree(t) \/ FundTree(t) \/ CreateTree(t)
    \/ PersistTree(t) \/ ReadCollection(t) \/ CheckCollection(t)
    \/ FundCollection(t) \/ CreateCollection(t) \/ UpsertCollection(t)
    \/ UpdateCollection(t)

-----------------------------------------------------------------------------
(* POST /api/nft/mint-invoice/:id: the server mints, for a wallet without a *)
(* key of its own, or draws up a transaction that the page signs, sends and *)
(* reports to POST /api/nft/confirm-mint/:id.                               *)

MintAt(r, step) == mint[r].at = step
MintGo(r, step) == mint' = [mint EXCEPT ![r].at = step]
OnlyMint == UNCHANGED <<settings, made, service, task, balance>>

\* A request that is refused leaves no trace.
MintRead(r) ==
    /\ MintAt(r, "idle")
    /\ nft[mint[r].invoice] = NoNft
    /\ Ready
    /\ \E server \in BOOLEAN :
         mint' = [mint EXCEPT ![r].at = "build", ![r].server = server]
    /\ OnlyMint /\ UNCHANGED <<leaves, nft, unproven, faults>>

\* The tree is read when the metadata has been uploaded.
MintBuild(r) ==
    /\ MintAt(r, "build")
    /\ mint' = [mint EXCEPT ![r].tree = service.tree,
                            ![r].at = IF mint[r].server THEN "send" ELSE "sign"]
    /\ OnlyMint /\ UNCHANGED <<leaves, nft, unproven, faults>>

NextLeaf(tree) == Cardinality({l \in leaves : l.tree = tree})

Lands(r) ==
    leaves' = leaves \union {[tree |-> mint[r].tree,
                              leaf |-> NextLeaf(mint[r].tree),
                              invoice |-> mint[r].invoice]}

\* mint[r].leaf: what the logs of the transaction say.
MintLands(r) ==
    /\ MintAt(r, "send") \/ MintAt(r, "sign")
    /\ Lands(r)
    /\ mint' = [mint EXCEPT ![r].leaf = NextLeaf(mint[r].tree),
                            ![r].at = IF mint[r].server
                                      THEN "readLeaf" ELSE "ask"]
    /\ OnlyMint /\ UNCHANGED <<nft, unproven, faults>>

\* The page is closed, the wallet refuses, the transaction fails.
PageLapses(r) ==
    /\ MintAt(r, "sign") \/ MintAt(r, "ask")
    /\ MintGo(r, "done")
    /\ OnlyMint /\ UNCHANGED <<leaves, nft, unproven, faults>>

\* confirm-mint for invoice i, of a signature whose logs name this leaf.
Confirming(r, i, tree, leaf) ==
    mint' = [mint EXCEPT ![r] = [at |-> "readLeaf", server |-> FALSE,
                                 invoice |-> i, tree |-> tree, leaf |-> leaf]]

\* Any signature is taken for any invoice, minted already or not: that of its
\* own mint, of another one, or of a transaction that minted nothing.
ConfirmMint(r) ==
    /\ MintAt(r, "ask") \/ MintAt(r, "idle")
    /\ Ready
    /\ \E i \in Invoices :
         \/ \E l \in leaves :
              /\ Confirming(r, i, l.tree, l.leaf)
              /\ unproven' = IF l.invoice = i THEN unproven
                                            ELSE unproven \union {i}
         \/ /\ Confirming(r, i, service.tree, 0)
            /\ unproven' = unproven \union {i}
    /\ OnlyMint /\ UNCHANGED <<leaves, nft, faults>>

LastLeafOf(r) == NextLeaf(mint[r].tree) - 1

LeafOf(r) == mint[r].leaf

ReadLeaf(r) ==
    /\ MintAt(r, "readLeaf")
    /\ mint' = [mint EXCEPT ![r].leaf = LeafOf(r), ![r].at = "derive"]
    /\ OnlyMint /\ UNCHANGED <<leaves, nft, unproven, faults>>

\* The node has no logs of the transaction: the index is taken to be 0.
NoLogs(r) ==
    /\ MintAt(r, "readLeaf")
    /\ mint' = [mint EXCEPT ![r].leaf = 0, ![r].at = "derive"]
    /\ unproven' = unproven \union {mint[r].invoice}
    /\ OnlyMint /\ UNCHANGED <<leaves, nft, faults>>

\* deriveAssetId takes the tree the service has by then.
DeriveAssetId(r) ==
    /\ MintAt(r, "derive")
    /\ mint' = [mint EXCEPT ![r].tree = service.tree, ![r].at = "record"]
    /\ OnlyMint /\ UNCHANGED <<leaves, nft, unproven, faults>>

RecordMint(r) ==
    /\ MintAt(r, "record")
    /\ nft' = [nft EXCEPT ![mint[r].invoice] =
                 [tree |-> mint[r].tree, leaf |-> mint[r].leaf]]
    /\ MintGo(r, "done")
    /\ OnlyMint /\ UNCHANGED <<leaves, unproven, faults>>

Minting(r) ==
    \/ MintRead(r) \/ MintBuild(r) \/ MintLands(r) \/ PageLapses(r)
    \/ ConfirmMint(r) \/ ReadLeaf(r) \/ NoLogs(r) \/ DeriveAssetId(r)
    \/ RecordMint(r)

-----------------------------------------------------------------------------
(* The surroundings.                                                        *)

Fault == faults < MaxFaults /\ faults' = faults + 1

\* The wallet pays for what is created, and somebody funds it.
Fund ==
    /\ \E b \in Balances \ {balance} : balance' = b
    /\ UNCHANGED <<settings, made, service, task, leaves, nft, unproven, mint, faults>>

\* A statement or call fails, and throws.
InitializeFails(t) ==
    /\ Fault
    /\ task[t].at \notin {"idle", "checkTree", "checkCollection"}
    /\ Throw(t, service)
    /\ UNCHANGED <<settings, made, balance, leaves, nft, unproven, mint>>

\* Not to know whether an account exists passes for its absence.
CheckFails(t) ==
    /\ Fault
    /\ \/ At(t, "checkTree") /\ Go(t, "fundTree")
       \/ At(t, "checkCollection") /\ Go(t, "fundCollection")
    /\ UNCHANGED <<settings, made, service, balance, leaves, nft, unproven, mint>>

\* A transaction lands, and nobody hears of it.
CreateUnheard(t) ==
    /\ Fault
    /\ \/ At(t, "createTree") /\ NewTree
       \/ At(t, "createCollection") /\ NewCollection
    /\ Throw(t, service)
    /\ UNCHANGED <<settings, balance, leaves, nft, unproven, mint>>

\* ... and is sent again by executeWithRetry, or given up.
MintUnheard(r) ==
    /\ Fault
    /\ MintAt(r, "send")
    /\ Lands(r)
    /\ UNCHANGED <<nft, unproven, mint>>
    /\ OnlyMint

MintFails(r) ==
    /\ Fault
    /\ mint[r].at \in {"build", "send", "derive", "record"}
    /\ MintGo(r, "done")
    /\ UNCHANGED <<leaves, nft, unproven>>
    /\ OnlyMint

\* What is in the pages goes on.
Crash ==
    /\ Fault
    /\ service' = [tree |-> NoAddress, collection |-> NoAddress,
                   initialized |-> FALSE, promise |-> "none"]
    /\ task' = [t \in Tasks |-> [at |-> "idle", row |-> NoAddress]]
    /\ mint' = [r \in Requests |->
                  IF mint[r].at \in ServerSteps \union {"send"}
                  THEN [mint[r] EXCEPT !.at = "done"] ELSE mint[r]]
    /\ UNCHANGED <<settings, made, balance, leaves, nft, unproven>>

Next ==
    \/ \E t \in Tasks : \/ Initialize(t) \/ Initializing(t)
                        \/ InitializeFails(t) \/ CheckFails(t)
                        \/ CreateUnheard(t)
    \/ \E r \in Requests : \/ Minting(r)
                           \/ MintUnheard(r) \/ MintFails(r)
    \/ Fund
    \/ Crash

Spec == Init /\ [][Next]_vars

\* The timer comes back every minute, and a step that has been awaited ends.
FairSpec ==
    /\ Spec
    /\ WF_vars(Initialize(Timer))
    /\ \A t \in Tasks : WF_vars(Initializing(t))

-----------------------------------------------------------------------------

TypeOK ==
    /\ settings \in Addresses
    /\ made \in Addresses
    /\ service \in [tree : Nat, collection : Nat, initialized : BOOLEAN,
                    promise : {"none", "pending", "settled"}]
    /\ task \in [Tasks -> [at : InitSteps, row : Nat]]
    /\ balance \in Balances
    /\ leaves \subseteq Leaf /\ IsFiniteSet(leaves)
    /\ nft \in [Invoices -> [tree : Nat, leaf : Nat] \union {NoNft}]
    /\ unproven \subseteq Invoices
    /\ mint \in [Requests -> Mint]
    /\ faults \in 0 .. MaxFaults

\* Whoever calls initialize(), and however often, a second tree or collection
\* is created only where a call failed or the process stopped: each costs the
\* server SOL, and what was minted before is in the old one.
CreatedOnce ==
    \A kind \in {"tree", "collection"} :
      made[kind] - FirstMade <= faults

\* A process that has initialized will be followed by one that goes on with
\* the same tree and collection (the rows of system_settings).
RestartFindsThem ==
    service.initialized =>
      /\ settings.tree = service.tree
      /\ settings.collection = service.collection
      /\ Exists("tree", settings.tree)
      /\ Exists("collection", settings.collection)

\* Whatever is minted, sent again or lost in between, and whatever fails: the
\* NFT recorded for an invoice is one that was minted for that invoice, unless
\* some confirmation of it came with a signature or without logs that did not
\* show its mint, or the server has made a second tree.
RecordedIsItsOwn ==
    made.tree <= FirstMade =>
      \A i \in Invoices \ unproven :
        nft[i] # NoNft =>
          [tree |-> nft[i].tree, leaf |-> nft[i].leaf, invoice |-> i] \in leaves

\* The self-healing monitor: once the wallet stays funded, the service gets a
\* tree and a collection, and keeps them.
SelfHeals ==
    <>[](balance = ForCollection) => <>[](Ready /\ HasCollection)

-----------------------------------------------------------------------------
(* The inductive invariant behind them.                                     *)

Busy(t) == ~At(t, "idle")

Kept(kind) == Exists(kind, settings[kind])
BeforeTree == {"checkTree", "fundTree", "createTree", "persistTree"}
BeforeCollection == {"checkCollection", "fundCollection", "createCollection",
                     "upsertCollection"}
AfterTree == {"readCollection", "updateCollection"} \union BeforeCollection

OneAtATime ==
    /\ \A t \in Tasks :
         Busy(t) => service.promise = "pending" /\ ~service.initialized
    /\ \A t, u \in Tasks : Busy(t) /\ Busy(u) => t = u

RowIsCurrent ==
    \A t \in Tasks :
      /\ task[t].at \in BeforeTree => task[t].row = settings.tree
      /\ task[t].at \in BeforeCollection => task[t].row = settings.collection

\* What was created is kept, about to be, or has its fault.
AccountedFor(kind, step) ==
    /\ made[kind] - Foreign \in 0 .. faults + 1
    /\ \/ made[kind] - Foreign <= faults
       \/ Kept(kind)
       \/ \E t \in Tasks : At(t, step)

Accounted ==
    /\ AccountedFor("tree", "persistTree")
    /\ AccountedFor("collection", "upsertCollection")
    /\ \A t \in Tasks :
         /\ task[t].at \in {"fundTree", "createTree"} =>
              made.tree - Foreign <= faults
         /\ task[t].at \in {"fundCollection", "createCollection"} =>
              made.collection - Foreign <= faults

InPlace ==
    /\ service.tree = NoAddress \/ Exists("tree", service.tree)
    /\ \A t \in Tasks :
         /\ task[t].at \in AfterTree =>
              Kept("tree") /\ settings.tree = service.tree
         /\ At(t, "persistTree") => Exists("tree", service.tree)
         /\ At(t, "upsertCollection") =>
              Exists("collection", service.collection)
         /\ At(t, "updateCollection") =>
              Kept("collection") /\ settings.collection = service.collection

MintedForIt ==
    \A r \in Requests :
      /\ mint[r].at \in ServerSteps \union {"send"} => Ready
      /\ MintAt(r, "sign") => ~mint[r].server
      /\ mint[r].at \notin {"idle", "build", "done"} =>
           Exists("tree", mint[r].tree)
      /\ (/\ made.tree <= FirstMade
          /\ mint[r].invoice \notin unproven
          /\ mint[r].at \in {"ask", "readLeaf", "derive", "record"}) =>
           [tree |-> mint[r].tree, leaf |-> mint[r].leaf,
            invoice |-> mint[r].invoice] \in leaves

LeavesAreInTrees == \A l \in leaves : Exists("tree", l.tree)

NftInv ==
    /\ TypeOK
    /\ OneAtATime /\ RowIsCurrent /\ Accounted /\ InPlace
    /\ LeavesAreInTrees /\ MintedForIt
    /\ CreatedOnce /\ RestartFindsThem /\ RecordedIsItsOwn
=============================================================================
