---------------------------- MODULE ChainService ----------------------------
(***************************************************************************)
(* The background service of one coin (server/chain.cpp).  Every pass of   *)
(* the event loop calls ServiceEventState, which advances one of four      *)
(* scans: download, validation, wallet, peers.  A scan is a pair of flags  *)
(* of iface->flags: _SYNC (was started since the last request) and _SCAN   *)
(* (is running).  Commands of the user and messages of peers request scans *)
(* between the passes.                                                     *)
(*                                                                         *)
(* The chain is its height here.  Times are compared with a minute ago and *)
(* with each other only: which way a comparison goes is a parameter.       *)
(***************************************************************************)
EXTENDS Integers, FiniteSets

CONSTANTS
    MaxHeight,      \* bound: heights of the chain and of the claims of peers
    ValidateSpan,   \* blocks per pass of ServiceValidateEvent (64)
    WalletSpan,     \* blocks per pass of ServiceWalletEvent (2048)
    Unreadable      \* heights where GetBlockByHeight finds no block

Heights == 0 .. MaxHeight

\* The genesis block is readable, and no pass meets unreadable blocks only.
ASSUME ServiceAssumption ==
    /\ MaxHeight \in Nat \ {0} /\ ValidateSpan \in Nat /\ WalletSpan \in Nat
    /\ Unreadable \subseteq 1 .. MaxHeight
    /\ \A n \in {ValidateSpan, WalletSpan} : \A h \in Heights : (h + 1) .. (h + n - 1) \notin SUBSET Unreadable

VARIABLES
    flags,              \* iface->flags
    nBestHeight,
    blockscan_max,      \* the greatest height a peer has claimed
    net_invalid,        \* net_valid < net_invalid
    nodes,              \* there are peers (vNodes)
    nValidateHeight, nScanHeight,
    toValidate,         \* heights that a request wants validated and no pass has visited
    toScan              \* the same for the wallet scan

chain == <<nBestHeight, blockscan_max, net_invalid, nodes>>
validation == <<nValidateHeight, toValidate>>
wallet == <<nScanHeight, toScan>>
vars == <<flags, chain, validation, wallet>>

Scans == {"DL_SCAN", "VALIDATE_SCAN", "WALLET_SCAN", "PEER_SCAN"}
Syncs == {"DL_SYNC", "VALIDATE_SYNC", "WALLET_SYNC", "PEER_SYNC"}

TypeOK ==
    /\ flags \subseteq Scans \cup Syncs
    /\ nBestHeight \in Heights /\ blockscan_max \in 0 .. MaxHeight + 1
    /\ net_invalid \in BOOLEAN /\ nodes \in BOOLEAN
    /\ nValidateHeight \in Heights /\ nScanHeight \in Heights
    /\ toValidate \subseteq Heights /\ toScan \subseteq Heights

Least(a, b) == IF a <= b THEN a ELSE b
Greatest(a, b) == IF a >= b THEN a ELSE b

(***************************************************************************)
(* Peers and blocks.                                                       *)
(***************************************************************************)
\* The claim of a peer, or the height above a truncated chain.
InitServiceBlockEvent(h) ==
    IF h < blockscan_max THEN UNCHANGED <<flags, blockscan_max, net_invalid>>
    ELSE /\ blockscan_max' = h /\ net_invalid' = FALSE
         /\ flags' = IF "DL_SCAN" \in flags THEN flags ELSE flags \ {"DL_SYNC"}

\* Called when the best height is h.
ServiceBlockEventUpdate(h) ==
    /\ net_invalid' = (net_invalid /\ blockscan_max = h)
    /\ blockscan_max' = Greatest(blockscan_max, h)

PeerConnects ==
    /\ ~nodes /\ nodes' = TRUE
    /\ UNCHANGED <<flags, nBestHeight, blockscan_max, net_invalid, validation, wallet>>

PeersGone ==
    /\ nodes /\ nodes' = FALSE
    /\ UNCHANGED <<flags, nBestHeight, blockscan_max, net_invalid, validation, wallet>>

\* The version message of a peer claims height h.
PeerVersion(h) ==
    /\ nodes /\ InitServiceBlockEvent(h)
    /\ UNCHANGED <<nBestHeight, nodes, validation, wallet>>

\* A block is accepted and the best height becomes h: one more, the same when the block is
\* beside the best chain, or any other when the chain moves to the branch of the block,
\* which is heavier and may be shorter.  Its orphans extend the best chain by more, without
\* another update.  A request about a height that is left has nothing to do there.
ProcessBlock(h, more) ==
    /\ h + more <= MaxHeight /\ (h = 0 => nBestHeight = 0)
    /\ ServiceBlockEventUpdate(h)
    /\ nBestHeight' = h + more
    /\ toValidate' = toValidate \cap (0 .. h) /\ toScan' = toScan \cap (0 .. h)
    /\ UNCHANGED <<flags, nodes, nValidateHeight, nScanHeight>>

\* AcceptBlock refuses a block.
ProcessBlock_Invalid ==
    /\ ~net_invalid /\ net_invalid' = TRUE
    /\ UNCHANGED <<flags, nBestHeight, blockscan_max, nodes, validation, wallet>>

\* A request about blocks that are no longer there has nothing left to do.
core_Truncate(h) ==
    /\ h <= nBestHeight /\ nBestHeight' = h
    /\ InitServiceBlockEvent(h + 1)
    /\ toValidate' = toValidate \cap (0 .. h) /\ toScan' = toScan \cap (0 .. h)
    /\ UNCHANGED <<nodes, nValidateHeight, nScanHeight>>

(***************************************************************************)
(* Commands.                                                               *)
(***************************************************************************)
\* block.verify: ResetServiceValidateEvent, then InitServiceValidateEvent, which returns
\* at once when there is only the genesis block.  It replaces the request before it.
rpc_block_verify(nDepth) ==
    LET nHeight == Greatest(1, nBestHeight - nDepth) IN
    /\ flags' = IF "VALIDATE_SYNC" \in flags THEN flags \ {"VALIDATE_SCAN", "VALIDATE_SYNC"} ELSE flags
    /\ nValidateHeight' = IF nBestHeight = 0 THEN 0 ELSE nHeight
    /\ toValidate' = nHeight .. nBestHeight
    /\ UNCHANGED <<chain, wallet>>

\* InitServiceWalletEvent from the genesis block, after a key was imported.  It returns at
\* once when the last scan ended at the best height.  The flag it tests is VALIDATE_SYNC.
ScanForWalletTransactions ==
    /\ IF nBestHeight = nScanHeight THEN UNCHANGED <<flags, nScanHeight>>
       ELSE /\ flags' = IF "VALIDATE_SYNC" \in flags THEN flags \ {"WALLET_SYNC"} ELSE flags
            /\ nScanHeight' = 0
    /\ toScan' = 0 .. nBestHeight
    /\ UNCHANGED <<chain, validation>>

(***************************************************************************)
(* One pass of each scan: what it changes, and whether it keeps running.   *)
(***************************************************************************)
\* The flags after a pass of the scan x.
After(x, running) == IF running THEN flags ELSE flags \ {x}

\* The heights a pass from h visits, and the last of them with a block (h if none).
Window(h, span) == h .. Least(nBestHeight, h + span - 1)
LastRead(h, span) ==
    LET read == Window(h, span) \ Unreadable
    IN  IF read = {} THEN h ELSE CHOOSE k \in read : \A j \in read : j <= k

\* waits: a minute has not passed, or the peer whose turn it is cannot be asked.
ServiceBlockEvent(waits) ==
    /\ IF ~nodes \/ blockscan_max = 0
       THEN UNCHANGED <<flags, net_invalid, blockscan_max>>
       ELSE IF nBestHeight >= blockscan_max
       THEN ServiceBlockEventUpdate(nBestHeight) /\ flags' = After("DL_SCAN", FALSE)
       ELSE flags' = After("DL_SCAN", waits \/ ~net_invalid) /\ UNCHANGED <<net_invalid, blockscan_max>>
    /\ UNCHANGED <<nBestHeight, nodes, validation, wallet>>

\* Mutant: the scan is done one block before the best height.
ServiceValidateEvent_StopsEarly ==
    LET last == LastRead(nValidateHeight, ValidateSpan) IN
    /\ nValidateHeight' = last
    /\ toValidate' = toValidate \ Window(nValidateHeight, ValidateSpan)
    /\ flags' = After("VALIDATE_SCAN", last + 1 < nBestHeight)
    /\ UNCHANGED <<chain, wallet>>

\* The next pass starts with the last block of this one.
ServiceValidateEvent ==
    LET last == LastRead(nValidateHeight, ValidateSpan) IN
    /\ nValidateHeight' = last
    /\ toValidate' = toValidate \ Window(nValidateHeight, ValidateSpan)
    /\ flags' = After("VALIDATE_SCAN", last < nBestHeight)
    /\ UNCHANGED <<chain, wallet>>

\* Mutant: the height of the next block is kept.
ServiceWalletEvent_KeepsNext ==
    LET nHeight == Greatest(nScanHeight, Least(nBestHeight + 1, nScanHeight + WalletSpan)) IN
    /\ nScanHeight' = nHeight
    /\ toScan' = toScan \ Window(nScanHeight, WalletSpan)
    /\ flags' = After("WALLET_SCAN", nHeight < nBestHeight)
    /\ UNCHANGED <<chain, validation>>

\* nHeight, which decides, is one above the last visited height.
ServiceWalletEvent ==
    LET nHeight == Greatest(nScanHeight, Least(nBestHeight + 1, nScanHeight + WalletSpan)) IN
    /\ nScanHeight' = LastRead(nScanHeight, WalletSpan)
    /\ toScan' = toScan \ Window(nScanHeight, WalletSpan)
    /\ flags' = After("WALLET_SCAN", nHeight < nBestHeight)
    /\ UNCHANGED <<chain, validation>>

\* ready: a peer can be asked for addresses, or the first one is past its version message.
ServicePeerEvent(ready) ==
    /\ flags' = After("PEER_SCAN", ~nodes \/ ~ready)
    /\ UNCHANGED <<chain, validation, wallet>>

\* Mutant: a scan that was started is not marked as such.
Start_NoSync(sync, scan) ==
    /\ flags' = flags \cup {scan}
    /\ UNCHANGED <<chain, validation, wallet>>

Start(sync, scan) ==
    /\ flags' = flags \cup {sync, scan}
    /\ UNCHANGED <<chain, validation, wallet>>

\* The next scan that was not started since it was last requested.
StartNext ==
    IF "DL_SYNC" \notin flags THEN Start("DL_SYNC", "DL_SCAN")
    ELSE IF "VALIDATE_SYNC" \notin flags THEN Start("VALIDATE_SYNC", "VALIDATE_SCAN")
    ELSE IF "WALLET_SYNC" \notin flags THEN Start("WALLET_SYNC", "WALLET_SCAN")
    ELSE "PEER_SYNC" \notin flags /\ Start("PEER_SYNC", "PEER_SCAN")

\* Mutant: a request for a download is looked at before the running scans.
ServiceEventState_DownloadFirst(waits, ready) ==
    IF "DL_SYNC" \notin flags THEN Start("DL_SYNC", "DL_SCAN")
    ELSE IF "DL_SCAN" \in flags THEN ServiceBlockEvent(waits)
    ELSE IF "VALIDATE_SCAN" \in flags THEN ServiceValidateEvent
    ELSE IF "WALLET_SCAN" \in flags THEN ServiceWalletEvent
    ELSE IF "PEER_SCAN" \in flags THEN ServicePeerEvent(ready)
    ELSE StartNext

ServiceEventState(waits, ready) ==
    IF "DL_SCAN" \in flags THEN ServiceBlockEvent(waits)
    ELSE IF "VALIDATE_SCAN" \in flags THEN ServiceValidateEvent
    ELSE IF "WALLET_SCAN" \in flags THEN ServiceWalletEvent
    ELSE IF "PEER_SCAN" \in flags THEN ServicePeerEvent(ready)
    ELSE StartNext

(***************************************************************************)
(* The specification.                                                      *)
(***************************************************************************)
\* LoadBlockIndex has requested a validation and a wallet scan of the last blocks, from
\* height 1 at least.  nValidateHeight was not initialised before, so that any height
\* up to the requested one, or the best height, may result.
Init ==
    /\ flags = {} /\ nBestHeight \in Heights
    /\ blockscan_max = 0 /\ net_invalid = FALSE /\ nodes = FALSE
    /\ nValidateHeight \in IF nBestHeight = 0 THEN {0, 1} ELSE 1 .. nBestHeight
    /\ nScanHeight \in IF nBestHeight = 0 THEN {0} ELSE 1 .. nBestHeight
    /\ toValidate = {} /\ toScan = {}

Request ==
    \/ PeerConnects \/ PeersGone \/ ProcessBlock_Invalid \/ ScanForWalletTransactions
    \/ \E h \in Heights : PeerVersion(h) \/ core_Truncate(h)
    \/ \E nDepth \in 1 .. MaxHeight : rpc_block_verify(nDepth)
    \/ \E h \in Heights, more \in 0 .. 1 : ProcessBlock(h, more)

Pass == \E waits, ready \in BOOLEAN : ServiceEventState(waits, ready)

Next == Request \/ Pass

Spec == Init /\ [][Next]_vars

\* The loop of every coin calls event_cycle_chain in every cycle, minutes pass and the
\* peers finish the version exchange.
FairSpec == Spec /\ WF_vars(ServiceEventState(FALSE, TRUE))

(***************************************************************************)
(* Properties.                                                             *)
(***************************************************************************)
\* One scan runs at a time (ServiceEventState), whatever is requested while it runs.
OneScan == Cardinality(flags \cap Scans) <= 1

\* When the validation is over (started since the last request and not running), every
\* block that block.verify named has been visited by ServiceValidateEvent, although
\* passes end in the middle of the chain, meet heights without a block, and the chain
\* grows, shrinks or is asked for again in between.
Validated == "VALIDATE_SYNC" \in flags /\ "VALIDATE_SCAN" \notin flags => toValidate = {}

\* A node that has peers, the blocks they claim and a readable last block, and gets no
\* more requests, comes to rest with every scan of ServiceEventState done: none waits
\* for ever behind another.
ComesToRest ==
    /\ <>[][~Request]_vars
    /\ <>[](nodes /\ 0 < blockscan_max /\ blockscan_max <= nBestHeight /\ nBestHeight \notin Unreadable)
    => <>[](flags = Syncs)

\* "rescan entire block-chain for unspent coins" (rpc_wallet_setkey): when the wallet scan
\* is over, ServiceWalletEvent has visited every block since the key was imported.
Rescanned == "WALLET_SYNC" \in flags /\ "WALLET_SCAN" \notin flags => toScan = {}
=============================================================================
