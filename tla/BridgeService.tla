---------------------------- MODULE BridgeService ----------------------------
(***************************************************************************)
(* The relay of src/bridge_service.py: it polls the chain for Deposit      *)
(* events of the bridge contract and pays each one out of its JSC wallet.  *)
(* Its only durable state is /data/last_block.txt.                         *)
(*                                                                         *)
(* One action per step between two calls that may fail or be cut by a      *)
(* crash: the read of the file, the read of the block number, the event    *)
(* query, each wallet transfer, the update of the pointer in memory, the   *)
(* truncation and the write of the file.                                   *)
(***************************************************************************)
EXTENDS Naturals

CONSTANTS
  DepositEvent, \* deposits users may make
  MaxBlock,     \* bound on the height of the chain
  MaxCrashes    \* bound on how often the service process is killed

ASSUME BoundsAssumption == MaxBlock \in Nat /\ MaxCrashes \in Nat

VARIABLES
  head,        \* web3.eth.block_number
  blockOf,     \* block of each Deposit event, 0 while the deposit is not made
  file,        \* content of /data/last_block.txt
  pc,          \* where the service is, "down" when it does not run
  last_block,  \* self.last_block
  current,     \* current_block of run(), to_block of process_deposits()
  todo,        \* events still to be processed in the for loop
  paid,        \* wallet transfers made for each deposit
  crashes,     \* how often the process was killed
  saved,       \* history: highest block handed to a save of the file
  tried,       \* history: deposits a transfer was requested for
  missed       \* history: deposits passed over without a request

chainVars   == <<head, blockOf>>
memory      == <<last_block, current, todo>>
historyVars == <<saved, tried, missed>>
vars == <<chainVars, file, pc, memory, paid, crashes, historyVars>>

\* The file does not exist, was truncated by open(..., 'w'), or holds a number.
NoFile    == [state |-> "absent", block |-> 0]
Empty     == [state |-> "empty", block |-> 0]
Number(b) == [state |-> "number", block |-> b]

Running == pc # "down"

\* Mutant of DepositsIn: the range starts one block too early.
DepositsIn_Overlap(from, to) ==
  {d \in DepositEvent : blockOf[d] > 0 /\ blockOf[d] + 1 \in from .. to + 1}

\* The deposits whose events a query of the blocks from..to returns.
DepositsIn(from, to) == {d \in DepositEvent : blockOf[d] \in from .. to}

TypeOK ==
  /\ head \in Nat
  /\ blockOf \in [DepositEvent -> Nat]
  /\ file \in [state : {"absent", "empty", "number"}, block : Nat]
  /\ pc \in {"down", "poll", "query", "transfer", "advance", "open", "write", "idle"}
  /\ last_block \in Nat
  /\ current \in Nat
  /\ todo \in SUBSET DepositEvent
  /\ paid \in [DepositEvent -> Nat]
  /\ crashes \in Nat
  /\ saved \in Nat
  /\ tried \in SUBSET DepositEvent
  /\ missed \in SUBSET DepositEvent

Init ==
  /\ head = 0
  /\ blockOf = [d \in DepositEvent |-> 0]
  /\ file = NoFile
  /\ pc = "down"
  /\ last_block = 0 /\ current = 0 /\ todo = {}
  /\ paid = [d \in DepositEvent |-> 0]
  /\ crashes = 0
  /\ saved = 0 /\ tried = {} /\ missed = {}

-----------------------------------------------------------------------------
(* The chain: a new block, with any of the deposits not made so far.       *)

MineBlock(S) ==
  /\ head < MaxBlock
  /\ S \subseteq {d \in DepositEvent : blockOf[d] = 0}
  /\ head' = head + 1
  /\ blockOf' = [d \in DepositEvent |-> IF d \in S THEN head + 1 ELSE blockOf[d]]
  /\ UNCHANGED <<file, pc, memory, paid, crashes, historyVars>>

Mine == \E S \in SUBSET DepositEvent : MineBlock(S)

-----------------------------------------------------------------------------
(* The service.                                                            *)

\* Mutant of StartFromFile: the last block of the file is processed again.
StartFromFile_Again ==
  /\ pc = "down"
  /\ file.state = "number" /\ file.block > 0
  /\ last_block' = file.block - 1
  /\ pc' = "poll"
  /\ UNCHANGED <<chainVars, file, current, todo, paid, crashes, historyVars>>

\* __init__ with a readable file.  An empty file makes int('') raise, which
\* only a FileNotFoundError handler surrounds: the service does not start.
StartFromFile ==
  /\ pc = "down"
  /\ file.state = "number"
  /\ last_block' = file.block
  /\ pc' = "poll"
  /\ UNCHANGED <<chainVars, file, current, todo, paid, crashes, historyVars>>

\* __init__ without a file: everything up to the newest block is passed over.
StartFromHead ==
  /\ pc = "down"
  /\ file = NoFile
  /\ last_block' = head
  /\ missed' = missed \cup (DepositsIn(1, head) \ tried)
  /\ pc' = "poll"
  /\ UNCHANGED <<chainVars, file, current, todo, paid, crashes, saved, tried>>

\* Mutant of Poll: waits for two new blocks.
Poll_OffByOne ==
  /\ pc = "poll"
  /\ current' = head
  /\ pc' = IF head > last_block + 1 THEN "query" ELSE "idle"
  /\ UNCHANGED <<chainVars, file, last_block, todo, paid, crashes, historyVars>>

\* The top of the loop.  A failed read of the block number sleeps and polls
\* again without a change of state.
Poll ==
  /\ pc = "poll"
  /\ current' = head
  /\ pc' = IF head > last_block THEN "query" ELSE "idle"
  /\ UNCHANGED <<chainVars, file, last_block, todo, paid, crashes, historyVars>>

QueryEvents ==
  /\ pc = "query"
  /\ todo' = DepositsIn(last_block + 1, current)
  /\ pc' = "transfer"
  /\ UNCHANGED <<chainVars, file, last_block, current, paid, crashes, historyVars>>

\* get_deposit_events raised: process_deposits logs the error and returns as
\* if the range had been processed.
QueryFails ==
  /\ pc = "query"
  /\ missed' = missed \cup (DepositsIn(last_block + 1, current) \ tried)
  /\ pc' = "advance"
  /\ UNCHANGED <<chainVars, file, memory, paid, crashes, saved, tried>>

\* One iteration of the for loop: events come in block order, within a block
\* in any.  The wallet makes the transfer or it does not; what the service
\* learns of it changes nothing, success and exception alike go on.
Transfer(d) ==
  /\ pc = "transfer"
  /\ d \in todo
  /\ \A e \in todo : blockOf[d] <= blockOf[e]
  /\ paid' \in {paid, [paid EXCEPT ![d] = @ + 1]}
  /\ todo' = todo \ {d}
  /\ tried' = tried \cup {d}
  /\ UNCHANGED <<chainVars, file, pc, last_block, current, crashes, saved, missed>>

TransfersDone ==
  /\ pc = "transfer"
  /\ todo = {}
  /\ pc' = "advance"
  /\ UNCHANGED <<chainVars, file, memory, paid, crashes, historyVars>>

\* Mutant of Advance: the block number is read again instead of kept.
Advance_ReadsHead ==
  /\ pc = "advance"
  /\ last_block' = head /\ current' = head
  /\ pc' = "open"
  /\ UNCHANGED <<chainVars, file, todo, paid, crashes, historyVars>>

\* self.last_block = current_block, in memory only.
Advance ==
  /\ pc = "advance"
  /\ last_block' = current
  /\ pc' = "open"
  /\ UNCHANGED <<chainVars, file, current, todo, paid, crashes, historyVars>>

\* open(..., 'w') truncates the file; the number is in it only once the
\* buffered write is flushed.
OpenFile ==
  /\ pc = "open"
  /\ file' = Empty
  /\ saved' = current
  /\ pc' = "write"
  /\ UNCHANGED <<chainVars, memory, paid, crashes, tried, missed>>

WriteFile ==
  /\ pc = "write"
  /\ file' = Number(current)
  /\ pc' = "idle"
  /\ UNCHANGED <<chainVars, memory, paid, crashes, historyVars>>

\* Mutant of SaveFails: the handler goes back to the block of the file.
SaveFails_RollsBack ==
  /\ pc \in {"open", "write"}
  /\ last_block' = file.block
  /\ pc' = "poll"
  /\ UNCHANGED <<chainVars, file, current, todo, paid, crashes, historyVars>>

\* The open or the write raised: the handler of run() sleeps and polls on,
\* the pointer in memory is ahead of the file.
SaveFails ==
  /\ pc \in {"open", "write"}
  /\ pc' = "poll"
  /\ UNCHANGED <<chainVars, file, memory, paid, crashes, historyVars>>

\* The paused check decides how long the loop sleeps, never what it does.
Wake ==
  /\ pc = "idle"
  /\ pc' = "poll"
  /\ UNCHANGED <<chainVars, file, memory, paid, crashes, historyVars>>

\* The process is killed and forgets everything but the file.
Crash ==
  /\ Running
  /\ crashes < MaxCrashes
  /\ crashes' = crashes + 1
  /\ pc' = "down"
  /\ last_block' = 0 /\ current' = 0 /\ todo' = {}
  /\ UNCHANGED <<chainVars, file, paid, historyVars>>

ServiceStep ==
  \/ StartFromFile
  \/ StartFromHead
  \/ Poll
  \/ QueryEvents
  \/ QueryFails
  \/ \E d \in DepositEvent : Transfer(d)
  \/ TransfersDone
  \/ Advance
  \/ OpenFile
  \/ WriteFile
  \/ SaveFails
  \/ Wake

Next == Mine \/ ServiceStep \/ Crash

Spec == Init /\ [][Next]_vars

\* The loop never ends and whoever operates the process starts it again.
FairSpec == Spec /\ WF_vars(ServiceStep)

-----------------------------------------------------------------------------
(* Properties.                                                             *)

\* A deposit is paid at most once per incarnation of the process: within one
\* run the block ranges handed to process_deposits never overlap.
PaidOncePerIncarnation == \A d \in DepositEvent : paid[d] <= 1 + crashes

\* What the loop has passed in memory was handed to the wallet or is accounted
\* for as missed by a failed query or by a start without a file: no deposit
\* falls between two consecutive ranges.
NoGapBetweenRanges ==
  Running => DepositsIn(1, last_block) \subseteq tried \cup missed

\* Once a save of the pointer has begun, no deposit it covers is paid again,
\* whatever crashes, restarts and failed saves follow.
SettledStaysSettled ==
  [][\A d \in DepositEvent : blockOf[d] \in 1 .. saved => paid'[d] = paid[d]]_vars

\* Every deposit is in the end handed to the wallet or passed over, unless the
\* service is killed while its file is empty, between truncating and writing it or
\* after a write that failed: then it cannot start again.
EveryDepositResolved ==
  \A d \in DepositEvent :
    blockOf[d] > 0 ~> (d \in tried \cup missed \/ (pc = "down" /\ file = Empty))

Feed == INSTANCE EventFeed WITH cursor <- saved
\* The service implements the abstract feed, its cursor being the highest block
\* handed to a save of the file.
ImplementsFeed == Feed!Spec
=============================================================================
