----------------------------- MODULE Settlement -----------------------------
(***************************************************************************)
(* The settlement script settle-chiado.ts: it takes the remaining bonds    *)
(* out of every deployed TraceThenSlash contract and keeps the record of   *)
(* the recoveries in a file.  The script may be interrupted anywhere and   *)
(* is run again until the file is complete; a transaction sent by an       *)
(* interrupted run may be mined while a later run reads the chain.         *)
(*                                                                         *)
(* A contract is what module TraceThenSlash makes of it: the owner's call  *)
(* of withdrawRemainingBonds succeeds once, after its last release window, *)
(* and reverts afterwards.  The transactions of one account are mined in   *)
(* the order of their nonces; reorganisations are not modelled.            *)
(***************************************************************************)
EXTENDS Naturals, Sequences

CONSTANTS
  N,              \* number of contracts, visited as 1 .. N
  MaxKills,       \* bound: interruptions, receipts that never come included
  MaxTornWrites   \* bound: interruptions in the middle of writing the file

ASSUME SettlementConstants ==
  /\ N \in Nat \ {0}
  /\ MaxKills \in Nat
  /\ MaxTornWrites \in Nat

Contracts == 1 .. N

NoRecords == [c \in Contracts |-> 0]

VARIABLES
  over,         \* contracts whose last release window has ended
  txs,          \* the owner's withdrawals, in the order of their nonces
  file,         \* state of the file, and the records of a whole one
  pc,           \* where the script is; "off": not running
  records,      \* the transaction recorded for each contract; 0: none
  cursor,       \* the contract that is looked at
  overAtStart,  \* those of them whose window latestBlock has passed
  sawRetired,   \* what committeeRetired said
  pending,      \* the contracts to withdraw from
  sent,         \* the transaction whose receipt is awaited
  kills, tornWrites   \* counted against the bounds

chain   == <<over, txs>>
memory  == <<records, cursor, overAtStart, sawRetired, pending, sent>>
counted == <<kills, tornWrites>>

vars == <<chain, file, pc, memory, counted>>

Steps == {"off", "committeeRetired", "totalBond", "withdraw", "receipt",
          "persist", "write", "persistAll", "writeAll"}

-----------------------------------------------------------------------------
(* The chain.                                                              *)

Retired(c) == \E i \in DOMAIN txs : txs[i].to = c /\ txs[i].status = "success"

\* The transaction in the contract's RemainingBondsWithdrawn event.
Withdrawal(c) == CHOOSE i \in DOMAIN txs : txs[i].to = c /\ txs[i].status = "success"

-----------------------------------------------------------------------------
(* Faulty variants of the definitions below, for mutation tests.           *)

PastTheEnd == cursor > N

\* receipt.status is not looked at.
AnyReceipt(tx) == txs[tx].status # "pending"

\* A retired contract without a record is skipped.
NotAudited(c) == records

-----------------------------------------------------------------------------
Init ==
  /\ over = {}
  /\ txs = << >>
  /\ file = [state |-> "absent", records |-> NoRecords]
  /\ pc = "off"
  /\ records = NoRecords
  /\ cursor = 1
  /\ overAtStart = {}
  /\ sawRetired = FALSE
  /\ pending = << >>
  /\ sent = 0
  /\ kills = 0
  /\ tornWrites = 0

EndWindow ==
  \E c \in Contracts \ over :
    /\ over' = over \union {c}
    /\ UNCHANGED <<txs, file, pc, memory, counted>>

\* The next transaction of the account is mined.  The contract reverts it
\* when its committee is retired or its window open.
Mine ==
  \E i \in DOMAIN txs :
    /\ txs[i].status = "pending"
    /\ \A j \in 1 .. i - 1 : txs[j].status # "pending"
    /\ txs' = [txs EXCEPT ![i].status =
                 IF txs[i].to \in over /\ ~Retired(txs[i].to) THEN "success" ELSE "reverted"]
    /\ UNCHANGED <<over, file, pc, memory, counted>>

-----------------------------------------------------------------------------
(* The script: it starts, and looks at one contract after the other.       *)

\* The process ends; what it knew is gone.
Exit ==
  /\ pc' = "off"
  /\ records' = NoRecords
  /\ cursor' = 1
  /\ overAtStart' = {}
  /\ sawRetired' = FALSE
  /\ pending' = << >>
  /\ sent' = 0

\* The file must parse if it is there: any other error than ENOENT is thrown.
Run ==
  /\ pc = "off"
  /\ file.state # "torn"
  /\ records' = file.records
  /\ overAtStart' = over
  /\ pc' = "committeeRetired"
  /\ UNCHANGED <<chain, file, cursor, sawRetired, pending, sent, counted>>

ReadCommitteeRetired ==
  /\ pc = "committeeRetired"
  /\ sawRetired' = Retired(cursor)
  /\ pc' = "totalBond"
  /\ UNCHANGED <<chain, file, records, cursor, overAtStart, pending, sent, counted>>

\* recordFromChain, unless a record is there.
Audited(c) == [records EXCEPT ![c] = IF @ # 0 THEN @ ELSE Withdrawal(c)]

LastContract == cursor = N

NextContract ==
  IF LastContract
  THEN pc' = "persist" /\ UNCHANGED cursor
  ELSE pc' = "committeeRetired" /\ cursor' = cursor + 1

AuditRetired ==
  /\ pc = "totalBond"
  /\ sawRetired
  /\ records' = Audited(cursor)
  /\ NextContract
  /\ UNCHANGED <<chain, file, overAtStart, sawRetired, pending, sent, counted>>

FoundPending ==
  /\ pc = "totalBond"
  /\ ~sawRetired
  /\ ~Retired(cursor)
  /\ cursor \in overAtStart
  /\ pending' = Append(pending, cursor)
  /\ NextContract
  /\ UNCHANGED <<chain, file, records, overAtStart, sawRetired, sent, counted>>

\* The bond is not the preserved one, because a withdrawal was mined between
\* the two reads; or its release window is still open.
ScanThrows ==
  /\ pc = "totalBond"
  /\ ~sawRetired
  /\ Retired(cursor) \/ cursor \notin overAtStart
  /\ Exit
  /\ UNCHANGED <<chain, file, counted>>

-----------------------------------------------------------------------------
(* persist() empties the file before it writes it.                         *)

Truncate ==
  /\ \/ pc = "persist" /\ pc' = "write"
     \/ pc = "persistAll" /\ pc' = "writeAll"
  /\ file' = [state |-> "torn", records |-> NoRecords]
  /\ UNCHANGED <<chain, memory, counted>>

Written == [state |-> "whole", records |-> records]

WriteRecords ==
  /\ pc = "write"
  /\ file' = Written
  /\ pc' = IF pending = << >> THEN "persistAll" ELSE "withdraw"
  /\ UNCHANGED <<chain, memory, counted>>

WriteAllRecords ==
  /\ pc = "writeAll"
  /\ file' = Written
  /\ Exit
  /\ UNCHANGED <<chain, counted>>

-----------------------------------------------------------------------------
(* One withdrawal after the other.                                         *)

\* The gas estimate may notice that the call would revert.
WithdrawRefused ==
  /\ pc = "withdraw"
  /\ Retired(Head(pending))
  /\ Exit
  /\ UNCHANGED <<chain, file, counted>>

Withdraw ==
  /\ pc = "withdraw"
  /\ txs' = Append(txs, [to |-> Head(pending), status |-> "pending"])
  /\ sent' = Len(txs) + 1
  /\ pc' = "receipt"
  /\ UNCHANGED <<over, file, records, cursor, overAtStart, sawRetired, pending, counted>>

Settled(tx) == txs[tx].status = "success"

RecordWithdrawal ==
  /\ pc = "receipt"
  /\ Settled(sent)
  /\ records' = [records EXCEPT ![Head(pending)] = sent]
  /\ pending' = Tail(pending)
  /\ pc' = "persist"
  /\ UNCHANGED <<chain, file, cursor, overAtStart, sawRetired, sent, counted>>

WithdrawalReverted ==
  /\ pc = "receipt"
  /\ txs[sent].status = "reverted"
  /\ Exit
  /\ UNCHANGED <<chain, file, counted>>

-----------------------------------------------------------------------------
\* The process is killed, or gives up waiting for a receipt.
Kill ==
  /\ pc # "off"
  /\ kills < MaxKills
  /\ kills' = kills + 1
  /\ pc \in {"write", "writeAll"} => tornWrites < MaxTornWrites
  /\ tornWrites' = IF pc \in {"write", "writeAll"} THEN tornWrites + 1 ELSE tornWrites
  /\ Exit
  /\ UNCHANGED <<chain, file>>

Script ==
  \/ ReadCommitteeRetired \/ AuditRetired \/ FoundPending \/ ScanThrows
  \/ Truncate \/ WriteRecords \/ WriteAllRecords
  \/ WithdrawRefused \/ Withdraw \/ RecordWithdrawal \/ WithdrawalReverted

Next == EndWindow \/ Mine \/ Run \/ Script \/ Kill

\* Time passes, transactions are mined, a running script goes on, and its
\* operator runs it again.  Nothing forces a kill.
Fairness ==
  /\ WF_vars(EndWindow)
  /\ WF_vars(Mine)
  /\ WF_vars(Run)
  /\ WF_vars(Script)

Spec == Init /\ [][Next]_vars /\ Fairness

-----------------------------------------------------------------------------
(* Properties.                                                             *)

\* The types; a file that was not emptied for writing is whole.
TypeOK ==
  /\ over \subseteq Contracts
  /\ txs \in Seq([to : Contracts, status : {"pending", "success", "reverted"}])
  /\ file \in [state : {"absent", "torn", "whole"}, records : [Contracts -> 0 .. Len(txs)]]
  /\ pc \in Steps
  /\ records \in [Contracts -> 0 .. Len(txs)]
  /\ cursor \in Contracts
  /\ overAtStart \subseteq over
  /\ sawRetired \in BOOLEAN
  /\ pending \in Seq(Contracts)
  /\ sent \in 0 .. Len(txs)
  /\ kills \in 0 .. MaxKills
  /\ tornWrites \in 0 .. MaxTornWrites
  /\ file.state = "torn" => pc \in {"write", "writeAll"} \/ tornWrites > 0

\* Whatever was interrupted or sent twice, the transaction recorded for a
\* contract is the one that took its bonds, never one that reverted.  And the
\* last check of the script, that every contract has a record, cannot fail: a
\* run that gets as far as the last write has a record of each, the found ones,
\* the audited ones and its own together.
RecordedByWithdrawal ==
  \A c \in Contracts :
    /\ \A tx \in {records[c], file.records[c]} \ {0} :
         txs[tx] = [to |-> c, status |-> "success"]
    /\ pc \in {"persistAll", "writeAll"} => records[c] # 0

\* A recovery is not hidden by an interruption: after a contract has paid,
\* the file comes to hold its record.
RecoveryShows == \A c \in Contracts : Retired(c) ~> file.records[c] # 0

\* In the end every contract's bonds are recovered and recorded, and the
\* file is complete again and again if the script is run again.
Recovered == []<>(\A c \in Contracts : file.records[c] # 0)

-----------------------------------------------------------------------------
(* Why RecordedByWithdrawal holds: the parts of an inductive invariant.    *)

\* A contract pays once.
OneWithdrawal ==
  \A i, j \in DOMAIN txs :
    txs[i].status = "success" /\ txs[j].status = "success" /\ txs[i].to = txs[j].to => i = j

\* What was read of the contract that is looked at stays true.
RetiredAsSeen == pc = "totalBond" /\ sawRetired => Retired(cursor)

\* A receipt is awaited for a withdrawal from the first pending contract.
AwaitedReceipt ==
  /\ pc \in {"withdraw", "receipt"} => pending # << >>
  /\ pc = "receipt" => sent # 0 /\ txs[sent].to = Head(pending)

IsPending(c) == \E i \in DOMAIN pending : pending[i] = c

\* Each contract that was looked at has a record or is still pending, and
\* none is pending when the whole result is written.
LookedAt ==
  IF pc \in {"off", "committeeRetired", "totalBond"} THEN 1 .. cursor - 1 ELSE Contracts

NoneSkipped ==
  /\ pc = "off" => cursor = 1
  /\ \A c \in LookedAt : records[c] # 0 \/ IsPending(c)
  /\ pc \in {"persistAll", "writeAll"} => pending = << >>

\* The script in memory is never behind its file: rewriting loses no record.
MemoryHasFile ==
  pc # "off" => \A c \in Contracts : file.records[c] # 0 => records[c] = file.records[c]

SettlementInv ==
  /\ TypeOK
  /\ RecordedByWithdrawal
  /\ OneWithdrawal
  /\ RetiredAsSeen
  /\ AwaitedReceipt
  /\ NoneSkipped
  /\ MemoryHasFile
=============================================================================
