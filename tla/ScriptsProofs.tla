---------------------------- MODULE ScriptsProofs ----------------------------
(***************************************************************************)
(* Proofs about the deployment scripts and the small contracts: the        *)
(* settlement script (module Settlement), the keyper slasher with its      *)
(* scripts and offline verifier (SlashingRecord), and the toy contract     *)
(* with the world it is certified by (NamedAcquirerToy) and the delivery   *)
(* extension of that world (ProcessDelivery).  The three share nothing but *)
(* the facts on sums of AmountsProofs.                                     *)
(*                                                                         *)
(* Settlement: the script records for each contract the one transaction    *)
(* that took its bonds, its last check cannot fail, and rewriting the file *)
(* loses no record.  SettlementInv ties the script's memory to the chain:  *)
(* the transaction it waits for is the first pending contract's (without   *)
(* which a receipt could be recorded for another contract), and each       *)
(* contract that was looked at is recorded or pending.                     *)
(*                                                                         *)
(* Slasher: penalties are paid once, and an accepted record is true.  The  *)
(* invariant RecordInv places every reading of the certificate and every   *)
(* slashing a script saw in the contract's log; that the readings name the *)
(* first slashing then follows from what the certificate tells apart.      *)
(*                                                                         *)
(* Toy: the contract implements the certified world, a withdrawal counting *)
(* when its transfer returns; the world keeps the gates of the script; and *)
(* so does the extension with finality and delivery, in which the last     *)
(* share counts when it is delivered.                                      *)
(***************************************************************************)
EXTENDS Settlement, SlashingRecord, NamedAcquirerToy, AmountsProofs, SequenceTheorems

-----------------------------------------------------------------------------
(* The settlement script.                                                  *)

-----------------------------------------------------------------------------
(* The chain grows, and what it says stays true.                           *)

Txs == [to : Contracts, status : {"pending", "success", "reverted"}]

\* What the chain may do in a step: transactions are added, and those that
\* were mined stay what they are.
Grows ==
  /\ Len(txs) <= Len(txs')
  /\ \A i \in DOMAIN txs :
       /\ txs'[i].to = txs[i].to
       /\ txs[i].status # "pending" => txs'[i] = txs[i]

\* A withdrawal that was read of the chain is one.
LEMMA WithdrawalFacts ==
  ASSUME TypeOK, NEW c \in Contracts, Retired(c)
  PROVE  /\ Withdrawal(c) \in 1 .. Len(txs)
         /\ txs[Withdrawal(c)] = [to |-> c, status |-> "success"]
<1>1. txs \in Seq(Txs)
  BY DEF TypeOK, Txs
<1>2. PICK i \in DOMAIN txs : txs[i].to = c /\ txs[i].status = "success"
  BY DEF Retired
<1>3. /\ Withdrawal(c) \in DOMAIN txs
      /\ txs[Withdrawal(c)].to = c /\ txs[Withdrawal(c)].status = "success"
  BY <1>2 DEF Withdrawal
<1>4. txs[Withdrawal(c)] \in Txs
  BY <1>1, <1>3
<1>5. QED
  BY <1>1, <1>3, <1>4 DEF Txs

\* What was recorded of the chain stays true when the chain grows.
LEMMA RecordsStay ==
  ASSUME TypeOK, Grows, NEW c \in Contracts, NEW tx \in 0 .. Len(txs),
         tx # 0 => txs[tx] = [to |-> c, status |-> "success"]
  PROVE  /\ tx \in 0 .. Len(txs')
         /\ tx # 0 => txs'[tx] = [to |-> c, status |-> "success"]
<1>1. txs \in Seq(Txs)
  BY DEF TypeOK, Txs
<1>2. CASE tx = 0
  BY <1>1, <1>2 DEF Grows
<1>3. CASE tx # 0
  <2>1. tx \in DOMAIN txs /\ txs[tx].status = "success"
    BY <1>1, <1>3
  <2>2. txs'[tx] = txs[tx]
    BY <2>1 DEF Grows
  <2>3. QED
    BY <1>1, <1>3, <2>2 DEF Grows
<1>4. QED
  BY <1>2, <1>3

\* A contract that was retired stays so when the chain grows.
LEMMA RetiredStays ==
  ASSUME TypeOK, Grows, txs' \in Seq(Txs), NEW c \in Contracts, Retired(c)
  PROVE  Retired(c)'
<1>1. txs \in Seq(Txs)
  BY DEF TypeOK, Txs
<1>2. PICK i \in DOMAIN txs : txs[i].to = c /\ txs[i].status = "success"
  BY DEF Retired
<1>3. txs'[i] = txs[i]
  BY <1>2 DEF Grows
<1>4. i \in DOMAIN txs'
  BY <1>1, <1>2 DEF Grows
<1>5. QED
  BY <1>2, <1>3, <1>4 DEF Retired

-----------------------------------------------------------------------------
(* The steps.                                                              *)

\* No file, no transactions, no run.
LEMMA InitSettlement ==
  Init => SettlementInv
<1>. SUFFICES ASSUME Init PROVE SettlementInv
  OBVIOUS
<1>1. TypeOK
  <2>1. 1 \in Contracts /\ Len(txs) = 0
    BY SettlementConstants DEF Init, Contracts
  <2>2. NoRecords \in [Contracts -> 0 .. Len(txs)] /\ 0 \in 0 .. Len(txs)
    BY <2>1 DEF NoRecords
  <2>3. txs \in Seq(Txs) /\ pending \in Seq(Contracts)
    BY DEF Init
  <2>4. kills \in 0 .. MaxKills /\ tornWrites \in 0 .. MaxTornWrites
    BY SettlementConstants DEF Init
  <2>5. QED
    BY <2>1, <2>2, <2>3, <2>4 DEF Init, TypeOK, Txs, Steps
<1>2. RecordedByWithdrawal
  BY DEF Init, RecordedByWithdrawal, NoRecords
<1>3. NoneSkipped
  BY DEF Init, NoneSkipped, LookedAt
<1>4. QED
  BY <1>1, <1>2, <1>3 DEF Init, SettlementInv, OneWithdrawal, RetiredAsSeen,
     AwaitedReceipt, MemoryHasFile

\* A step of the chain alone.
LEMMA ChainGrowsInv ==
  ASSUME SettlementInv, Grows, txs' \in Seq(Txs), over \subseteq over', over' \subseteq Contracts,
         UNCHANGED <<file, pc, memory, counted>>,
         OneWithdrawal'
  PROVE  SettlementInv'
<1>. USE DEF memory, counted
<1>1. TypeOK /\ txs \in Seq(Txs)
  BY DEF SettlementInv, TypeOK, Txs
<1>2. Len(txs) \in Nat /\ Len(txs') \in Nat /\ Len(txs) <= Len(txs')
  BY <1>1 DEF Grows
<1>3. TypeOK'
  <2>1. 0 .. Len(txs) \subseteq 0 .. Len(txs')
    BY <1>2
  <2>2. file' \in [state : {"absent", "torn", "whole"}, records : [Contracts -> 0 .. Len(txs')]]
    BY <1>1, <2>1 DEF TypeOK
  <2>3. records' \in [Contracts -> 0 .. Len(txs')] /\ sent' \in 0 .. Len(txs')
    BY <1>1, <2>1 DEF TypeOK
  <2>4. QED
    BY <1>1, <2>2, <2>3 DEF TypeOK, Txs, Contracts
<1>4. RecordedByWithdrawal'
  <2>1. \A c \in Contracts : records[c] \in 0 .. Len(txs) /\ file.records[c] \in 0 .. Len(txs)
    BY <1>1 DEF TypeOK
  <2>2. ASSUME NEW c \in Contracts, NEW tx \in {records[c], file.records[c]}, tx # 0
        PROVE  txs'[tx] = [to |-> c, status |-> "success"]
    <3>1. tx \in 0 .. Len(txs)
      BY <2>1
    <3>2. txs[tx] = [to |-> c, status |-> "success"]
      BY <2>2 DEF SettlementInv, RecordedByWithdrawal
    <3>3. QED
      BY <1>1, <2>2, <3>1, <3>2, RecordsStay
  <2>3. QED
    BY <2>2 DEF RecordedByWithdrawal, SettlementInv, Contracts
<1>5. RetiredAsSeen'
  <2>1. cursor \in Contracts
    BY <1>1 DEF TypeOK
  <2>2. QED
    BY <1>1, <2>1, RetiredStays DEF SettlementInv, RetiredAsSeen, Retired
<1>6. AwaitedReceipt'
  <2>1. ASSUME pc = "receipt"
        PROVE  txs'[sent].to = Head(pending)
    <3>1. sent \in DOMAIN txs
      BY <1>1, <2>1 DEF SettlementInv, AwaitedReceipt, TypeOK
    <3>2. QED
      BY <2>1, <3>1 DEF SettlementInv, AwaitedReceipt, Grows
  <2>2. QED
    BY <2>1 DEF SettlementInv, AwaitedReceipt
<1>7. NoneSkipped' /\ MemoryHasFile'
  BY DEF SettlementInv, NoneSkipped, LookedAt, IsPending, MemoryHasFile, Contracts
<1>8. QED
  BY <1>3, <1>4, <1>5, <1>6, <1>7 DEF SettlementInv

\* A window that ends changes what can be withdrawn, and no record.
LEMMA EndWindowInv ==
  ASSUME SettlementInv, EndWindow
  PROVE  SettlementInv'
<1>1. txs' = txs /\ UNCHANGED <<file, pc, memory, counted>>
  BY DEF EndWindow
<1>2. Grows /\ txs' \in Seq(Txs) /\ over \subseteq over' /\ over' \subseteq Contracts
  BY DEF EndWindow, Grows, SettlementInv, TypeOK, Txs
<1>3. OneWithdrawal'
  BY <1>1 DEF SettlementInv, OneWithdrawal
<1>4. QED
  BY <1>1, <1>2, <1>3, ChainGrowsInv

\* A withdrawal is mined: it succeeds only if none did for its contract.
LEMMA MineInv ==
  ASSUME SettlementInv, Mine
  PROVE  SettlementInv'
<1>1. PICK i \in DOMAIN txs :
        /\ txs[i].status = "pending"
        /\ txs' = [txs EXCEPT ![i].status =
                     IF txs[i].to \in over /\ ~Retired(txs[i].to) THEN "success" ELSE "reverted"]
        /\ UNCHANGED <<over, file, pc, memory, counted>>
  BY DEF Mine
<1>2. txs \in Seq(Txs) /\ over \subseteq Contracts
  BY DEF SettlementInv, TypeOK, Txs
<1>3. \A j \in DOMAIN txs : txs[j] \in Txs
  BY <1>2
<1>4. DOMAIN txs' = DOMAIN txs /\ Len(txs') = Len(txs)
  BY <1>1, <1>2
<1>5. \A j \in DOMAIN txs : j # i => txs'[j] = txs[j]
  BY <1>1, <1>2
<1>6. /\ txs'[i].to = txs[i].to
      /\ txs'[i].status \in {"success", "reverted"}
      /\ txs'[i].status = "success" => ~Retired(txs[i].to)
      /\ txs'[i] \in Txs
  BY <1>1, <1>2, <1>3 DEF Txs
<1>7. txs' \in Seq(Txs)
  BY <1>1, <1>2, <1>6
<1>8. Grows
  BY <1>1, <1>2, <1>4, <1>5, <1>6 DEF Grows
<1>9. OneWithdrawal'
  <2>1. ASSUME NEW j \in DOMAIN txs, j # i, txs[j].status = "success", txs[j].to = txs[i].to
        PROVE  Retired(txs[i].to)
    BY <2>1 DEF Retired
  <2>2. ASSUME NEW j \in DOMAIN txs, NEW k \in DOMAIN txs,
               txs'[j].status = "success", txs'[k].status = "success", txs'[j].to = txs'[k].to
        PROVE  j = k
    <3>1. CASE j # i /\ k # i
      BY <1>5, <2>2, <3>1 DEF SettlementInv, OneWithdrawal
    <3>2. CASE j = i /\ k # i
      BY <1>5, <1>6, <2>1, <2>2, <3>2
    <3>3. CASE j # i /\ k = i
      BY <1>5, <1>6, <2>1, <2>2, <3>3
    <3>4. QED
      BY <3>1, <3>2, <3>3
  <2>3. QED
    BY <1>4, <2>2 DEF OneWithdrawal
<1>10. QED
  BY <1>1, <1>2, <1>7, <1>8, <1>9, ChainGrowsInv

\* The process ends, for whatever reason.
LEMMA ExitInv ==
  ASSUME SettlementInv, Exit, UNCHANGED chain,
         file' = file \/ file' = Written,
         kills' \in 0 .. MaxKills, tornWrites' \in 0 .. MaxTornWrites,
         file'.state = "torn" => tornWrites' > 0
  PROVE  SettlementInv'
<1>. USE DEF chain, Exit
<1>1. /\ file' \in [state : {"absent", "torn", "whole"}, records : [Contracts -> 0 .. Len(txs)]]
      /\ \A c \in Contracts : file'.records[c] \in {records[c], file.records[c]}
  BY DEF SettlementInv, TypeOK, Written
<1>2. TypeOK'
  <2>1. NoRecords \in [Contracts -> 0 .. Len(txs)] /\ 0 \in 0 .. Len(txs)
    BY DEF SettlementInv, TypeOK, NoRecords
  <2>2. 1 \in Contracts
    BY SettlementConstants DEF Contracts
  <2>3. << >> \in Seq(Contracts) /\ "off" \in Steps
    BY DEF Steps
  <2>4. UNCHANGED <<over, txs>> /\ txs \in Seq(Txs) /\ over \subseteq Contracts
    BY DEF SettlementInv, TypeOK, Txs
  <2>5. QED
    BY <1>1, <2>1, <2>2, <2>3, <2>4 DEF TypeOK, Txs
<1>3. RecordedByWithdrawal'
  BY <1>1 DEF SettlementInv, RecordedByWithdrawal, NoRecords
<1>4. OneWithdrawal'
  BY DEF SettlementInv, OneWithdrawal
<1>5. NoneSkipped'
  BY DEF NoneSkipped, LookedAt
<1>6. QED
  BY <1>2, <1>3, <1>4, <1>5 DEF SettlementInv, RetiredAsSeen, AwaitedReceipt, MemoryHasFile

\* A script that stops, or is killed, leaves chain and file as they are.
LEMMA StoppedInv ==
  ASSUME SettlementInv, ScanThrows \/ WithdrawRefused \/ WithdrawalReverted \/ Kill
  PROVE  SettlementInv'
<1>. USE DEF counted
<1>1. kills \in 0 .. MaxKills /\ tornWrites \in 0 .. MaxTornWrites /\ MaxKills \in Nat /\ MaxTornWrites \in Nat
  BY SettlementConstants DEF SettlementInv, TypeOK
<1>2. file.state = "torn" => pc \in {"write", "writeAll"} \/ tornWrites > 0
  BY DEF SettlementInv, TypeOK
<1>3. CASE ScanThrows \/ WithdrawRefused \/ WithdrawalReverted
  <2>1. Exit /\ UNCHANGED <<chain, file, counted>> /\ pc \notin {"write", "writeAll"}
    BY <1>3 DEF ScanThrows, WithdrawRefused, WithdrawalReverted
  <2>2. QED
    BY <1>1, <1>2, <2>1, ExitInv
<1>4. CASE Kill
  <2>1. /\ Exit /\ UNCHANGED <<chain, file>>
        /\ kills' = kills + 1 /\ kills < MaxKills
        /\ pc \in {"write", "writeAll"} => tornWrites < MaxTornWrites
        /\ tornWrites' = IF pc \in {"write", "writeAll"} THEN tornWrites + 1 ELSE tornWrites
    BY <1>4 DEF Kill
  <2>2. kills' \in 0 .. MaxKills /\ tornWrites' \in 0 .. MaxTornWrites
    BY <1>1, <2>1
  <2>3. file'.state = "torn" => tornWrites' > 0
    BY <1>1, <1>2, <2>1
  <2>4. QED
    BY <2>1, <2>2, <2>3, ExitInv
<1>5. QED
  BY <1>3, <1>4

\* A run starts with the records of the file in memory.
LEMMA RunInv ==
  ASSUME SettlementInv, Run
  PROVE  SettlementInv'
<1>. USE DEF Run, chain, counted
<1>1. TypeOK'
  BY DEF SettlementInv, TypeOK, Steps
<1>2. RecordedByWithdrawal'
  BY DEF SettlementInv, RecordedByWithdrawal
<1>3. OneWithdrawal' /\ MemoryHasFile'
  BY DEF SettlementInv, OneWithdrawal, MemoryHasFile
<1>4. NoneSkipped'
  BY DEF SettlementInv, NoneSkipped, LookedAt
<1>5. QED
  BY <1>1, <1>2, <1>3, <1>4 DEF SettlementInv, RetiredAsSeen, AwaitedReceipt

\* The first reading of a contract decides which branch comes next.
LEMMA ReadCommitteeRetiredInv ==
  ASSUME SettlementInv, ReadCommitteeRetired
  PROVE  SettlementInv'
<1>. USE DEF ReadCommitteeRetired, chain, counted
<1>1. TypeOK'
  BY DEF SettlementInv, TypeOK, Steps, Retired
<1>2. RecordedByWithdrawal' /\ OneWithdrawal' /\ MemoryHasFile'
  BY DEF SettlementInv, RecordedByWithdrawal, OneWithdrawal, MemoryHasFile
<1>3. RetiredAsSeen'
  BY DEF RetiredAsSeen, Retired
<1>4. NoneSkipped' /\ AwaitedReceipt'
  BY DEF SettlementInv, NoneSkipped, LookedAt, IsPending, AwaitedReceipt
<1>5. QED
  BY <1>1, <1>2, <1>3, <1>4 DEF SettlementInv

\* The scan goes on to the next contract, or ends with the last one; the one
\* that was looked at has a record now, or is pending.
LEMMA NextContractInv ==
  ASSUME SettlementInv, pc = "totalBond", NextContract,
         UNCHANGED <<chain, file, overAtStart, sawRetired, sent, counted>>,
         records' \in [Contracts -> 0 .. Len(txs)], pending' \in Seq(Contracts),
         \A c \in Contracts : records[c] # 0 => records'[c] = records[c],
         \A c \in Contracts : records'[c] # records[c] =>
           txs[records'[c]] = [to |-> c, status |-> "success"],
         \A c \in Contracts : IsPending(c) => IsPending(c)',
         records'[cursor] # 0 \/ \E i \in DOMAIN pending' : pending'[i] = cursor
  PROVE  SettlementInv'
<1>. USE DEF chain, counted
<1>1. N \in Nat \ {0} /\ cursor \in 1 .. N
  BY SettlementConstants DEF SettlementInv, TypeOK, Contracts
<1>2. /\ cursor' \in Contracts
      /\ pc' \in {"persist", "committeeRetired"}
      /\ pc' = "persist" => cursor = N
      /\ pc' = "committeeRetired" => cursor' = cursor + 1
  BY <1>1 DEF NextContract, LastContract, Contracts
<1>3. TypeOK'
  BY <1>2 DEF SettlementInv, TypeOK, Steps, Contracts
<1>4. RecordedByWithdrawal'
  BY <1>2 DEF SettlementInv, RecordedByWithdrawal, Contracts
<1>5. OneWithdrawal' /\ RetiredAsSeen' /\ AwaitedReceipt'
  BY <1>2 DEF SettlementInv, OneWithdrawal, RetiredAsSeen, AwaitedReceipt
<1>6. NoneSkipped'
  <2>1. \A c \in 1 .. cursor - 1 : c \in Contracts /\ (records[c] # 0 \/ IsPending(c))
    BY <1>1 DEF SettlementInv, NoneSkipped, LookedAt, Contracts
  <2>2. \A c \in 1 .. cursor : records'[c] # 0 \/ IsPending(c)'
    <3>1. TAKE c \in 1 .. cursor
    <3>2. CASE c = cursor
      BY <3>2 DEF IsPending
    <3>3. CASE c # cursor
      <4>1. c \in 1 .. cursor - 1
        BY <1>1, <3>3
      <4>2. QED
        BY <2>1, <4>1
    <3>4. QED
      BY <3>2, <3>3
  <2>3. LookedAt' = 1 .. cursor
    <3>1. CASE pc' = "persist"
      BY <1>2, <3>1 DEF LookedAt, Contracts
    <3>2. CASE pc' = "committeeRetired"
      <4>1. LookedAt' = 1 .. cursor' - 1 /\ cursor' = cursor + 1
        BY <1>2, <3>2 DEF LookedAt
      <4>2. cursor' - 1 = cursor
        BY <1>1, <4>1
      <4>3. QED
        BY <4>1, <4>2
    <3>3. QED
      BY <1>2, <3>1, <3>2
  <2>4. QED
    BY <1>2, <2>2, <2>3 DEF NoneSkipped
<1>7. MemoryHasFile'
  BY <1>2 DEF SettlementInv, MemoryHasFile, Contracts
<1>8. QED
  BY <1>3, <1>4, <1>5, <1>6, <1>7 DEF SettlementInv

\* A contract seen retired is recorded with the withdrawal found on the chain.
LEMMA AuditRetiredInv ==
  ASSUME SettlementInv, AuditRetired
  PROVE  SettlementInv'
<1>. USE DEF chain, counted
<1>1. /\ pc = "totalBond" /\ sawRetired /\ NextContract
      /\ records' = [records EXCEPT ![cursor] = IF @ # 0 THEN @ ELSE Withdrawal(cursor)]
      /\ UNCHANGED <<chain, file, overAtStart, sawRetired, pending, sent, counted>>
  BY DEF AuditRetired, Audited
<1>2. TypeOK /\ cursor \in Contracts /\ Retired(cursor)
  BY <1>1 DEF SettlementInv, TypeOK, RetiredAsSeen
<1>3. /\ Withdrawal(cursor) \in 1 .. Len(txs)
      /\ txs[Withdrawal(cursor)] = [to |-> cursor, status |-> "success"]
  BY <1>2, WithdrawalFacts
<1>4. records \in [Contracts -> 0 .. Len(txs)] /\ Len(txs) \in Nat /\ pending \in Seq(Contracts)
  BY <1>2 DEF TypeOK
<1>5. /\ records' \in [Contracts -> 0 .. Len(txs)]
      /\ records'[cursor] = IF records[cursor] # 0 THEN records[cursor] ELSE Withdrawal(cursor)
      /\ \A c \in Contracts : c # cursor => records'[c] = records[c]
  BY <1>1, <1>2, <1>3, <1>4
<1>6. /\ \A c \in Contracts : records[c] # 0 => records'[c] = records[c]
      /\ \A c \in Contracts : records'[c] # records[c] => txs[records'[c]] = [to |-> c, status |-> "success"]
      /\ records'[cursor] # 0
  BY <1>3, <1>5
<1>7. \A c \in Contracts : IsPending(c) => IsPending(c)'
  BY <1>1 DEF IsPending
<1>8. QED
  BY <1>1, <1>4, <1>5, <1>6, <1>7, NextContractInv

\* A contract that both readings found unretired waits for a withdrawal.
LEMMA FoundPendingInv ==
  ASSUME SettlementInv, FoundPending
  PROVE  SettlementInv'
<1>. USE DEF chain, counted
<1>1. /\ pc = "totalBond" /\ NextContract /\ pending' = Append(pending, cursor)
      /\ UNCHANGED <<chain, file, records, overAtStart, sawRetired, sent, counted>>
  BY DEF FoundPending
<1>2. cursor \in Contracts /\ pending \in Seq(Contracts) /\ records \in [Contracts -> 0 .. Len(txs)]
  BY DEF SettlementInv, TypeOK
<1>3. /\ pending' \in Seq(Contracts) /\ Len(pending') = Len(pending) + 1
      /\ \A i \in 1 .. Len(pending) : pending'[i] = pending[i]
      /\ pending'[Len(pending) + 1] = cursor
  BY <1>1, <1>2
<1>4. Len(pending) \in Nat /\ DOMAIN pending = 1 .. Len(pending) /\ DOMAIN pending' = 1 .. Len(pending) + 1
  BY <1>2, <1>3
<1>5. /\ \E i \in DOMAIN pending' : pending'[i] = cursor
      /\ \A c \in Contracts : IsPending(c) => IsPending(c)'
  BY <1>3, <1>4 DEF IsPending
<1>6. QED
  BY <1>1, <1>2, <1>3, <1>5, NextContractInv

\* Emptying the file before it is written.
LEMMA TruncateInv ==
  ASSUME SettlementInv, Truncate
  PROVE  SettlementInv'
<1>. USE DEF chain, memory, counted
<1>1. /\ \/ pc = "persist" /\ pc' = "write"
         \/ pc = "persistAll" /\ pc' = "writeAll"
      /\ file' = [state |-> "torn", records |-> NoRecords]
      /\ UNCHANGED <<chain, memory, counted>>
  BY DEF Truncate
<1>2. TypeOK'
  <2>1. NoRecords \in [Contracts -> 0 .. Len(txs)]
    BY DEF SettlementInv, TypeOK, NoRecords
  <2>2. QED
    BY <1>1, <2>1 DEF SettlementInv, TypeOK, Steps, Contracts
<1>3. RecordedByWithdrawal'
  BY <1>1 DEF SettlementInv, RecordedByWithdrawal, NoRecords, Contracts
<1>4. MemoryHasFile'
  BY <1>1 DEF MemoryHasFile, NoRecords, Contracts
<1>5. OneWithdrawal' /\ RetiredAsSeen' /\ AwaitedReceipt'
  BY <1>1 DEF SettlementInv, OneWithdrawal, RetiredAsSeen, AwaitedReceipt
<1>6. NoneSkipped'
  BY <1>1 DEF SettlementInv, NoneSkipped, LookedAt, IsPending, Contracts
<1>7. QED
  BY <1>2, <1>3, <1>4, <1>5, <1>6 DEF SettlementInv

\* After a withdrawal the whole of memory is written.
LEMMA WriteRecordsInv ==
  ASSUME SettlementInv, WriteRecords
  PROVE  SettlementInv'
<1>. USE DEF chain, memory, counted
<1>1. /\ pc = "write" /\ file' = [state |-> "whole", records |-> records]
      /\ pc' = IF pending = << >> THEN "persistAll" ELSE "withdraw"
      /\ UNCHANGED <<chain, memory, counted>>
  BY DEF WriteRecords, Written
<1>2. TypeOK'
  BY <1>1 DEF SettlementInv, TypeOK, Steps, Contracts
<1>3. NoneSkipped'
  BY <1>1 DEF SettlementInv, NoneSkipped, LookedAt, IsPending, Contracts
<1>4. RecordedByWithdrawal'
  <2>1. ASSUME NEW c \in Contracts, NEW tx \in {records'[c], file'.records[c]} \ {0}
        PROVE  txs'[tx] = [to |-> c, status |-> "success"]
    BY <1>1, <2>1 DEF SettlementInv, RecordedByWithdrawal
  <2>2. ASSUME NEW c \in Contracts, pc' \in {"persistAll", "writeAll"}
        PROVE  records'[c] # 0
    <3>1. pending = << >>
      BY <1>1, <2>2
    <3>2. records[c] # 0 \/ IsPending(c)
      BY <1>1 DEF SettlementInv, NoneSkipped, LookedAt
    <3>3. QED
      BY <1>1, <3>1, <3>2 DEF IsPending
  <2>3. QED
    BY <2>1, <2>2 DEF RecordedByWithdrawal, Contracts
<1>5. OneWithdrawal' /\ RetiredAsSeen' /\ AwaitedReceipt' /\ MemoryHasFile'
  BY <1>1 DEF SettlementInv, OneWithdrawal, RetiredAsSeen, AwaitedReceipt, MemoryHasFile
<1>6. QED
  BY <1>2, <1>3, <1>4, <1>5 DEF SettlementInv

\* The last write comes after the last contract.
LEMMA WriteAllRecordsInv ==
  ASSUME SettlementInv, WriteAllRecords
  PROVE  SettlementInv'
<1>1. Exit /\ UNCHANGED chain /\ UNCHANGED counted /\ file' = Written
  BY DEF WriteAllRecords
<1>2. kills' \in 0 .. MaxKills /\ tornWrites' \in 0 .. MaxTornWrites /\ file'.state # "torn"
  BY <1>1 DEF SettlementInv, TypeOK, Written, counted
<1>3. QED
  BY <1>1, <1>2, ExitInv

\* A withdrawal is sent: the last transaction is the one that is awaited.
LEMMA WithdrawInv ==
  ASSUME SettlementInv, Withdraw
  PROVE  SettlementInv'
<1>. USE DEF counted
<1>. DEFINE tx == [to |-> Head(pending), status |-> "pending"]
<1>1. /\ pc = "withdraw" /\ txs' = Append(txs, tx) /\ sent' = Len(txs) + 1 /\ pc' = "receipt"
      /\ UNCHANGED <<over, file, records, cursor, overAtStart, sawRetired, pending, counted>>
  BY DEF Withdraw
<1>2. TypeOK /\ txs \in Seq(Txs) /\ pending \in Seq(Contracts) /\ pending # << >>
  BY <1>1 DEF SettlementInv, TypeOK, Txs, AwaitedReceipt
<1>3. Head(pending) \in Contracts
  BY <1>2
<1>4. tx \in Txs
  BY <1>3 DEF Txs
<1>5. /\ txs' \in Seq(Txs) /\ Len(txs) \in Nat /\ Len(txs') = Len(txs) + 1
      /\ \A i \in DOMAIN txs : i \in DOMAIN txs' /\ txs'[i] = txs[i]
      /\ txs'[Len(txs) + 1] = tx
      /\ DOMAIN txs' = DOMAIN txs \union {Len(txs) + 1}
  BY <1>1, <1>2, <1>4
<1>. HIDE DEF tx
<1>6. TypeOK'
  <2>1. 0 .. Len(txs) \subseteq 0 .. Len(txs') /\ sent' \in 0 .. Len(txs')
    BY <1>1, <1>5
  <2>2. file' \in [state : {"absent", "torn", "whole"}, records : [Contracts -> 0 .. Len(txs')]]
    BY <1>1, <1>2, <2>1 DEF TypeOK
  <2>3. records' \in [Contracts -> 0 .. Len(txs')]
    BY <1>1, <1>2, <2>1 DEF TypeOK
  <2>4. file.state = "torn" => tornWrites > 0
    BY <1>1, <1>2 DEF TypeOK
  <2>5. QED
    BY <1>1, <1>2, <1>5, <2>1, <2>2, <2>3, <2>4 DEF TypeOK, Txs, Contracts, Steps
<1>7. RecordedByWithdrawal'
  <2>1. Grows
    BY <1>5 DEF Grows
  <2>2. \A c \in Contracts : records[c] \in 0 .. Len(txs) /\ file.records[c] \in 0 .. Len(txs)
    BY <1>2 DEF TypeOK
  <2>3. ASSUME NEW c \in Contracts, NEW x \in {records[c], file.records[c]}, x # 0
        PROVE  txs'[x] = [to |-> c, status |-> "success"]
    <3>1. x \in 0 .. Len(txs)
      BY <2>2
    <3>2. txs[x] = [to |-> c, status |-> "success"]
      BY <2>3 DEF SettlementInv, RecordedByWithdrawal
    <3>3. QED
      BY <1>2, <2>1, <2>3, <3>1, <3>2, RecordsStay
  <2>4. QED
    BY <1>1, <2>3 DEF RecordedByWithdrawal, Contracts
<1>8. OneWithdrawal'
  <2>1. txs'[Len(txs) + 1].status # "success"
    BY <1>5 DEF tx
  <2>2. QED
    BY <1>5, <2>1 DEF SettlementInv, OneWithdrawal
<1>9. AwaitedReceipt'
  BY <1>1, <1>2, <1>5 DEF AwaitedReceipt, tx
<1>10. NoneSkipped' /\ MemoryHasFile' /\ RetiredAsSeen'
  BY <1>1 DEF SettlementInv, NoneSkipped, LookedAt, IsPending, MemoryHasFile, RetiredAsSeen, Contracts
<1>11. QED
  BY <1>6, <1>7, <1>8, <1>9, <1>10 DEF SettlementInv

\* Where a receipt is awaited, it is for the first pending contract.
LEMMA ReceiptFacts ==
  ASSUME SettlementInv, pc = "receipt"
  PROVE  /\ txs \in Seq(Txs) /\ Len(txs) \in Nat
         /\ pending \in Seq(Contracts) /\ pending # << >>
         /\ sent \in 0 .. Len(txs) /\ sent # 0 /\ txs[sent].to = Head(pending)
         /\ records \in [Contracts -> 0 .. Len(txs)]
<1>1. TypeOK /\ AwaitedReceipt
  BY DEF SettlementInv
<1>2. txs \in Seq(Txs) /\ Len(txs) \in Nat
  BY <1>1 DEF TypeOK, Txs
<1>3. pending \in Seq(Contracts) /\ sent \in 0 .. Len(txs) /\ records \in [Contracts -> 0 .. Len(txs)]
  BY <1>1 DEF TypeOK
<1>4. pending # << >> /\ sent # 0 /\ txs[sent].to = Head(pending)
  BY <1>1 DEF AwaitedReceipt
<1>5. QED
  BY <1>1, <1>2, <1>3, <1>4

\* The receipt of the awaited withdrawal is recorded for its contract.
LEMMA RecordWithdrawalInv ==
  ASSUME SettlementInv, RecordWithdrawal
  PROVE  SettlementInv'
<1>. USE DEF chain, counted
<1>1. /\ pc = "receipt" /\ txs[sent].status = "success"
      /\ records' = [records EXCEPT ![Head(pending)] = sent]
      /\ pending' = Tail(pending) /\ pc' = "persist"
      /\ UNCHANGED <<chain, file, cursor, overAtStart, sawRetired, sent, counted>>
  BY DEF RecordWithdrawal, Settled
<1>2. /\ TypeOK /\ txs \in Seq(Txs) /\ Len(txs) \in Nat
      /\ pending \in Seq(Contracts) /\ pending # << >>
      /\ sent \in 0 .. Len(txs) /\ sent # 0 /\ txs[sent].to = Head(pending)
      /\ records \in [Contracts -> 0 .. Len(txs)]
  BY <1>1, ReceiptFacts DEF SettlementInv
<1>3. /\ Head(pending) \in Contracts /\ Tail(pending) \in Seq(Contracts)
      /\ \A c \in Contracts : IsPending(c) =>
           c = Head(pending) \/ \E i \in DOMAIN Tail(pending) : Tail(pending)[i] = c
  <2>1. /\ Head(pending) = pending[1] /\ Head(pending) \in Contracts /\ Tail(pending) \in Seq(Contracts)
        /\ Len(Tail(pending)) = Len(pending) - 1 /\ Len(pending) \in Nat
        /\ \A i \in 1 .. Len(pending) - 1 : Tail(pending)[i] = pending[i + 1]
    BY <1>2
  <2>2. DOMAIN Tail(pending) = 1 .. Len(pending) - 1 /\ DOMAIN pending = 1 .. Len(pending)
    BY <1>2, <2>1
  <2>3. ASSUME NEW i \in 1 .. Len(pending), i # 1
        PROVE  i - 1 \in DOMAIN Tail(pending) /\ Tail(pending)[i - 1] = pending[i]
    BY <2>1, <2>2, <2>3
  <2>4. QED
    BY <2>1, <2>2, <2>3 DEF IsPending
<1>4. /\ txs[sent] = [to |-> Head(pending), status |-> "success"]
      /\ sent \in DOMAIN txs
  <2>1. sent \in DOMAIN txs /\ txs[sent] \in Txs
    BY <1>2
  <2>2. QED
    BY <1>1, <1>2, <2>1 DEF Txs
<1>5. /\ records' \in [Contracts -> 0 .. Len(txs)]
      /\ records'[Head(pending)] = sent
      /\ \A c \in Contracts : c # Head(pending) => records'[c] = records[c]
  BY <1>1, <1>2, <1>3
<1>6. TypeOK'
  BY <1>1, <1>2, <1>3, <1>5 DEF TypeOK, Steps, Contracts
<1>7. RecordedByWithdrawal'
  BY <1>1, <1>4, <1>5 DEF SettlementInv, RecordedByWithdrawal, Contracts
<1>8. OneWithdrawal' /\ RetiredAsSeen' /\ AwaitedReceipt'
  BY <1>1 DEF SettlementInv, OneWithdrawal, RetiredAsSeen, AwaitedReceipt
<1>9. NoneSkipped'
  BY <1>1, <1>2, <1>3, <1>5 DEF SettlementInv, NoneSkipped, LookedAt, IsPending, Contracts
<1>10. MemoryHasFile'
  <2>1. \A c \in Contracts : file.records[c] # 0 =>
          /\ records[c] = file.records[c]
          /\ txs[file.records[c]] = [to |-> c, status |-> "success"]
          /\ file.records[c] \in DOMAIN txs
    <3>1. TAKE c \in Contracts
    <3>2. HAVE file.records[c] # 0
    <3>3. records[c] = file.records[c]
      BY <1>1, <3>2 DEF SettlementInv, MemoryHasFile
    <3>4. txs[file.records[c]] = [to |-> c, status |-> "success"]
      BY <3>2 DEF SettlementInv, RecordedByWithdrawal
    <3>5. file.records[c] \in 0 .. Len(txs)
      BY <1>2 DEF TypeOK
    <3>6. file.records[c] \in DOMAIN txs
      BY <1>2, <3>2, <3>5
    <3>7. QED
      BY <3>3, <3>4, <3>6
  <2>2. file.records[Head(pending)] # 0 => file.records[Head(pending)] = sent
    BY <1>3, <1>4, <2>1 DEF SettlementInv, OneWithdrawal
  <2>3. QED
    BY <1>1, <1>5, <2>1, <2>2 DEF MemoryHasFile, Contracts
<1>11. QED
  BY <1>6, <1>7, <1>8, <1>9, <1>10 DEF SettlementInv

-----------------------------------------------------------------------------
(* The theorems.                                                           *)

\* The invariant holds in every reachable state.
THEOREM SettlementInvariant == Spec => []SettlementInv
<1>1. SettlementInv /\ [Next]_vars => SettlementInv'
  <2>. SUFFICES ASSUME SettlementInv, [Next]_vars PROVE SettlementInv'
    OBVIOUS
  <2>1. CASE EndWindow \/ Mine \/ Run
    BY <2>1, EndWindowInv, MineInv, RunInv
  <2>2. CASE Script
    BY <2>2, ReadCommitteeRetiredInv, AuditRetiredInv, FoundPendingInv, StoppedInv, TruncateInv,
       WriteRecordsInv, WriteAllRecordsInv, WithdrawInv, RecordWithdrawalInv DEF Script
  <2>3. CASE Kill
    BY <2>3, StoppedInv
  <2>4. CASE UNCHANGED vars
    BY <2>4 DEF vars, chain, memory, counted, SettlementInv, TypeOK, RecordedByWithdrawal, OneWithdrawal,
       RetiredAsSeen, Retired, AwaitedReceipt, NoneSkipped, LookedAt, IsPending, MemoryHasFile, Contracts
  <2>5. QED
    BY <2>1, <2>2, <2>3, <2>4 DEF Next
<1>2. QED
  BY InitSettlement, <1>1, PTL DEF Spec

\* The types are right, and only an interrupted write tears the file.
THEOREM SettlementTypes == Spec => []TypeOK
<1>1. SettlementInv => TypeOK
  BY DEF SettlementInv
<1>2. QED
  BY SettlementInvariant, <1>1, PTL

\* A record, in memory or in the file, is of a transaction that took the
\* contract's bonds, and the last check of the script cannot fail.
THEOREM Recorded == Spec => []RecordedByWithdrawal
<1>1. SettlementInv => RecordedByWithdrawal
  BY DEF SettlementInv
<1>2. QED
  BY SettlementInvariant, <1>1, PTL

\* There is only one such transaction, so what any run records of a contract,
\* from its own receipt or from the chain, is the same.
THEOREM RecordedUniquely ==
  Spec => [](\A c \in Contracts : \A tx \in {records[c], file.records[c]} \ {0} : tx = Withdrawal(c))
<1>1. SettlementInv =>
        \A c \in Contracts : \A tx \in {records[c], file.records[c]} \ {0} : tx = Withdrawal(c)
  <2>. SUFFICES ASSUME SettlementInv, NEW c \in Contracts, NEW tx \in {records[c], file.records[c]} \ {0}
                PROVE  tx = Withdrawal(c)
    OBVIOUS
  <2>0. txs \in Seq(Txs) /\ \A d \in Contracts : records[d] \in 0 .. Len(txs) /\ file.records[d] \in 0 .. Len(txs)
    BY DEF SettlementInv, TypeOK, Txs
  <2>1. tx \in DOMAIN txs /\ txs[tx] = [to |-> c, status |-> "success"]
    <3>1. txs[tx] = [to |-> c, status |-> "success"]
      BY DEF SettlementInv, RecordedByWithdrawal
    <3>2. tx \in 0 .. Len(txs) /\ tx # 0
      BY <2>0
    <3>3. QED
      BY <2>0, <3>1, <3>2
  <2>2. Retired(c)
    BY <2>1 DEF Retired
  <2>3. Withdrawal(c) \in DOMAIN txs /\ txs[Withdrawal(c)] = [to |-> c, status |-> "success"]
    <3>1. TypeOK
      BY DEF SettlementInv
    <3>2. /\ Withdrawal(c) \in 1 .. Len(txs)
          /\ txs[Withdrawal(c)] = [to |-> c, status |-> "success"]
      BY <2>2, <3>1, WithdrawalFacts
    <3>3. QED
      BY <2>0, <3>2
  <2>4. QED
    BY <2>1, <2>3 DEF SettlementInv, OneWithdrawal
<1>2. QED
  BY SettlementInvariant, <1>1, PTL

\* No step loses a record but an exit: what a step takes out of the file the
\* running script holds in memory, and memory keeps what it holds while the
\* script runs, also when the same withdrawal is recorded again.
THEOREM RecordsKept ==
  Spec => [][\A c \in Contracts :
               /\ file.records[c] # 0 =>
                    \/ file'.records[c] = file.records[c]
                    \/ pc' # "off" /\ records'[c] = file.records[c]
               /\ records[c] # 0 /\ pc # "off" /\ pc' # "off" => records'[c] = records[c]]_vars
<1>. DEFINE Kept(c) ==
       /\ file.records[c] # 0 =>
            \/ file'.records[c] = file.records[c]
            \/ pc' # "off" /\ records'[c] = file.records[c]
       /\ records[c] # 0 /\ pc # "off" /\ pc' # "off" => records'[c] = records[c]
<1>1. SettlementInv /\ [Next]_vars => [\A c \in Contracts : Kept(c)]_vars
  <2>. SUFFICES ASSUME SettlementInv, Next, NEW c \in Contracts
                PROVE  Kept(c)
    OBVIOUS
  <2>1. CASE WriteRecords \/ WriteAllRecords
    BY <2>1 DEF WriteRecords, WriteAllRecords, Written, SettlementInv, MemoryHasFile, memory, Exit
  <2>2. CASE Truncate
    BY <2>2 DEF Truncate, SettlementInv, MemoryHasFile, memory
  <2>3. CASE AuditRetired
    <3>1. UNCHANGED file /\ records' = [records EXCEPT ![cursor] = IF @ # 0 THEN @ ELSE Withdrawal(cursor)]
      BY <2>3 DEF AuditRetired, Audited
    <3>2. records \in [Contracts -> 0 .. Len(txs)]
      BY DEF SettlementInv, TypeOK
    <3>3. QED
      BY <3>1, <3>2
  <2>4. CASE RecordWithdrawal
    <3>1. /\ pc = "receipt" /\ txs[sent].status = "success" /\ UNCHANGED file
          /\ records' = [records EXCEPT ![Head(pending)] = sent]
      BY <2>4 DEF RecordWithdrawal, Settled
    <3>2. /\ records \in [Contracts -> 0 .. Len(txs)] /\ Len(txs) \in Nat /\ DOMAIN txs = 1 .. Len(txs)
          /\ sent \in DOMAIN txs /\ txs[sent].to = Head(pending)
      BY <3>1, ReceiptFacts
    <3>3. records[c] # 0 => records[c] \in DOMAIN txs /\ txs[records[c]].to = c /\ txs[records[c]].status = "success"
      <4>1. HAVE records[c] # 0
      <4>2. txs[records[c]] = [to |-> c, status |-> "success"]
        BY <4>1 DEF SettlementInv, RecordedByWithdrawal
      <4>3. QED
        BY <3>2, <4>1, <4>2
    <3>4. c = Head(pending) /\ records[c] # 0 => records[c] = sent
      BY <3>1, <3>2, <3>3 DEF SettlementInv, OneWithdrawal
    <3>5. QED
      BY <3>1, <3>2, <3>4
  <2>5. CASE UNCHANGED file /\ (UNCHANGED records \/ pc = "off" \/ pc' = "off")
    BY <2>5
  <2>6. QED
    BY <2>1, <2>2, <2>3, <2>4, <2>5 DEF Next, Script, EndWindow, Mine, Run, ReadCommitteeRetired,
       FoundPending, ScanThrows, WithdrawRefused, Withdraw, WithdrawalReverted, Kill, Exit, memory
<1>2. QED
  BY SettlementInvariant, <1>1, PTL DEF Spec

-----------------------------------------------------------------------------
(* The keyper slasher and the scripts around it.                           *)

\* The log with the event of the call that is paying: a slashing adds its record
\* at the moment the bond is forfeited, and no other step changes it.
Log ==
  IF entered = NoCall THEN events
  ELSE Append(events, [member |-> entered.member, caller |-> entered.caller,
                       amount |-> entered.amount, observedAt |-> now])

Callers == Others \cup {Wallet[s] : s \in Submitters}

\* The bonds that are left when the members of S were slashed, their certificate,
\* and the members the first k records of the log name.
BondsWithout(S) == [m \in Keypers |-> IF m \in S THEN 0 ELSE Bond]
CoverWithout(S) == threshold_cover(BondsWithout(S))
SlashedBy(k) == {Log[i].member : i \in 1 .. k}

\* The inductive invariant of the contract: members register with their addresses
\* before the freeze, a slashed one has no bond left, the log names each slashed
\* member once, and the shares of every penalty are where they belong.
BondsInv ==
  /\ reward \in Nat /\ now \in Nat /\ committeeFrozen \in BOOLEAN
  /\ DOMAIN signer \subseteq Keypers
  /\ signer = [m \in DOMAIN signer |-> KeyperSet[m]]
  /\ bond = [m \in DOMAIN signer |-> IF m \in slashed THEN 0 ELSE Bond]
  /\ DOMAIN signer # {} => Bond > reward
  /\ committeeFrozen => DOMAIN signer = Keypers
  /\ jobs \in Seq(Nat)
  /\ jobs # <<>> => committeeFrozen

LogInv ==
  /\ events \in Seq([member : Keypers, caller : Callers, amount : {Bond}, observedAt : Nat])
  /\ \/ entered = NoCall
     \/ \E m \in Keypers, c \in Callers :
          entered = [due |-> Bond - reward, member |-> m, amount |-> Bond, caller |-> c]
  /\ Log # <<>> => jobs # <<>>
  /\ slashed = {Log[i].member : i \in DOMAIN Log}
  /\ \A i, j \in DOMAIN Log : Log[i].member = Log[j].member => i = j

PenaltyInv ==
  /\ balance = totalBond + entered.due
  /\ Cardinality(slashed) = Len(Log)
  /\ paid = [callers |-> reward * Len(Log), treasury |-> (Bond - reward) * Len(events)]

\* Where a reading of the certificate stands in the log, and a slashing after it.
ReadAt(certificate, j) == certificate = CoverWithout(SlashedBy(j))
SlashedAt(r, caller, i) ==
  Log[i] = [member |-> r.member, caller |-> caller, amount |-> Bond,
            observedAt |-> r.observedAt]
EarlyShare(r) == JobExists(r.job) /\ r.observedAt < r.job[1]

SubmitterInv(s) ==
  LET run == submitter[s]
  IN  /\ run.at \in {"sent", "mined"} =>
           /\ jobFile.written
           /\ run.job \in Nat \X Nat /\ run.releaseTime = run.job[1]
           /\ run.member \in Keypers
           /\ \E j \in 0 .. Len(Log) :
                /\ ReadAt(run.certificateBefore, j)
                /\ run.at = "mined" =>
                     /\ run.observedAt \in Nat
                     /\ run.success =>
                          /\ EarlyShare(run)
                          /\ \E i \in j + 1 .. Len(Log) : SlashedAt(run, Wallet[s], i)

RunsInv ==
  /\ DOMAIN opener = Openers /\ DOMAIN submitter = Submitters
  /\ \A o \in Openers : opener[o].at \in {"sent", "mined"} =>
       deployment.written /\ opener[o].releaseTime \in Nat
  /\ \A s \in Submitters : SubmitterInv(s)

DeploymentInv ==
  /\ \/ deployment = NoFile
     \/ /\ committeeFrozen
        /\ deployment = [written |-> TRUE, keypers |-> KeyperSet, bond |-> Bond,
                         callerReward |-> reward, totalBond |-> Cardinality(Keypers) * Bond,
                         certificate |-> CoverWithout({})]
  /\ jobs # <<>> => deployment.written
  /\ \/ jobFile = NoFile
     \/ /\ jobFile.written = TRUE
        /\ jobFile.job \in Nat \X Nat /\ jobFile.releaseTime = jobFile.job[1]
  /\ jobFile.written => deployment.written

\* What the slashing file says, told from the log, and what it says of a slashing
\* whose transaction succeeded.
SlashingFacts ==
  /\ jobFile.written
  /\ slashing.member \in Keypers
  /\ slashing.keyper = evidence.keypers[slashing.member]
  /\ slashing.job \in Nat \X Nat /\ slashing.observedAt \in Nat
  /\ slashing.success => EarlyShare(slashing)
  /\ slashing.prematureBy = slashing.job[1] - slashing.observedAt
  /\ slashing.bondForfeited = Bond /\ slashing.callerReward = reward
  /\ slashing.treasuryAmount = Bond - reward
  /\ slashing.gasCost \in Nat /\ slashing.netGain = reward - slashing.gasCost
  /\ \E j, k \in 0 .. Len(events) :
       /\ ReadAt(slashing.certificateBefore, j) /\ ReadAt(slashing.certificateAfter, k)
       /\ slashing.success => \E i \in j + 1 .. k : SlashedAt(slashing, slashing.caller, i)

FilesInv == DeploymentInv /\ (slashing = NoFile \/ (slashing.written = TRUE /\ SlashingFacts))

-----------------------------------------------------------------------------
(* The certificate when bonds are missing.                                 *)

\* The bonds that are left in a set of members.
LEMMA BondsLeft ==
  ASSUME NEW R \in SUBSET Keypers, NEW S \in SUBSET Keypers
  PROVE  /\ BondsWithout(R) \in [Keypers -> Nat]
         /\ Cardinality(S \ R) \in Nat
         /\ TotalOn(BondsWithout(R), S) \in Nat
         /\ TotalOn(BondsWithout(R), S) = Cardinality(S \ R) * Bond
<1>. DEFINE f == BondsWithout(R)
<1>1. f \in [Keypers -> Nat] /\ IsFiniteSet(Keypers) /\ Bond \in Nat
  BY SlasherAssumption, RecordAssumption DEF BondsWithout
<1>2. TotalOn(f, S) = TotalOn(f, S \cap R) + TotalOn(f, S \ R)
  <2>1. /\ S \cap R \in SUBSET Keypers /\ S \ R \in SUBSET Keypers
        /\ (S \cap R) \cap (S \ R) = {} /\ (S \cap R) \cup (S \ R) = S
    OBVIOUS
  <2>. HIDE DEF f
  <2>2. QED
    BY <1>1, <2>1, TotalUnion
<1>3. TotalOn(f, S \cap R) = 0
  <2>1. \A x \in S \cap R : f[x] = 0
    BY DEF BondsWithout
  <2>. HIDE DEF f
  <2>2. QED
    BY <1>1, <2>1, TotalZero
<1>4. TotalOn(f, S \ R) = Cardinality(S \ R) * Bond /\ IsFiniteSet(S \ R)
  <2>. DEFINE g == Restrict(f, S \ R)
  <2>1. IsFiniteSet(S \ R)
    BY <1>1, FS_Subset
  <2>2. g \in [S \ R -> Nat] /\ \A x \in S \ R : g[x] = Bond
    BY <1>1 DEF Restrict, BondsWithout
  <2>3. TotalOn(f, S \ R) = Total(g)
    BY DEF TotalOn
  <2>. HIDE DEF g
  <2>4. QED
    BY <1>1, <2>1, <2>2, <2>3, TotalConstant
<1>5. TotalOn(f, S) \in Nat
  <2>. HIDE DEF f
  <2>1. QED
    BY <1>1, TotalSplit
<1>6. QED
  BY <1>1, <1>2, <1>3, <1>4, <1>5, FS_CardinalityType

\* The certificate is the total of some threshold of members, and of the least.
LEMMA CoverIsLeast ==
  ASSUME NEW R \in SUBSET Keypers
  PROVE  /\ \E S \in SUBSET Keypers :
              Cardinality(S) = Threshold /\ CoverWithout(R) = Cardinality(S \ R) * Bond
         /\ \A S \in SUBSET Keypers :
              Cardinality(S) = Threshold => CoverWithout(R) <= Cardinality(S \ R) * Bond
<1>. DEFINE f == BondsWithout(R)
            T == {TotalOn(f, S) : S \in kSubset(Threshold, DOMAIN f)}
<1>1. DOMAIN f = Keypers
  BY DEF BondsWithout
<1>2. T \in SUBSET Nat
  <2>1. \A S \in SUBSET Keypers : TotalOn(f, S) \in Nat
    BY BondsLeft
  <2>2. QED
    BY <1>1, <2>1 DEF kSubset
<1>3. T # {}
  <2>1. {} \in SUBSET Keypers /\ Cardinality({}) = 0
    BY FS_EmptySet
  <2>2. PICK S \in SUBSET Keypers : Cardinality(S) = Threshold
    BY <2>1, SlasherAssumption, FS_CardinalityType, SubsetOfSize
  <2>3. QED
    BY <1>1, <2>2 DEF kSubset
<1>4. CoverWithout(R) = Min(T)
  BY DEF CoverWithout, threshold_cover
<1>5. Min(T) \in T /\ \A t \in T : Min(T) <= t
  <2>. HIDE DEF T
  <2>1. PICK t \in T : \A u \in T : t <= u
    BY <1>2, <1>3, LeastNatural
  <2>2. QED
    BY <2>1 DEF Min
<1>6. kSubset(Threshold, DOMAIN f) = {S \in SUBSET Keypers : Cardinality(S) = Threshold}
  BY <1>1 DEF kSubset
<1>7. \A S \in SUBSET Keypers : TotalOn(f, S) = Cardinality(S \ R) * Bond
  BY BondsLeft
<1>. HIDE DEF f
<1>8. QED
  BY <1>4, <1>5, <1>6, <1>7

\* The certificate tells no slashing, one, and several apart: it loses one bond with
\* the first slashing, and at least another one with the second.
LEMMA CoverTells ==
  ASSUME NEW R \in SUBSET Keypers, NEW m \in R, Bond > 0
  PROVE  /\ CoverWithout({}) \in Nat /\ CoverWithout({m}) \in Nat
         /\ CoverWithout({}) - CoverWithout({m}) = Bond
         /\ CoverWithout(R) # CoverWithout({})
         /\ CoverWithout(R) = CoverWithout({m}) => R = {m}
<1>1. /\ IsFiniteSet(Keypers) /\ Threshold \in 2 .. Cardinality(Keypers)
      /\ Cardinality(Keypers) \in Nat /\ Bond \in Nat
  BY SlasherAssumption, RecordAssumption, FS_CardinalityType
<1>2. CoverWithout({}) = Threshold * Bond
  <2>1. PICK S \in SUBSET Keypers :
          Cardinality(S) = Threshold /\ CoverWithout({}) = Cardinality(S \ {}) * Bond
    BY CoverIsLeast
  <2>2. S \ {} = S
    OBVIOUS
  <2>3. QED
    BY <2>1, <2>2
<1>3. \A A \in SUBSET R : Cardinality(A) <= Threshold =>
         CoverWithout(R) <= (Threshold - Cardinality(A)) * Bond
  <2>1. SUFFICES ASSUME NEW A \in SUBSET R, Cardinality(A) <= Threshold
                 PROVE  CoverWithout(R) <= (Threshold - Cardinality(A)) * Bond
    OBVIOUS
  <2>2. PICK S \in SUBSET Keypers : A \subseteq S /\ Cardinality(S) = Threshold
    BY <1>1, <2>1, SubsetOfSize
  <2>3. IsFiniteSet(S) /\ IsFiniteSet(A) /\ IsFiniteSet(S \ R) /\ IsFiniteSet(S \ A)
    BY <1>1, FS_Subset
  <2>4. Cardinality(S \ R) <= Cardinality(S \ A)
    BY <2>3, FS_Subset
  <2>5. Cardinality(S \ A) = Threshold - Cardinality(A)
    <3>1. S \cap A = A
      BY <2>2
    <3>2. Cardinality(S \ A) = Cardinality(S) - Cardinality(S \cap A)
      BY <2>3, FS_Difference
    <3>3. QED
      BY <2>2, <3>1, <3>2
  <2>6. Cardinality(S \ R) * Bond <= Cardinality(S \ A) * Bond
    BY <1>1, <2>3, <2>4, FS_CardinalityType
  <2>7. CoverWithout(R) <= Cardinality(S \ R) * Bond
    BY <2>2, CoverIsLeast
  <2>8. /\ CoverWithout(R) \in Int /\ Cardinality(S \ R) * Bond \in Int
        /\ Cardinality(S \ A) * Bond \in Int
    <3>1. PICK V \in SUBSET Keypers : CoverWithout(R) = Cardinality(V \ R) * Bond
      BY CoverIsLeast
    <3>2. Cardinality(V \ R) \in Nat
      BY <1>1, FS_Subset, FS_CardinalityType
    <3>3. QED
      BY <1>1, <2>3, <3>1, <3>2, FS_CardinalityType
  <2>9. QED
    BY <2>5, <2>6, <2>7, <2>8
<1>4. Cardinality({m}) = 1
  BY FS_Singleton
<1>5. CoverWithout({m}) = (Threshold - 1) * Bond
  <2>1. PICK S \in SUBSET Keypers :
          Cardinality(S) = Threshold /\ CoverWithout({m}) = Cardinality(S \ {m}) * Bond
    BY CoverIsLeast
  <2>2. PICK V \in SUBSET Keypers : m \in V /\ Cardinality(V) = Threshold
    <3>1. {m} \in SUBSET Keypers
      OBVIOUS
    <3>2. \E V \in SUBSET Keypers : {m} \subseteq V /\ Cardinality(V) = Threshold
      BY <1>1, <1>4, <3>1, SubsetOfSize
    <3>3. QED
      BY <3>2
  <2>3. IsFiniteSet(S) /\ IsFiniteSet(V)
    BY <1>1, FS_Subset
  <2>4. Cardinality(V \ {m}) = Threshold - 1
    BY <1>1, <2>2, <2>3, FS_RemoveElement
  <2>5. Cardinality(S \ {m}) \in {Threshold - 1, Threshold}
    <3>1. CASE m \in S
      BY <1>1, <2>1, <2>3, <3>1, FS_RemoveElement
    <3>2. CASE m \notin S
      <4>1. S \ {m} = S
        BY <3>2
      <4>2. QED
        BY <2>1, <4>1
    <3>3. QED
      BY <3>1, <3>2
  <2>6. CoverWithout({m}) <= Cardinality(V \ {m}) * Bond
    BY <2>2, CoverIsLeast
  <2>7. Threshold * Bond = (Threshold - 1) * Bond + Bond
    BY <1>1
  <2>8. QED
    BY <1>1, <2>1, <2>4, <2>5, <2>6, <2>7
<1>6. Threshold * Bond = (Threshold - 1) * Bond + Bond
      /\ (Threshold - 1) * Bond = (Threshold - 2) * Bond + Bond
      /\ Threshold * Bond \in Nat /\ (Threshold - 1) * Bond \in Nat
      /\ (Threshold - 2) * Bond \in Nat
  BY <1>1
<1>7. CoverWithout(R) # CoverWithout({})
  <2>1. {m} \in SUBSET R
    OBVIOUS
  <2>2. CoverWithout(R) <= (Threshold - 1) * Bond
    BY <1>1, <1>3, <1>4, <2>1
  <2>3. QED
    BY <1>1, <1>2, <1>6, <2>2
<1>8. CoverWithout(R) = CoverWithout({m}) => R = {m}
  <2>1. SUFFICES ASSUME CoverWithout(R) = CoverWithout({m}), NEW n \in R, n # m
                 PROVE  FALSE
    OBVIOUS
  <2>2. {m, n} \in SUBSET R /\ Cardinality({m, n}) = 2
    <3>1. {m} \cup {n} = {m, n} /\ n \notin {m} /\ IsFiniteSet({m})
      BY <2>1, FS_Singleton
    <3>2. Cardinality({m} \cup {n}) = Cardinality({m}) + 1
      BY <3>1, FS_AddElement
    <3>3. QED
      BY <1>4, <2>1, <3>1, <3>2
  <2>3. CoverWithout(R) <= (Threshold - 2) * Bond
    BY <1>1, <1>3, <2>2
  <2>4. QED
    BY <1>1, <1>5, <1>6, <2>1, <2>3
<1>9. QED
  BY <1>1, <1>2, <1>5, <1>6, <1>7, <1>8

-----------------------------------------------------------------------------
(* The steps of the contract.                                              *)

RecordInv == BondsInv /\ LogInv /\ PenaltyInv /\ RunsInv /\ FilesInv

\* What a step of the scripts does to the contract.
Slashing(caller, s) ==
  /\ submitter[s].at = "sent"
  /\ SlashEarlyShare(caller, [job |-> submitter[s].job, member |-> submitter[s].member])

ContractStep ==
  \/ \E m \in Keypers : RegisterMember(m, KeyperSet[m], Bond)
  \/ FreezeCommittee
  \/ \E o \in Openers : opener[o].at = "sent" /\ OpenRelease(opener[o].releaseTime)
  \/ \E s \in Submitters, caller \in Callers : Slashing(caller, s)
  \/ PayTreasury
  \/ Tick
  \/ UNCHANGED contract

\* Every step of the scripts is one of the contract's, or leaves it alone.
LEMMA ContractSteps ==
  ASSUME [RecordNext]_recordVars
  PROVE  ContractStep
<1>1. CASE UNCHANGED recordVars
  BY <1>1 DEF recordVars, ContractStep
<1>2. CASE Register
  BY <1>2 DEF Register, ContractStep
<1>3. CASE Freeze
  BY <1>3 DEF Freeze, ContractStep
<1>4. CASE WriteDeployment
  BY <1>4 DEF WriteDeployment, ContractStep
<1>5. CASE \E o \in Openers :
             ReadBlock(o) \/ MineRelease(o) \/ RevertRelease(o) \/ WriteJob(o)
  BY <1>5 DEF ReadBlock, MineRelease, RevertRelease, WriteJob, ContractStep
<1>6. CASE \E s \in Submitters, m \in Keypers : Submit(s, m)
  BY <1>6 DEF Submit, ContractStep
<1>7. CASE \E s \in Submitters : MineSlash(s) \/ RevertSlash(s)
  BY <1>7 DEF MineSlash, RevertSlash, Slashing, Callers, ContractStep
<1>8. CASE \E s \in Submitters, gas \in GasCosts : WriteSlashing(s, gas)
  BY <1>8 DEF WriteSlashing, ContractStep
<1>9. CASE \E c \in Others, s \in Submitters : FrontRun(c, s)
  BY <1>9 DEF FrontRun, Slashing, Callers, ContractStep
<1>10. CASE Pay
  BY <1>10 DEF Pay, ContractStep
<1>11. CASE TimePasses
  BY <1>11 DEF TimePasses, ContractStep
<1>12. QED
  BY <1>1, <1>2, <1>3, <1>4, <1>5, <1>6, <1>7, <1>8, <1>9, <1>10, <1>11 DEF RecordNext

\* The shape of the running call tells it from no call.
LEMMA CallIsACall ==
  ASSUME NEW d, NEW m, NEW a, NEW c
  PROVE  [due |-> d, member |-> m, amount |-> a, caller |-> c] # NoCall
<1>1. "member" \in DOMAIN [due |-> d, member |-> m, amount |-> a, caller |-> c]
  OBVIOUS
<1>2. "member" \notin DOMAIN NoCall
  BY DEF NoCall
<1>3. QED
  BY <1>1, <1>2

LogRecords == [member : Keypers, caller : Callers, amount : {Bond}, observedAt : Nat]

\* What is known of the log in a state of the invariant.
LEMMA LogFacts ==
  ASSUME BondsInv, LogInv
  PROVE  /\ Log \in Seq(LogRecords) /\ events \in Seq(LogRecords)
         /\ DOMAIN Log = 1 .. Len(Log) /\ Len(Log) \in Nat
         /\ Len(events) \in Nat /\ Len(events) <= Len(Log)
         /\ \A i \in 1 .. Len(events) : Log[i] = events[i]
         /\ entered = NoCall => Log = events
<1>1. events \in Seq(LogRecords)
  BY DEF LogInv, LogRecords
<1>2. CASE entered = NoCall
  BY <1>1, <1>2 DEF Log
<1>3. CASE entered # NoCall
  <2>1. PICK m \in Keypers, c \in Callers :
          entered = [due |-> Bond - reward, member |-> m, amount |-> Bond, caller |-> c]
    BY <1>3 DEF LogInv
  <2>. DEFINE r == [member |-> entered.member, caller |-> entered.caller,
                    amount |-> entered.amount, observedAt |-> now]
  <2>2. r \in LogRecords
    BY <2>1 DEF BondsInv, LogRecords
  <2>3. Log = Append(events, r)
    BY <1>3 DEF Log
  <2>. HIDE DEF r
  <2>4. QED
    BY <1>1, <1>3, <2>2, <2>3
<1>4. QED
  BY <1>2, <1>3

\* A slashing that is mined takes the whole bond of a member that has one.
LEMMA SlashFacts ==
  ASSUME RecordInv, NEW s \in Submitters, NEW caller \in Callers, Slashing(caller, s)
  PROVE  LET m == submitter[s].member
             r == [member |-> m, caller |-> caller, amount |-> Bond, observedAt |-> now]
         IN  /\ m \in Keypers \ slashed /\ DOMAIN signer = Keypers
             /\ bond[m] = Bond /\ Bond > reward
             /\ entered = NoCall /\ entered' # NoCall /\ Log = events
             /\ entered' = [due |-> Bond - reward, member |-> m, amount |-> Bond,
                            caller |-> caller]
             /\ r \in LogRecords /\ Log' = Append(Log, r)
             /\ jobs # <<>> /\ UNCHANGED <<now, events, jobs>>
<1>. DEFINE m == submitter[s].member
            e == [job |-> submitter[s].job, member |-> m]
            r == [member |-> m, caller |-> caller, amount |-> Bond, observedAt |-> now]
<1>1. SlashEarlyShare(caller, e) /\ submitter[s].at = "sent"
  BY DEF Slashing
<1>2. m \in Keypers
  BY <1>1 DEF RecordInv, RunsInv, SubmitterInv
<1>3. MaySlash(caller, e)
  BY <1>1 DEF SlashEarlyShare
<1>4. m \notin slashed /\ entered = NoCall /\ JobExists(e.job)
  BY <1>3 DEF MaySlash
<1>5. jobs # <<>>
  BY <1>4 DEF JobExists
<1>6. DOMAIN signer = Keypers
  BY <1>5 DEF RecordInv, BondsInv
<1>7. bond[m] = Bond /\ Bond > reward
  BY <1>2, <1>4, <1>6 DEF RecordInv, BondsInv
<1>8. entered' = [due |-> Bond - reward, member |-> m, amount |-> Bond, caller |-> caller]
  BY <1>1, <1>7 DEF SlashEarlyShare
<1>9. entered' # NoCall
  BY <1>8, CallIsACall
<1>10. Log = events /\ UNCHANGED <<now, events, jobs>>
  BY <1>1, <1>4 DEF Log, SlashEarlyShare
<1>11. r \in LogRecords
  BY <1>2 DEF RecordInv, BondsInv, LogRecords
<1>12. Log' = Append(Log, r)
  BY <1>8, <1>9, <1>10 DEF Log, NoCall
<1>13. QED
  BY <1>2, <1>4, <1>5, <1>6, <1>7, <1>8, <1>9, <1>10, <1>11, <1>12

\* The end of a call leaves the log as it is.
LEMMA PayFacts ==
  ASSUME RecordInv, PayTreasury
  PROVE  /\ Log' = Log /\ Log = events' /\ entered' = NoCall
         /\ entered.due = Bond - reward /\ Len(events') = Len(events) + 1
         /\ UNCHANGED now
<1>1. entered # NoCall
  BY DEF PayTreasury
<1>2. PICK m \in Keypers, c \in Callers :
        entered = [due |-> Bond - reward, member |-> m, amount |-> Bond, caller |-> c]
  BY <1>1 DEF RecordInv, LogInv
<1>. DEFINE r == [member |-> entered.member, caller |-> entered.caller,
                  amount |-> entered.amount, observedAt |-> now]
<1>3. events' = Append(events, r) /\ Log = Append(events, r) /\ entered' = NoCall
  BY <1>1 DEF PayTreasury, Log
<1>4. r \in LogRecords
  BY <1>2 DEF RecordInv, BondsInv, LogRecords
<1>5. events \in Seq(LogRecords)
  BY LogFacts DEF RecordInv
<1>6. Len(events') = Len(events) + 1
  <2>. HIDE DEF r
  <2>1. QED
    BY <1>3, <1>4, <1>5
<1>7. QED
  BY <1>2, <1>3, <1>6 DEF PayTreasury, Log

\* Every other step leaves the log as it is, and what it is made of.
LEMMA LogKept ==
  ASSUME UNCHANGED <<entered, events>>, entered # NoCall => UNCHANGED now
  PROVE  UNCHANGED Log
BY DEF Log, NoCall

\* The log only grows.
LEMMA LogGrows ==
  ASSUME RecordInv, ContractStep
  PROVE  /\ Len(Log') \in Nat /\ Len(Log) <= Len(Log')
         /\ \A i \in 1 .. Len(Log) : Log'[i] = Log[i]
         /\ Len(events') \in Nat /\ Len(events) <= Len(events')
<1>1. /\ Log \in Seq(LogRecords) /\ events \in Seq(LogRecords)
      /\ Len(Log) \in Nat /\ Len(events) \in Nat
  BY LogFacts DEF RecordInv
<1>2. CASE UNCHANGED <<entered, events>> /\ (entered # NoCall => UNCHANGED now)
  <2>1. UNCHANGED <<Log, events>>
    BY <1>2, LogKept
  <2>2. QED
    BY <1>1, <2>1
<1>3. CASE \E s \in Submitters, caller \in Callers : Slashing(caller, s)
  <2>1. PICK r \in LogRecords : Log' = Append(Log, r) /\ events' = events
    BY <1>3, SlashFacts
  <2>2. QED
    BY <1>1, <2>1
<1>4. CASE PayTreasury
  BY <1>1, <1>4, PayFacts
<1>5. QED
  BY <1>2, <1>3, <1>4
     DEF ContractStep, RegisterMember, FreezeCommittee, OpenRelease, Tick, penalties, contract

\* The bonds and the jobs.
LEMMA BondsStep ==
  ASSUME RecordInv, ContractStep
  PROVE  BondsInv'
<1>. USE DEF RecordInv, BondsInv
<1>1. CASE \E m \in Keypers : RegisterMember(m, KeyperSet[m], Bond)
  <2>1. PICK m \in Keypers : RegisterMember(m, KeyperSet[m], Bond)
    BY <1>1
  <2>2. Log = <<>> /\ slashed = {}
    <3>1. jobs = <<>>
      BY <2>1 DEF RegisterMember
    <3>2. Log = <<>>
      BY <3>1 DEF LogInv
    <3>3. QED
      BY <3>2 DEF LogInv
  <2>3. /\ signer' = [k \in DOMAIN signer' |-> KeyperSet[k]]
        /\ DOMAIN signer' = DOMAIN signer \cup {m}
    BY <2>1 DEF RegisterMember
  <2>4. bond' = [k \in DOMAIN signer' |-> IF k \in slashed' THEN 0 ELSE Bond]
    BY <2>1, <2>2, <2>3 DEF RegisterMember
  <2>5. QED
    BY <2>1, <2>3, <2>4 DEF RegisterMember
<1>2. CASE FreezeCommittee
  BY <1>2 DEF FreezeCommittee, penalties
<1>3. CASE \E o \in Openers : opener[o].at = "sent" /\ OpenRelease(opener[o].releaseTime)
  BY <1>3 DEF OpenRelease, RunsInv, committee, penalties
<1>4. CASE \E s \in Submitters, caller \in Callers : Slashing(caller, s)
  <2>1. PICK s \in Submitters, caller \in Callers : Slashing(caller, s)
    BY <1>4
  <2>. DEFINE m == submitter[s].member
  <2>2. /\ slashed' = slashed \cup {m} /\ bond' = [bond EXCEPT ![m] = 0]
        /\ UNCHANGED <<reward, signer, committeeFrozen, jobs, now>>
    BY <2>1 DEF Slashing, SlashEarlyShare, BondAfterSlash
  <2>3. m \in DOMAIN signer
    BY <2>1, SlashFacts
  <2>. HIDE DEF m
  <2>4. bond' = [k \in DOMAIN signer' |-> IF k \in slashed' THEN 0 ELSE Bond]
    BY <2>2, <2>3
  <2>5. QED
    BY <2>2, <2>4
<1>5. CASE PayTreasury
  BY <1>5 DEF PayTreasury, committee
<1>6. CASE Tick
  BY <1>6 DEF Tick, committee, penalties
<1>7. CASE UNCHANGED contract
  BY <1>7 DEF contract, committee, penalties
<1>8. QED
  BY <1>1, <1>2, <1>3, <1>4, <1>5, <1>6, <1>7 DEF ContractStep

\* The log: a slashing adds a member that is not in it.
LEMMA LogStep ==
  ASSUME RecordInv, ContractStep
  PROVE  LogInv'
<1>1. CASE /\ UNCHANGED <<entered, events, slashed, reward>>
           /\ entered # NoCall => UNCHANGED now
           /\ jobs # <<>> => jobs' # <<>>
  <2>1. UNCHANGED Log
    BY <1>1, LogKept
  <2>2. QED
    BY <1>1, <2>1 DEF RecordInv, LogInv, NoCall
<1>2. CASE \E s \in Submitters, caller \in Callers : Slashing(caller, s)
  <2>1. PICK s \in Submitters, caller \in Callers : Slashing(caller, s)
    BY <1>2
  <2>. DEFINE m == submitter[s].member
              r == [member |-> m, caller |-> caller, amount |-> Bond, observedAt |-> now]
  <2>2. /\ m \in Keypers \ slashed /\ r \in LogRecords
        /\ Log' = Append(Log, r) /\ jobs' # <<>> /\ events' = events
        /\ entered' = [due |-> Bond - reward, member |-> m, amount |-> Bond, caller |-> caller]
    BY <2>1, SlashFacts
  <2>3. slashed' = slashed \cup {m} /\ reward' = reward
    BY <2>1 DEF Slashing, SlashEarlyShare
  <2>4. /\ Log \in Seq(LogRecords) /\ events \in Seq(LogRecords)
        /\ DOMAIN Log = 1 .. Len(Log) /\ Len(Log) \in Nat
    BY LogFacts DEF RecordInv
  <2>5. /\ slashed = {Log[i].member : i \in DOMAIN Log}
        /\ \A i, j \in DOMAIN Log : Log[i].member = Log[j].member => i = j
    BY DEF RecordInv, LogInv
  <2>6. r.member = m
    OBVIOUS
  <2>. HIDE DEF m, r
  <2>7. /\ DOMAIN Log' = 1 .. Len(Log) + 1 /\ Log'[Len(Log) + 1] = r
        /\ \A i \in 1 .. Len(Log) : Log'[i] = Log[i]
    BY <2>2, <2>4
  <2>8. /\ slashed' = {Log'[i].member : i \in DOMAIN Log'}
    <3>1. {Log'[i].member : i \in DOMAIN Log'} =
            {Log'[i].member : i \in 1 .. Len(Log)} \cup {Log'[Len(Log) + 1].member}
      BY <2>4, <2>7
    <3>2. {Log'[i].member : i \in 1 .. Len(Log)} = {Log[i].member : i \in 1 .. Len(Log)}
      BY <2>7
    <3>3. QED
      BY <2>3, <2>4, <2>5, <2>6, <2>7, <3>1, <3>2
  <2>9. \A i, j \in DOMAIN Log' : Log'[i].member = Log'[j].member => i = j
    BY <2>2, <2>4, <2>5, <2>6, <2>7
  <2>10. Log' # <<>>
    BY <2>7, <2>4
  <2>11. events' \in Seq([member : Keypers, caller : Callers, amount : {Bond}, observedAt : Nat])
    BY <2>2, <2>4 DEF LogRecords
  <2>12. \E k \in Keypers, c \in Callers :
           entered' = [due |-> Bond - reward', member |-> k, amount |-> Bond, caller |-> c]
    BY <2>2, <2>3
  <2>13. QED
    BY <2>2, <2>8, <2>9, <2>11, <2>12 DEF LogInv, NoCall
<1>3. CASE PayTreasury
  <2>1. UNCHANGED <<Log, slashed, jobs>> /\ entered' = NoCall /\ events' = Log
    BY <1>3, PayFacts DEF PayTreasury
  <2>2. Log \in Seq(LogRecords)
    BY LogFacts DEF RecordInv
  <2>3. QED
    BY <2>1, <2>2 DEF RecordInv, LogInv, LogRecords, NoCall
<1>4. CASE \E o \in Openers : opener[o].at = "sent" /\ OpenRelease(opener[o].releaseTime)
  <2>1. jobs' # <<>>
    BY <1>4 DEF OpenRelease, RecordInv, RunsInv, BondsInv
  <2>2. QED
    BY <1>1, <1>4, <2>1 DEF OpenRelease, penalties, committee
<1>5. CASE \/ \E m \in Keypers : RegisterMember(m, KeyperSet[m], Bond)
           \/ FreezeCommittee \/ Tick \/ UNCHANGED contract
  <2>1. UNCHANGED <<entered, events, slashed, reward, jobs>> /\ (entered # NoCall => UNCHANGED now)
    BY <1>5 DEF RegisterMember, FreezeCommittee, Tick, penalties, committee, contract
  <2>2. QED
    BY <1>1, <2>1
<1>6. QED
  BY <1>2, <1>3, <1>4, <1>5 DEF ContractStep

\* The penalties: a slashing takes a bond off the total and pays the reward, and
\* the rest follows before the call returns.
LEMMA PenaltyStep ==
  ASSUME RecordInv, ContractStep
  PROVE  PenaltyInv'
<1>1. CASE /\ UNCHANGED <<entered, events, slashed, reward, bond, balance, paid>>
           /\ entered # NoCall => UNCHANGED now
  <2>1. UNCHANGED <<Log, totalBond>>
    BY <1>1, LogKept DEF totalBond
  <2>2. QED
    BY <1>1, <2>1 DEF RecordInv, PenaltyInv
<1>2. /\ bond \in [DOMAIN signer -> Nat] /\ IsFiniteSet(DOMAIN signer)
      /\ Bond \in Nat /\ reward \in Nat /\ totalBond \in Nat
  <2>1. /\ bond \in [DOMAIN signer -> Nat] /\ IsFiniteSet(DOMAIN signer)
        /\ Bond \in Nat /\ reward \in Nat
    BY SlasherAssumption, RecordAssumption, FS_Subset DEF RecordInv, BondsInv
  <2>2. QED
    BY <2>1, TotalType DEF totalBond
<1>3. balance = totalBond + entered.due
  BY DEF RecordInv, PenaltyInv
<1>4. CASE \E m \in Keypers : RegisterMember(m, KeyperSet[m], Bond)
  <2>1. PICK m \in Keypers : RegisterMember(m, KeyperSet[m], Bond)
    BY <1>4
  <2>2. UNCHANGED Log
    BY <2>1, LogKept DEF RegisterMember
  <2>3. totalBond' = totalBond + Bond
    <3>1. m \notin DOMAIN signer /\ DOMAIN bond = DOMAIN signer
      BY <1>2, <2>1 DEF RegisterMember
    <3>2. /\ bond' \in [DOMAIN signer \cup {m} -> Nat] /\ bond'[m] = Bond
          /\ \A k \in DOMAIN signer : bond'[k] = bond[k]
      BY <1>2, <2>1, <3>1 DEF RegisterMember
    <3>3. Total(bond') = Total(bond) + bond'[m]
      BY <1>2, <3>1, <3>2, TotalOneMore
    <3>4. QED
      BY <3>2, <3>3 DEF totalBond
  <2>4. balance' = totalBond' + entered'.due
    <3>1. entered.due \in Int
      BY <1>2 DEF RecordInv, LogInv, NoCall
    <3>2. QED
      BY <1>2, <1>3, <2>1, <2>3, <3>1 DEF RegisterMember
  <2>5. QED
    BY <2>1, <2>2, <2>4 DEF RecordInv, PenaltyInv, RegisterMember
<1>5. CASE \E s \in Submitters, caller \in Callers : Slashing(caller, s)
  <2>1. PICK s \in Submitters, caller \in Callers : Slashing(caller, s)
    BY <1>5
  <2>. DEFINE m == submitter[s].member
              r == [member |-> m, caller |-> caller, amount |-> Bond, observedAt |-> now]
  <2>2. /\ m \in Keypers \ slashed /\ m \in DOMAIN signer /\ bond[m] = Bond /\ Bond > reward
        /\ entered = NoCall /\ entered'.due = Bond - reward
        /\ r \in LogRecords /\ Log' = Append(Log, r) /\ events' = events
    BY <2>1, SlashFacts
  <2>3. /\ slashed' = slashed \cup {m} /\ bond' = [bond EXCEPT ![m] = 0]
        /\ balance' = balance - reward /\ reward' = reward
        /\ paid' = [paid EXCEPT !.callers = @ + reward]
    BY <2>1 DEF Slashing, SlashEarlyShare, BondAfterSlash
  <2>4. Log \in Seq(LogRecords) /\ Len(Log) \in Nat
    BY LogFacts DEF RecordInv
  <2>. HIDE DEF m, r
  <2>5. Len(Log') = Len(Log) + 1
    BY <2>2, <2>4
  <2>6. totalBond' = totalBond - Bond
    <3>1. bond' \in [DOMAIN signer -> Nat] /\ bond'[m] = 0
          /\ \A k \in DOMAIN signer \ {m} : bond'[k] = bond[k]
      BY <1>2, <2>2, <2>3
    <3>2. Total(bond') = Total(bond) - bond[m] + bond'[m]
      BY <1>2, <2>2, <3>1, TotalUpdate
    <3>3. QED
      BY <1>2, <2>2, <3>1, <3>2 DEF totalBond
  <2>7. balance' = totalBond' + entered'.due
    BY <1>2, <1>3, <2>2, <2>3, <2>6 DEF NoCall
  <2>8. Cardinality(slashed') = Len(Log')
    <3>1. IsFiniteSet(slashed)
      <4>1. slashed \subseteq Keypers
        <5>1. \A i \in DOMAIN Log : Log[i] \in LogRecords
          BY <2>4
        <5>2. \A i \in DOMAIN Log : Log[i].member \in Keypers
          BY <5>1 DEF LogRecords
        <5>3. QED
          BY <5>2 DEF RecordInv, LogInv
      <4>2. QED
        BY <4>1, SlasherAssumption, FS_Subset
    <3>2. Cardinality(slashed') = Cardinality(slashed) + 1
      BY <2>2, <2>3, <3>1, FS_AddElement
    <3>3. QED
      BY <2>5, <3>2 DEF RecordInv, PenaltyInv
  <2>9. paid' = [callers |-> reward' * Len(Log'), treasury |-> (Bond - reward') * Len(events')]
    <3>1. reward * (Len(Log) + 1) = reward * Len(Log) + reward
      BY <1>2, <2>4
    <3>2. paid = [callers |-> reward * Len(Log), treasury |-> (Bond - reward) * Len(events)]
      BY DEF RecordInv, PenaltyInv
    <3>3. QED
      BY <2>2, <2>3, <2>5, <3>1, <3>2
  <2>10. QED
    BY <2>7, <2>8, <2>9 DEF PenaltyInv
<1>6. CASE PayTreasury
  <2>1. /\ UNCHANGED Log /\ entered.due = Bond - reward /\ entered' = NoCall
        /\ Len(events') = Len(events) + 1
    BY <1>6, PayFacts
  <2>2. /\ balance' = balance - entered.due /\ UNCHANGED <<bond, reward, slashed>>
        /\ paid' = [paid EXCEPT !.treasury = @ + entered.due]
    BY <1>6 DEF PayTreasury, committee
  <2>3. balance' = totalBond' + entered'.due
    BY <1>2, <1>3, <2>1, <2>2 DEF totalBond, NoCall
  <2>4. paid' = [callers |-> reward' * Len(Log'), treasury |-> (Bond - reward') * Len(events')]
    <3>1. Len(events) \in Nat
      BY LogFacts DEF RecordInv
    <3>2. (Bond - reward) * (Len(events) + 1) = (Bond - reward) * Len(events) + (Bond - reward)
      BY <1>2, <3>1
    <3>3. paid = [callers |-> reward * Len(Log), treasury |-> (Bond - reward) * Len(events)]
      BY DEF RecordInv, PenaltyInv
    <3>4. QED
      BY <2>1, <2>2, <3>2, <3>3
  <2>5. QED
    BY <2>1, <2>2, <2>3, <2>4 DEF RecordInv, PenaltyInv
<1>7. QED
  BY <1>1, <1>4, <1>5, <1>6
     DEF ContractStep, FreezeCommittee, OpenRelease, Tick, penalties, committee, contract

-----------------------------------------------------------------------------
(* The readings of the scripts.                                            *)

\* What was read or seen stays where it is in the log, and an opened job stays open.
LEMMA HistoryStays ==
  ASSUME RecordInv, ContractStep
  PROVE  /\ \A j \in 0 .. Len(Log) : SlashedBy(j)' = SlashedBy(j)
         /\ \A job \in Nat \X Nat : JobExists(job) => JobExists(job)'
         /\ reward' = reward
<1>1. /\ Len(Log) \in Nat /\ Len(Log') \in Nat /\ Len(Log) <= Len(Log')
      /\ \A i \in 1 .. Len(Log) : Log'[i] = Log[i]
  BY LogFacts, LogGrows DEF RecordInv
<1>2. \A j \in 0 .. Len(Log) : SlashedBy(j)' = SlashedBy(j)
  BY <1>1 DEF SlashedBy
<1>3. jobs \in Seq(Nat) /\ reward' = reward
      /\ (jobs' = jobs \/ \E t \in Nat : jobs' = Append(jobs, t))
  BY DEF RecordInv, BondsInv, RunsInv, ContractStep, RegisterMember, FreezeCommittee,
         OpenRelease, Slashing, SlashEarlyShare, PayTreasury, Tick, contract, committee, penalties
<1>4. \A job \in Nat \X Nat : JobExists(job) => JobExists(job)'
  <2>1. \A k \in DOMAIN jobs : k \in DOMAIN jobs' /\ jobs'[k] = jobs[k]
    <3>1. CASE jobs' = jobs
      BY <3>1
    <3>2. CASE \E t \in Nat : jobs' = Append(jobs, t)
      <4>1. PICK t \in Nat : jobs' = Append(jobs, t)
        BY <3>2
      <4>2. /\ jobs' \in Seq(Nat) /\ Len(jobs') = Len(jobs) + 1 /\ Len(jobs) \in Nat
            /\ \A k \in 1 .. Len(jobs) : jobs'[k] = jobs[k]
        BY <1>3, <4>1, AppendProperties, LenProperties
      <4>3. DOMAIN jobs = 1 .. Len(jobs) /\ DOMAIN jobs' = 1 .. Len(jobs')
        BY <1>3, <4>2, LenProperties
      <4>4. QED
        BY <4>2, <4>3
    <3>3. QED
      BY <1>3, <3>1, <3>2
  <2>2. QED
    BY <2>1 DEF JobExists
<1>5. QED
  BY <1>2, <1>3, <1>4

\* Once the committee is frozen, the certificate that is read is the one of the
\* members the log names.
LEMMA ReadingFacts ==
  ASSUME BondsInv, LogInv, committeeFrozen, entered = NoCall
  PROVE  ReadAt(currentCertificate, Len(events)) /\ Len(Log) = Len(events)
<1>1. Log = events /\ DOMAIN Log = 1 .. Len(Log)
  BY LogFacts
<1>2. SlashedBy(Len(events)) = slashed
  BY <1>1 DEF SlashedBy, LogInv
<1>3. bond = BondsWithout(slashed)
  BY DEF BondsInv, BondsWithout
<1>4. QED
  BY <1>1, <1>2, <1>3 DEF ReadAt, currentCertificate, CoverWithout, threshold_cover

\* The facts of a run of the evidence script that does nothing, and whose files stay.
LEMMA SubmitterKept ==
  ASSUME RecordInv, ContractStep, NEW s \in Submitters,
         submitter'[s] = submitter[s], jobFile.written => jobFile'.written
  PROVE  SubmitterInv(s)'
<1>. DEFINE run == submitter[s]
<1>1. SUFFICES ASSUME run.at \in {"sent", "mined"}
               PROVE  SubmitterInv(s)'
  BY DEF SubmitterInv
<1>2. /\ jobFile.written
      /\ run.job \in Nat \X Nat /\ run.releaseTime = run.job[1] /\ run.member \in Keypers
  BY <1>1 DEF RecordInv, RunsInv, SubmitterInv
<1>3. PICK j \in 0 .. Len(Log) :
        /\ ReadAt(run.certificateBefore, j)
        /\ run.at = "mined" =>
             /\ run.observedAt \in Nat
             /\ run.success =>
                  /\ EarlyShare(run)
                  /\ \E i \in j + 1 .. Len(Log) : SlashedAt(run, Wallet[s], i)
  BY <1>1 DEF RecordInv, RunsInv, SubmitterInv
<1>4. /\ Len(Log) \in Nat /\ Len(Log') \in Nat /\ Len(Log) <= Len(Log')
      /\ \A i \in 1 .. Len(Log) : Log'[i] = Log[i]
  BY LogFacts, LogGrows DEF RecordInv
<1>5. j \in 0 .. Len(Log') /\ ReadAt(run.certificateBefore, j)'
  <2>1. ReadAt(submitter[s].certificateBefore, j)
    BY <1>3
  <2>2. submitter'[s].certificateBefore = submitter[s].certificateBefore
    OBVIOUS
  <2>3. SlashedBy(j)' = SlashedBy(j)
    BY HistoryStays
  <2>4. QED
    BY <1>4, <2>1, <2>2, <2>3 DEF ReadAt, CoverWithout, BondsWithout
<1>6. ASSUME run.at = "mined", run.success
      PROVE  /\ EarlyShare(run)'
             /\ \E i \in j + 1 .. Len(Log') : SlashedAt(run, Wallet[s], i)'
  <2>1. PICK i \in j + 1 .. Len(Log) : SlashedAt(run, Wallet[s], i)
    BY <1>3, <1>6
  <2>2. JobExists(run.job)'
    BY <1>2, <1>3, <1>6, HistoryStays DEF EarlyShare, JobExists
  <2>3. EarlyShare(run)'
    BY <1>3, <1>6, <2>2 DEF EarlyShare, JobExists
  <2>4. i \in j + 1 .. Len(Log') /\ SlashedAt(run, Wallet[s], i)'
    BY <1>4, <2>1 DEF SlashedAt
  <2>5. QED
    BY <2>3, <2>4
<1>7. QED
  BY <1>2, <1>3, <1>5, <1>6 DEF SubmitterInv

\* An opened job stays open, a frozen committee frozen.
LEMMA JobsStay ==
  ASSUME RecordInv, ContractStep
  PROVE  /\ jobs # <<>> => jobs' # <<>>
         /\ committeeFrozen => committeeFrozen'
<1>1. jobs \in Seq(Nat)
      /\ (jobs' = jobs \/ \E t \in Nat : jobs' = Append(jobs, t))
  BY DEF RecordInv, BondsInv, RunsInv, ContractStep, RegisterMember, FreezeCommittee,
         OpenRelease, Slashing, SlashEarlyShare, PayTreasury, Tick, contract, committee, penalties
<1>2. committeeFrozen => committeeFrozen'
  BY DEF ContractStep, RegisterMember, FreezeCommittee,
         OpenRelease, Slashing, SlashEarlyShare, PayTreasury, Tick, contract, committee, penalties
<1>3. QED
  BY <1>1, <1>2

\* The files of the deployment and of the release are written before they are used,
\* and never unwritten.
LEMMA FilesGrow ==
  ASSUME RecordInv, [RecordNext]_recordVars
  PROVE  /\ deployment.written => deployment' = deployment
         /\ jobFile.written => jobFile'.written
         /\ evidence' = evidence
<1>1. CASE UNCHANGED files
  BY <1>1 DEF files
<1>2. CASE WriteDeployment
  <2>1. deployment = NoFile /\ UNCHANGED <<jobFile, evidence>>
    BY <1>2 DEF WriteDeployment, Files
  <2>2. QED
    BY <2>1 DEF NoFile
<1>3. CASE \E o \in Openers : WriteJob(o)
  <2>1. PICK o \in Openers : WriteJob(o)
    BY <1>3
  <2>2. jobFile'.written /\ UNCHANGED <<deployment, evidence>>
    BY <2>1 DEF WriteJob, Files
  <2>3. QED
    BY <2>2
<1>4. CASE \E s \in Submitters, gas \in GasCosts : WriteSlashing(s, gas)
  BY <1>4 DEF WriteSlashing, Files
<1>5. QED
  BY <1>1, <1>2, <1>3, <1>4
     DEF RecordNext, recordVars, Register, Freeze, ReadBlock, MineRelease, RevertRelease,
         Submit, MineSlash, RevertSlash, FrontRun, Pay, TimePasses

\* A run of the release script sends after the deployment was written, and its
\* release time is a number.
LEMMA OpenersStep ==
  ASSUME RecordInv, [RecordNext]_recordVars
  PROVE  \A o \in Openers : opener'[o].at \in {"sent", "mined"} =>
           deployment'.written /\ opener'[o].releaseTime \in Nat
<1>1. \A o \in Openers : opener[o].at \in {"sent", "mined"} =>
        deployment.written /\ opener[o].releaseTime \in Nat
  BY DEF RecordInv, RunsInv
<1>2. now \in Nat /\ Delay \in Nat
  BY RecordAssumption DEF RecordInv, BondsInv
<1>3. SUFFICES ASSUME NEW o \in Openers, opener'[o].at \in {"sent", "mined"}
               PROVE  deployment'.written /\ opener'[o].releaseTime \in Nat
  OBVIOUS
<1>4. CASE opener'[o] = opener[o]
  BY <1>1, <1>3, <1>4, FilesGrow
<1>5. CASE opener'[o] # opener[o]
  <2>1. PICK p \in Openers :
          ReadBlock(p) \/ MineRelease(p) \/ RevertRelease(p) \/ WriteJob(p)
    BY <1>5 DEF RecordNext, recordVars, runs, Register, Freeze, WriteDeployment, Submit,
                MineSlash, RevertSlash, FrontRun, Pay, WriteSlashing, TimePasses
  <2>2. CASE ReadBlock(p)
    <3>1. /\ deployment.written /\ UNCHANGED files
          /\ opener' = [opener EXCEPT ![p] = [at |-> "sent", releaseTime |-> now + Delay]]
      BY <2>2 DEF ReadBlock
    <3>2. opener'[o] = [at |-> "sent", releaseTime |-> now + Delay]
      BY <1>5, <3>1
    <3>3. QED
      BY <1>2, <3>1, <3>2 DEF files
  <2>3. CASE MineRelease(p) \/ RevertRelease(p)
    <3>1. /\ opener[p].at = "sent" /\ UNCHANGED files
          /\ \E success \in BOOLEAN : ReleaseMined(p, success)
      BY <2>3 DEF MineRelease, RevertRelease
    <3>2. p = o /\ opener'[o].releaseTime = opener[p].releaseTime
      BY <1>5, <3>1 DEF ReleaseMined, RecordInv, RunsInv
    <3>3. QED
      BY <1>1, <3>1, <3>2 DEF files
  <2>4. CASE WriteJob(p)
    BY <1>3, <1>5, <2>4 DEF WriteJob, Over
  <2>5. QED
    BY <2>1, <2>2, <2>3, <2>4
<1>6. QED
  BY <1>4, <1>5

\* A run of the evidence script: what it read before it sent, and what was mined for
\* it, are in the log.
LEMMA SubmittersStep ==
  ASSUME RecordInv, [RecordNext]_recordVars, NEW s \in Submitters
  PROVE  SubmitterInv(s)'
<1>1. ContractStep
  BY ContractSteps
<1>2. CASE submitter'[s] = submitter[s]
  BY <1>1, <1>2, FilesGrow, SubmitterKept
<1>3. CASE \E m \in Keypers : Submit(s, m) /\ submitter'[s] # submitter[s]
  <2>1. PICK m \in Keypers : Submit(s, m) /\ submitter'[s] # submitter[s]
    BY <1>3
  <2>2. /\ entered = NoCall /\ jobFile.written /\ UNCHANGED <<contract, files>>
        /\ submitter'[s] =
             [at |-> "sent", job |-> jobFile.job, releaseTime |-> jobFile.releaseTime,
              member |-> m, certificateBefore |-> currentCertificate]
    BY <2>1 DEF Submit
  <2>3. /\ jobFile.job \in Nat \X Nat /\ jobFile.releaseTime = jobFile.job[1]
        /\ committeeFrozen
    BY <2>2 DEF RecordInv, FilesInv, DeploymentInv, NoFile
  <2>4. ReadAt(currentCertificate, Len(events)) /\ Len(Log) = Len(events) /\ Len(Log) \in Nat
    BY <2>2, <2>3, ReadingFacts, LogFacts DEF RecordInv
  <2>5. Log' = Log
    BY <2>2, LogKept DEF contract, penalties
  <2>6. SlashedBy(Len(events))' = SlashedBy(Len(events))
    BY <2>2, <2>5 DEF SlashedBy, contract, penalties
  <2>7. currentCertificate = CoverWithout(SlashedBy(Len(events))')
    BY <2>4, <2>6 DEF ReadAt
  <2>. DEFINE certificate == currentCertificate
  <2>8. certificate = CoverWithout(SlashedBy(Len(events))')
    BY <2>7
  <2>9. /\ submitter'[s].at = "sent" /\ submitter'[s].certificateBefore = certificate
        /\ submitter'[s].job = jobFile.job /\ submitter'[s].releaseTime = jobFile.releaseTime
        /\ submitter'[s].member = m
    BY <2>2
  <2>10. Len(events)' = Len(events) /\ jobFile' = jobFile
    BY <2>2 DEF contract, penalties, files
  <2>. HIDE DEF certificate
  <2>11. \E j \in 0 .. Len(Log') : ReadAt(submitter[s].certificateBefore, j)'
    BY <2>4, <2>5, <2>8, <2>9, <2>10 DEF ReadAt, CoverWithout, BondsWithout
  <2>12. QED
    BY <2>2, <2>3, <2>9, <2>10, <2>11 DEF SubmitterInv
<1>4. CASE MineSlash(s)
  <2>. DEFINE run == submitter[s]
              m == run.member
              r == [member |-> m, caller |-> Wallet[s], amount |-> Bond, observedAt |-> now]
  <2>1. /\ run.at = "sent"
        /\ SlashEarlyShare(Wallet[s], [job |-> run.job, member |-> m])
        /\ submitter' = [submitter EXCEPT ![s] =
             [at |-> "mined", job |-> run.job, releaseTime |-> run.releaseTime,
              member |-> m, certificateBefore |-> run.certificateBefore,
              observedAt |-> now, success |-> TRUE]]
        /\ UNCHANGED files
    BY <1>4 DEF MineSlash, SlashMined
  <2>2. Slashing(Wallet[s], s) /\ Wallet[s] \in Callers
    BY <2>1 DEF Slashing, Callers
  <2>3. r \in LogRecords /\ Log' = Append(Log, r) /\ UNCHANGED jobs
    BY <2>2, SlashFacts
  <2>4. Log \in Seq(LogRecords) /\ Len(Log) \in Nat
    BY LogFacts DEF RecordInv
  <2>5. /\ jobFile.written
        /\ run.job \in Nat \X Nat /\ run.releaseTime = run.job[1] /\ m \in Keypers
    BY <2>1 DEF RecordInv, RunsInv, SubmitterInv
  <2>6. PICK j \in 0 .. Len(Log) : ReadAt(run.certificateBefore, j)
    BY <2>1 DEF RecordInv, RunsInv, SubmitterInv
  <2>7. JobExists(run.job) /\ now < run.job[1] /\ now \in Nat
    BY <2>1 DEF SlashEarlyShare, MaySlash, RecordInv, BondsInv
  <2>8. submitter'[s] =
             [at |-> "mined", job |-> run.job, releaseTime |-> run.releaseTime,
              member |-> m, certificateBefore |-> run.certificateBefore,
              observedAt |-> now, success |-> TRUE]
    BY <2>1 DEF RecordInv, RunsInv
  <2>9. /\ submitter'[s].at = "mined" /\ submitter'[s].job = run.job
        /\ submitter'[s].releaseTime = run.releaseTime /\ submitter'[s].member = m
        /\ submitter'[s].certificateBefore = run.certificateBefore
        /\ submitter'[s].observedAt = now
    BY <2>8
  <2>10. SlashedBy(j)' = SlashedBy(j)
    BY <1>1, HistoryStays
  <2>11. ReadAt(submitter[s].certificateBefore, j)'
    BY <2>6, <2>9, <2>10 DEF ReadAt, CoverWithout, BondsWithout
  <2>12. \E i \in j + 1 .. Len(Log') : SlashedAt(submitter[s], Wallet[s], i)'
    <3>1. Log'[Len(Log) + 1] = r /\ Len(Log) + 1 \in j + 1 .. Len(Log')
      <4>. HIDE DEF r
      <4>1. QED
        BY <2>3, <2>4
    <3>2. r = [member |-> submitter'[s].member, caller |-> Wallet[s], amount |-> Bond,
               observedAt |-> submitter'[s].observedAt]
      BY <2>9
    <3>. HIDE DEF r
    <3>3. QED
      BY <3>1, <3>2 DEF SlashedAt
  <2>13. EarlyShare(submitter[s])' /\ submitter'[s].observedAt \in Nat
    BY <2>3, <2>7, <2>9 DEF EarlyShare, JobExists
  <2>14. j \in 0 .. Len(Log') /\ jobFile'.written
    BY <1>1, <2>1, <2>4, <2>5, LogGrows DEF files
  <2>15. QED
    BY <2>5, <2>9, <2>11, <2>12, <2>13, <2>14 DEF SubmitterInv
<1>5. CASE \E gas \in GasCosts : WriteSlashing(s, gas)
  <2>1. submitter' = [submitter EXCEPT ![s] = Over]
    BY <1>5 DEF WriteSlashing
  <2>2. submitter'[s].at = "over"
    BY <2>1 DEF Over, RecordInv, RunsInv
  <2>3. QED
    BY <2>2 DEF SubmitterInv
<1>6. CASE RevertSlash(s)
  <2>. DEFINE run == submitter[s]
  <2>1. /\ run.at = "sent" /\ UNCHANGED <<contract, files>>
        /\ submitter'[s] =
             [at |-> "mined", job |-> run.job, releaseTime |-> run.releaseTime,
              member |-> run.member, certificateBefore |-> run.certificateBefore,
              observedAt |-> now, success |-> FALSE]
    BY <1>6 DEF RevertSlash, SlashMined, RecordInv, RunsInv
  <2>2. /\ submitter'[s].at = "mined" /\ submitter'[s].success = FALSE
        /\ submitter'[s].job = run.job /\ submitter'[s].releaseTime = run.releaseTime
        /\ submitter'[s].member = run.member /\ submitter'[s].observedAt = now
        /\ submitter'[s].certificateBefore = run.certificateBefore
    BY <2>1
  <2>3. /\ jobFile'.written /\ now \in Nat
        /\ run.job \in Nat \X Nat /\ run.releaseTime = run.job[1] /\ run.member \in Keypers
    BY <2>1 DEF RecordInv, RunsInv, SubmitterInv, BondsInv, files
  <2>4. PICK j \in 0 .. Len(Log) : ReadAt(run.certificateBefore, j)
    BY <2>1 DEF RecordInv, RunsInv, SubmitterInv
  <2>5. Log' = Log
    BY <2>1, LogKept DEF contract, penalties
  <2>6. SlashedBy(j)' = SlashedBy(j)
    BY <1>1, HistoryStays
  <2>7. ReadAt(submitter[s].certificateBefore, j)'
    BY <2>2, <2>4, <2>6 DEF ReadAt, CoverWithout, BondsWithout
  <2>8. QED
    BY <2>2, <2>3, <2>5, <2>7 DEF SubmitterInv
<1>7. ASSUME submitter'[s] # submitter[s]
      PROVE  \/ \E m \in Keypers : Submit(s, m)
             \/ MineSlash(s) \/ RevertSlash(s)
             \/ \E gas \in GasCosts : WriteSlashing(s, gas)
  <2>1. PICK t \in Submitters :
          \/ \E m \in Keypers : Submit(t, m)
          \/ MineSlash(t) \/ RevertSlash(t)
          \/ \E gas \in GasCosts : WriteSlashing(t, gas)
    BY <1>7 DEF RecordNext, recordVars, runs, Register, Freeze, WriteDeployment, ReadBlock,
                MineRelease, RevertRelease, WriteJob, FrontRun, Pay, TimePasses
  <2>2. \E v : submitter' = [submitter EXCEPT ![t] = v]
    <3>1. CASE \E m \in Keypers : Submit(t, m)
      BY <3>1 DEF Submit
    <3>2. CASE MineSlash(t) \/ RevertSlash(t)
      BY <3>2 DEF MineSlash, RevertSlash, SlashMined
    <3>3. CASE \E gas \in GasCosts : WriteSlashing(t, gas)
      BY <3>3 DEF WriteSlashing
    <3>4. QED
      BY <2>1, <3>1, <3>2, <3>3
  <2>3. t = s
    BY <1>7, <2>2
  <2>4. QED
    BY <2>1, <2>3
<1>8. QED
  BY <1>2, <1>3, <1>4, <1>5, <1>6, <1>7

\* The file of the deployment, and that of a release.
LEMMA DeploymentStep ==
  ASSUME RecordInv, [RecordNext]_recordVars
  PROVE  DeploymentInv'
<1>1. ContractStep
  BY ContractSteps
<1>2. /\ committeeFrozen => committeeFrozen' 
      /\ jobs # <<>> => jobs' # <<>>
      /\ reward' = reward
  BY <1>1, JobsStay, HistoryStays
<1>3. \/ deployment' = NoFile
      \/ /\ committeeFrozen'
         /\ deployment' = [written |-> TRUE, keypers |-> KeyperSet, bond |-> Bond,
                           callerReward |-> reward', totalBond |-> Cardinality(Keypers) * Bond,
                           certificate |-> CoverWithout({})]
  <2>1. CASE deployment' = deployment
    BY <1>2, <2>1 DEF RecordInv, FilesInv, DeploymentInv
  <2>2. CASE WriteDeployment
    <3>1. /\ committeeFrozen /\ deployment = NoFile /\ UNCHANGED contract
          /\ deployment' = [written |-> TRUE, keypers |-> signer, bond |-> Bond,
                            callerReward |-> reward, totalBond |-> totalBond,
                            certificate |-> currentCertificate]
      BY <2>2 DEF WriteDeployment, Files
    <3>2. slashed = {}
      <4>1. jobs = <<>>
        BY <3>1 DEF RecordInv, FilesInv, DeploymentInv, NoFile
      <4>2. Log = <<>>
        BY <4>1 DEF RecordInv, LogInv
      <4>3. QED
        BY <4>2 DEF RecordInv, LogInv
    <3>3. signer = [m \in Keypers |-> KeyperSet[m]] /\ bond = BondsWithout({})
      BY <3>1, <3>2 DEF RecordInv, BondsInv, BondsWithout
    <3>4. signer = KeyperSet
      BY <3>3, RecordAssumption
    <3>5. totalBond = Cardinality(Keypers) * Bond
      <4>1. bond \in [Keypers -> Nat] /\ (\A m \in Keypers : bond[m] = Bond)
            /\ IsFiniteSet(Keypers) /\ Bond \in Nat
        BY <3>3, RecordAssumption, SlasherAssumption DEF BondsWithout
      <4>2. QED
        BY <4>1, TotalConstant DEF totalBond
    <3>6. currentCertificate = CoverWithout({})
      BY <3>3 DEF currentCertificate, CoverWithout, threshold_cover
    <3>7. QED
      BY <3>1, <3>4, <3>5, <3>6 DEF contract, committee
  <2>3. QED
    BY <2>1, <2>2
       DEF RecordNext, recordVars, files, Register, Freeze, ReadBlock, MineRelease,
           RevertRelease, WriteJob, Submit, MineSlash, RevertSlash, FrontRun, Pay, WriteSlashing, TimePasses, Files
<1>4. jobs' # <<>> => deployment'.written
  <2>1. CASE jobs' # <<>> /\ jobs = <<>>
    <3>1. PICK o \in Openers : opener[o].at = "sent"
      BY <1>1, <2>1
         DEF ContractStep, RegisterMember, FreezeCommittee, Slashing, SlashEarlyShare,
             PayTreasury, Tick, contract, penalties, committee
    <3>2. deployment.written
      BY <3>1 DEF RecordInv, RunsInv
    <3>3. QED
      BY <3>2, FilesGrow
  <2>2. QED
    BY <2>1, FilesGrow DEF RecordInv, FilesInv, DeploymentInv
<1>5. /\ \/ jobFile' = NoFile
         \/ /\ jobFile'.written = TRUE
            /\ jobFile'.job \in Nat \X Nat /\ jobFile'.releaseTime = jobFile'.job[1]
      /\ jobFile'.written => deployment'.written
  <2>1. CASE jobFile' = jobFile
    BY <2>1, FilesGrow DEF RecordInv, FilesInv, DeploymentInv
  <2>2. CASE \E o \in Openers : WriteJob(o)
    <3>1. PICK o \in Openers : WriteJob(o)
      BY <2>2
    <3>2. /\ opener[o].at = "mined"
          /\ jobFile' = [written |-> TRUE, job |-> <<opener[o].releaseTime, Len(jobs)>>,
                         releaseTime |-> opener[o].releaseTime,
                         success |-> opener[o].success]
          /\ deployment' = deployment
      BY <3>1 DEF WriteJob, Files
    <3>3. deployment.written /\ opener[o].releaseTime \in Nat /\ Len(jobs) \in Nat
      BY <3>2 DEF RecordInv, RunsInv, BondsInv
    <3>4. QED
      BY <3>2, <3>3
  <2>3. QED
    BY <2>1, <2>2
       DEF RecordNext, recordVars, files, Register, Freeze, ReadBlock, MineRelease,
           RevertRelease, WriteDeployment, Submit, MineSlash, RevertSlash, FrontRun, Pay, WriteSlashing,
           TimePasses, Files
<1>6. QED
  BY <1>3, <1>4, <1>5 DEF DeploymentInv, CoverWithout, BondsWithout

\* The file of the slashing keeps saying what the log says.
LEMMA SlashingFileStep ==
  ASSUME RecordInv, [RecordNext]_recordVars
  PROVE  (slashing = NoFile \/ (slashing.written = TRUE /\ SlashingFacts))'
<1>1. ContractStep /\ evidence' = evidence /\ (jobFile.written => jobFile'.written)
  BY ContractSteps, FilesGrow
<1>2. /\ Len(Log) \in Nat /\ Len(events) \in Nat /\ Len(events) <= Len(Log)
      /\ Len(events') \in Nat /\ Len(events) <= Len(events')
      /\ \A i \in 1 .. Len(Log) : Log'[i] = Log[i]
      /\ reward' = reward
  BY <1>1, LogFacts, LogGrows, HistoryStays DEF RecordInv
<1>3. CASE slashing' = slashing
  <2>1. SUFFICES ASSUME slashing # NoFile
                 PROVE  slashing'.written = TRUE /\ SlashingFacts'
    BY <1>3
  <2>2. slashing.written = TRUE /\ SlashingFacts
    BY <2>1 DEF RecordInv, FilesInv
  <2>3. PICK j \in 0 .. Len(events), k \in 0 .. Len(events) :
          /\ ReadAt(slashing.certificateBefore, j) /\ ReadAt(slashing.certificateAfter, k)
          /\ slashing.success => \E i \in j + 1 .. k : SlashedAt(slashing, slashing.caller, i)
    BY <2>2 DEF SlashingFacts
  <2>5. SlashedBy(j)' = SlashedBy(j) /\ SlashedBy(k)' = SlashedBy(k)
    BY <1>1, <1>2, HistoryStays
  <2>6. ReadAt(slashing.certificateBefore, j)' /\ ReadAt(slashing.certificateAfter, k)'
    BY <1>3, <2>3, <2>5 DEF ReadAt, CoverWithout, BondsWithout
  <2>4. \A i \in j + 1 .. k :
          SlashedAt(slashing, slashing.caller, i) => SlashedAt(slashing, slashing.caller, i)'
    BY <1>2, <1>3 DEF SlashedAt
  <2>7. slashing'.success => \E i \in j + 1 .. k : SlashedAt(slashing, slashing.caller, i)'
    BY <1>3, <2>3, <2>4
  <2>8. slashing'.success => EarlyShare(slashing)'
    <3>. SUFFICES ASSUME slashing.success PROVE EarlyShare(slashing)'
      BY <1>3
    <3>1. EarlyShare(slashing) /\ slashing.job \in Nat \X Nat
      BY <2>2 DEF SlashingFacts
    <3>2. JobExists(slashing.job)'
      BY <1>1, <1>3, <3>1, HistoryStays DEF EarlyShare, JobExists
    <3>3. QED
      BY <1>3, <3>1, <3>2 DEF EarlyShare, JobExists
  <2>9. j \in 0 .. Len(events') /\ k \in 0 .. Len(events')
    BY <1>2
  <2>10. QED
    BY <1>1, <1>2, <1>3, <2>2, <2>6, <2>7, <2>8, <2>9 DEF SlashingFacts
<1>4. CASE \E s \in Submitters, gas \in GasCosts : WriteSlashing(s, gas)
  <2>1. PICK s \in Submitters, gas \in GasCosts : WriteSlashing(s, gas)
    BY <1>4
  <2>. DEFINE run == submitter[s]
              certificate == currentCertificate
  <2>2. /\ entered = NoCall /\ run.at = "mined"
        /\ slashing' = [written |-> TRUE, job |-> run.job, member |-> run.member,
              success |-> run.success, caller |-> Wallet[s], keyper |-> evidence.keypers[run.member],
              observedAt |-> run.observedAt,
              prematureBy |-> run.releaseTime - run.observedAt,
              certificateBefore |-> run.certificateBefore,
              certificateAfter |-> certificate,
              bondForfeited |-> deployment.bond, callerReward |-> deployment.callerReward,
              treasuryAmount |-> deployment.bond - deployment.callerReward,
              gasCost |-> gas,
              netGain |-> deployment.callerReward - gas]
        /\ UNCHANGED <<contract, deployment, jobFile>>
    BY <2>1 DEF WriteSlashing, Files
  <2>3. /\ jobFile.written
        /\ run.job \in Nat \X Nat /\ run.releaseTime = run.job[1] /\ run.member \in Keypers
        /\ run.success => EarlyShare(run)
        /\ run.observedAt \in Nat
    BY <2>2 DEF RecordInv, RunsInv, SubmitterInv
  <2>4. PICK j \in 0 .. Len(Log) :
          /\ ReadAt(run.certificateBefore, j)
          /\ run.success => \E i \in j + 1 .. Len(Log) : SlashedAt(run, Wallet[s], i)
    BY <2>2 DEF RecordInv, RunsInv, SubmitterInv
  <2>6. committeeFrozen /\ deployment.bond = Bond /\ deployment.callerReward = reward
    BY <2>3 DEF RecordInv, FilesInv, DeploymentInv, NoFile
  <2>7. PICK k \in Nat : k = Len(events)
    BY <1>2
  <2>8. ReadAt(certificate, k) /\ Len(Log) = k
    BY <2>2, <2>6, <2>7, ReadingFacts DEF RecordInv
  <2>. HIDE DEF certificate
  <2>9. Log' = Log /\ events' = events /\ jobs' = jobs
    BY <2>2, LogKept DEF contract, penalties
  <2>10. SlashedBy(j)' = SlashedBy(j) /\ SlashedBy(k)' = SlashedBy(k)
    BY <2>9 DEF SlashedBy
  <2>11. /\ slashing'.written = TRUE /\ slashing'.job = run.job /\ slashing'.member = run.member
         /\ slashing'.success = run.success
         /\ slashing'.caller = Wallet[s] /\ slashing'.keyper = evidence.keypers[run.member]
         /\ slashing'.observedAt = run.observedAt
         /\ slashing'.prematureBy = run.releaseTime - run.observedAt
         /\ slashing'.certificateBefore = run.certificateBefore
         /\ slashing'.certificateAfter = certificate
         /\ slashing'.bondForfeited = Bond /\ slashing'.callerReward = reward
         /\ slashing'.treasuryAmount = Bond - reward
         /\ slashing'.gasCost = gas /\ slashing'.netGain = reward - gas
    BY <2>2, <2>6
  <2>12. ReadAt(slashing.certificateBefore, j)' /\ ReadAt(slashing.certificateAfter, k)'
    BY <2>4, <2>8, <2>10, <2>11 DEF ReadAt, CoverWithout, BondsWithout
  <2>13. \A i \in j + 1 .. k :
           SlashedAt(run, Wallet[s], i) => SlashedAt(slashing, slashing.caller, i)'
    <3>1. \A i \in j + 1 .. k : SlashedAt(run, Wallet[s], i) <=>
            Log[i] = [member |-> run.member, caller |-> Wallet[s], amount |-> Bond,
                      observedAt |-> run.observedAt]
      BY DEF SlashedAt
    <3>2. QED
      BY <2>9, <2>11, <3>1 DEF SlashedAt
  <2>14. slashing'.success => EarlyShare(slashing)'
    BY <2>3, <2>9, <2>11 DEF EarlyShare, JobExists
  <2>15. /\ j \in 0 .. Len(events') /\ k \in 0 .. Len(events')
         /\ slashing'.success => \E c \in j + 1 .. k : SlashedAt(slashing, slashing.caller, c)'
    BY <1>2, <2>4, <2>7, <2>8, <2>9, <2>11, <2>13
  <2>16. gas \in Nat /\ jobFile'.written
    BY <1>1, <2>3, RecordAssumption
  <2>17. SlashingFacts'
    <3>1. \E a, b \in 0 .. Len(events') :
            /\ ReadAt(slashing.certificateBefore, a)' /\ ReadAt(slashing.certificateAfter, b)'
            /\ slashing'.success =>
                 \E c \in a + 1 .. b : SlashedAt(slashing, slashing.caller, c)'
      BY <2>12, <2>15
    <3>. HIDE DEF run
    <3>2. QED
      BY <1>1, <1>2, <2>3, <2>11, <2>14, <2>16, <3>1 DEF SlashingFacts
  <2>18. QED
    BY <2>11, <2>17
<1>5. QED
  BY <1>3, <1>4
     DEF RecordNext, recordVars, files, Register, Freeze, ReadBlock, MineRelease,
         RevertRelease, ReleaseMined, WriteJob, WriteDeployment, Submit, MineSlash, RevertSlash, FrontRun, Pay, TimePasses, Files

\* In the initial state there is nothing to record.
LEMMA RecordInvInit ==
  ASSUME RecordInit
  PROVE  RecordInv
<1>. USE DEF RecordInit, SlasherInit
<1>1. Log = <<>>
  BY DEF Log
<1>2. signer = <<>> /\ bond = <<>> /\ DOMAIN signer = {}
  OBVIOUS
<1>3. BondsInv
  <2>1. signer = [m \in DOMAIN signer |-> KeyperSet[m]]
    BY <1>2
  <2>2. bond = [m \in DOMAIN signer |-> IF m \in slashed THEN 0 ELSE Bond]
    BY <1>2
  <2>3. reward \in Nat /\ now \in Nat /\ jobs = <<>> /\ committeeFrozen = FALSE
    BY SlasherAssumption
  <2>4. jobs \in Seq(Nat)
    BY <2>3
  <2>. HIDE DEF RecordInit, SlasherInit
  <2>5. QED
    BY <1>2, <2>1, <2>2, <2>3, <2>4 DEF BondsInv
<1>4. LogInv
  BY <1>1 DEF LogInv
<1>5. PenaltyInv
  <2>1. totalBond = 0
    <3>1. Units(bond) = {}
      BY <1>2 DEF Units
    <3>2. QED
      BY <3>1, FS_EmptySet DEF totalBond, Total
  <2>2. reward \in Nat /\ Bond \in Nat
    BY SlasherAssumption, RecordAssumption
  <2>3. QED
    BY <1>1, <2>1, <2>2, FS_EmptySet DEF PenaltyInv, NoCall
<1>6. RunsInv
  BY DEF RunsInv, SubmitterInv, Ready
<1>7. FilesInv
  BY DEF FilesInv, DeploymentInv, NoFile
<1>8. QED
  BY <1>3, <1>4, <1>5, <1>6, <1>7 DEF RecordInv

\* The invariant of the slasher and its scripts: every step of the contract, of a
\* run of a script and of the callers around them keeps it.
THEOREM RecordInvariant == RecordSpec => []RecordInv
<1>1. RecordInit => RecordInv
  BY RecordInvInit
<1>2. RecordInv /\ [RecordNext]_recordVars => RecordInv'
  <2>1. SUFFICES ASSUME RecordInv, [RecordNext]_recordVars
                 PROVE  RecordInv'
    OBVIOUS
  <2>2. ContractStep
    BY <2>1, ContractSteps
  <2>3. BondsInv' /\ LogInv' /\ PenaltyInv'
    BY <2>1, <2>2, BondsStep, LogStep, PenaltyStep
  <2>4. RunsInv'
    <3>1. DOMAIN opener' = Openers /\ DOMAIN submitter' = Submitters
      BY <2>1
         DEF RecordInv, RunsInv, RecordNext, recordVars, runs, Register, Freeze, ReadBlock,
             MineRelease, RevertRelease, ReleaseMined, WriteJob, WriteDeployment, Submit,
             MineSlash, RevertSlash, SlashMined, FrontRun, Pay, WriteSlashing, TimePasses
    <3>2. \A s \in Submitters : SubmitterInv(s)'
      BY <2>1, SubmittersStep
    <3>3. QED
      BY <2>1, <3>1, <3>2, OpenersStep DEF RunsInv
  <2>5. FilesInv'
    BY <2>1, DeploymentStep, SlashingFileStep DEF FilesInv
  <2>6. QED
    BY <2>3, <2>4, <2>5 DEF RecordInv
<1>3. QED
  BY <1>1, <1>2, PTL DEF RecordSpec

\* The contract holds the bonds and what the running call still owes, and every
\* penalty was paid out once, the reward to its caller and the rest to the treasury.
THEOREM PenaltiesOnce == RecordSpec => []PenaltiesPaidOnce
<1>1. RecordInv => PenaltiesPaidOnce
  <2>1. SUFFICES ASSUME RecordInv
                 PROVE  PenaltiesPaidOnce
    OBVIOUS
  <2>2. /\ balance = totalBond + entered.due /\ Cardinality(slashed) = Len(Log)
        /\ paid.callers = reward * Len(Log) /\ paid.treasury = (Bond - reward) * Len(events)
    BY <2>1 DEF RecordInv, PenaltyInv
  <2>3. ASSUME entered = NoCall
        PROVE  /\ paid.callers + paid.treasury = Total([i \in DOMAIN events |-> events[i].amount])
               /\ slashed = {events[i].member : i \in DOMAIN events}
               /\ Cardinality(slashed) = Len(events)
    <3>1. Log = events /\ events \in Seq(LogRecords) /\ Len(events) \in Nat
          /\ DOMAIN events = 1 .. Len(events)
      BY <2>1, <2>3, LogFacts DEF RecordInv
    <3>2. Bond \in Nat /\ reward \in Nat
      BY <2>1, RecordAssumption DEF RecordInv, BondsInv
    <3>. DEFINE f == [i \in DOMAIN events |-> events[i].amount]
                n == Len(events)
    <3>3. Total(f) = n * Bond
      <4>1. \A i \in 1 .. n : events[i] \in LogRecords
        BY <3>1
      <4>2. \A i \in 1 .. n : f[i] = Bond
        BY <3>1, <4>1 DEF LogRecords
      <4>3. IsFiniteSet(1 .. n) /\ Cardinality(1 .. n) = n
        BY <3>1, FS_Interval
      <4>4. f \in [1 .. n -> Nat]
        BY <3>1, <3>2, <4>2
      <4>. HIDE DEF f
      <4>5. QED
        BY <3>2, <4>2, <4>3, <4>4, TotalConstant
    <3>4. reward * n + (Bond - reward) * n = n * Bond
      BY <3>1, <3>2
    <3>5. slashed = {events[i].member : i \in DOMAIN events}
      BY <2>1, <3>1 DEF RecordInv, LogInv
    <3>6. QED
      BY <2>2, <3>1, <3>3, <3>4, <3>5
  <2>4. QED
    BY <2>2, <2>3 DEF PenaltiesPaidOnce
<1>2. QED
  BY <1>1, RecordInvariant, PTL

\* What the files say of a slashing that succeeded, if the reading was not disturbed:
\* when nobody was slashed before the first reading, and nobody but the recorded
\* member before the second, the recorded slashing is the first of the log; and the
\* readings tell this.
LEMMA RecordedIsFirst ==
  ASSUME RecordInv, slashing # NoFile, slashing.success
  PROVE  LET R == slashing
             m == slashing.member
         IN  /\ m \in Keypers
             /\ \/ /\ R.certificateBefore = CoverWithout({})
                   /\ R.certificateAfter = CoverWithout({m})
                \/ Len(events) = 1
                => /\ Len(events) >= 1
                   /\ events[1] = [member |-> m, caller |-> R.caller, amount |-> Bond,
                                   observedAt |-> R.observedAt]
                   /\ R.certificateBefore = CoverWithout({})
                   /\ R.certificateAfter = CoverWithout({m})
<1>. DEFINE m == slashing.member
<1>1. SlashingFacts /\ m \in Keypers
  BY DEF RecordInv, FilesInv, SlashingFacts
<1>2. PICK j \in 0 .. Len(events), k \in 0 .. Len(events) :
        /\ slashing.certificateBefore = CoverWithout(SlashedBy(j))
        /\ slashing.certificateAfter = CoverWithout(SlashedBy(k))
        /\ slashing.success => \E i \in j + 1 .. k : SlashedAt(slashing, slashing.caller, i)
  BY <1>1 DEF SlashingFacts, ReadAt
<1>3. PICK i \in j + 1 .. k :
        Log[i] = [member |-> m, caller |-> slashing.caller, amount |-> Bond,
                  observedAt |-> slashing.observedAt]
  BY <1>2 DEF SlashedAt
<1>4. /\ Len(events) \in Nat /\ Len(events) <= Len(Log) /\ Len(Log) \in Nat
      /\ DOMAIN Log = 1 .. Len(Log)
      /\ \A l \in 1 .. Len(events) : Log[l] = events[l]
      /\ \A l \in 1 .. Len(Log) : Log[l].member \in Keypers
  <2>1. Log \in Seq(LogRecords)
    BY LogFacts DEF RecordInv
  <2>2. \A l \in 1 .. Len(Log) : Log[l] \in LogRecords
    BY <2>1
  <2>3. \A l \in 1 .. Len(Log) : Log[l].member \in Keypers
    BY <2>2 DEF LogRecords
  <2>4. QED
    BY <2>3, LogFacts DEF RecordInv
<1>5. Bond > 0
  <2>1. Keypers # {}
    BY SlasherAssumption, FS_EmptySet
  <2>2. committeeFrozen
    BY <1>1 DEF SlashingFacts, RecordInv, FilesInv, DeploymentInv, NoFile
  <2>3. Bond > reward /\ reward \in Nat
    BY <2>1, <2>2 DEF RecordInv, BondsInv
  <2>4. QED
    BY <2>3, RecordAssumption
<1>6. SlashedBy(0) = {} /\ SlashedBy(1) = {Log[1].member}
  BY DEF SlashedBy
<1>7. ASSUME j = 0, k = 1
      PROVE  /\ Len(events) >= 1
             /\ events[1] = [member |-> m, caller |-> slashing.caller, amount |-> Bond,
                             observedAt |-> slashing.observedAt]
             /\ slashing.certificateBefore = CoverWithout({})
             /\ slashing.certificateAfter = CoverWithout({m})
  <2>1. i = 1 /\ Len(events) >= 1
    BY <1>2, <1>3, <1>4, <1>7
  <2>2. Log[1].member = m /\ Log[1] = events[1]
    BY <1>3, <1>4, <2>1
  <2>3. QED
    BY <1>2, <1>3, <1>6, <1>7, <2>1, <2>2
<1>8. CASE Len(events) = 1
  BY <1>1, <1>2, <1>3, <1>7, <1>8
<1>9. CASE /\ slashing.certificateBefore = CoverWithout({})
           /\ slashing.certificateAfter = CoverWithout({m})
  <2>1. SlashedBy(j) \in SUBSET Keypers /\ SlashedBy(k) \in SUBSET Keypers
    BY <1>2, <1>4 DEF SlashedBy
  <2>2. j = 0
    <3>1. SUFFICES ASSUME j >= 1
                   PROVE  FALSE
      BY <1>2
    <3>2. Log[1].member \in SlashedBy(j)
      BY <3>1, <1>2 DEF SlashedBy
    <3>3. QED
      BY <1>2, <1>5, <1>9, <2>1, <3>2, CoverTells
  <2>3. m \in SlashedBy(k)
    BY <1>2, <1>3 DEF SlashedBy
  <2>4. SlashedBy(k) = {m}
    BY <1>2, <1>5, <1>9, <2>1, <2>3, CoverTells
  <2>5. k = 1
    <3>1. SUFFICES ASSUME k >= 2
                   PROVE  FALSE
      BY <1>2, <1>3
    <3>2. Log[1].member = m /\ Log[2].member = m
      <4>1. Log[1].member \in SlashedBy(k) /\ Log[2].member \in SlashedBy(k)
        BY <3>1, <1>2 DEF SlashedBy
      <4>2. QED
        BY <2>4, <4>1
    <3>3. 1 \in DOMAIN Log /\ 2 \in DOMAIN Log
      BY <1>2, <1>4, <3>1
    <3>4. QED
      BY <3>2, <3>3 DEF RecordInv, LogInv
  <2>6. QED
    BY <1>1, <1>7, <2>2, <2>5
<1>10. QED
  BY <1>1, <1>8, <1>9

\* The offline verifier accepts the files exactly when they tell the truth about
\* the contract's first slashing, whatever ran between the two readings, and whatever
\* files the scripts left of transactions that reverted.
THEOREM AcceptedIsTrue == RecordSpec => []AcceptedRecordIsTrue
<1>1. RecordInv => AcceptedRecordIsTrue
  <2>1. SUFFICES ASSUME RecordInv, slashing # NoFile
                 PROVE  AcceptedRecordIsTrue
    BY DEF AcceptedRecordIsTrue, build_certificate, NoFile
  <2>. DEFINE m == slashing.member
  <2>2. SlashingFacts /\ slashing.written = TRUE
    BY <2>1 DEF RecordInv, FilesInv
  <2>3. /\ deployment = [written |-> TRUE, keypers |-> KeyperSet, bond |-> Bond,
                         callerReward |-> reward, totalBond |-> Cardinality(Keypers) * Bond,
                         certificate |-> CoverWithout({})]
        /\ committeeFrozen /\ jobFile.written = TRUE /\ jobFile.releaseTime = jobFile.job[1]
    BY <2>1, <2>2 DEF SlashingFacts, RecordInv, FilesInv, DeploymentInv, NoFile
  <2>4. Bond \in Nat /\ reward \in Nat /\ Bond > reward
    <3>1. Keypers # {}
      BY SlasherAssumption, FS_EmptySet
    <3>2. QED
      BY <2>1, <2>3, <3>1, RecordAssumption DEF RecordInv, BondsInv
  <2>5. m \in Keypers
    BY <2>2 DEF SlashingFacts
  <2>6. /\ threshold_cover(BondsBefore) = CoverWithout({})
        /\ threshold_cover(BondsAfter) = CoverWithout({m})
    <3>1. BondsBefore = BondsWithout({})
      BY <2>3 DEF BondsBefore, BondsWithout
    <3>2. BondsAfter = BondsWithout({m})
      BY <2>3, <2>5 DEF BondsBefore, BondsAfter, BondsWithout
    <3>3. QED
      BY <3>1, <3>2 DEF CoverWithout
  <2>7. CoverWithout({}) - CoverWithout({m}) = Bond
    BY <2>4, <2>5, CoverTells
  <2>8. ASSUME build_certificate
        PROVE  RecordIsTrue
    <3>1. /\ slashing.certificateBefore = CoverWithout({})
          /\ slashing.certificateAfter = CoverWithout({m})
          /\ slashing.success
      BY <2>6, <2>8 DEF build_certificate, CertificatesMatch, TransactionsSucceeded
    <3>2. events[1] = [member |-> m, caller |-> slashing.caller, amount |-> Bond,
                       observedAt |-> slashing.observedAt]
      BY <2>1, <3>1, RecordedIsFirst
    <3>3. reward # 0 => slashing.gasCost < reward
      BY <2>2, <2>4, <2>8 DEF build_certificate, RewardCoversGas, SlashingFacts
    <3>4. FeeExceedsBond <=> slashing.gasCost > Bond
      BY <2>7, <3>1 DEF FeeExceedsBond
    <3>5. slashing.bondForfeited = Bond /\ EarlyShare(slashing)
      BY <2>2, <3>1 DEF SlashingFacts
    <3>. HIDE DEF m
    <3>6. QED
      BY <3>2, <3>3, <3>4, <3>5 DEF RecordIsTrue, EarlyShare, m
  <2>9. ASSUME slashing.written, slashing.success, Len(events) = 1, entered = NoCall,
               jobFile.job = slashing.job, jobFile.success,
               evidence.keypers = KeyperSet, evidence.valid = Keypers,
               reward # 0 => slashing.gasCost < reward
        PROVE  build_certificate
    <3>1. /\ slashing.certificateBefore = CoverWithout({})
          /\ slashing.certificateAfter = CoverWithout({m})
      BY <2>1, <2>9, RecordedIsFirst
    <3>2. CertificatesMatch
      BY <2>3, <2>6, <3>1 DEF CertificatesMatch
    <3>3. IdentitiesAlign
      BY <2>2, <2>3, <2>9 DEF IdentitiesAlign, SlashingFacts
    <3>4. ObservedEarly
      BY <2>2, <2>3, <2>9 DEF ObservedEarly, SlashingFacts, EarlyShare
    <3>5. reward # 0 => RewardCoversGas
      BY <2>2, <2>3, <2>4, <2>9 DEF RewardCoversGas, SlashingFacts
    <3>6. QED
      BY <2>2, <2>3, <2>9, <3>2, <3>3, <3>4, <3>5 DEF build_certificate, TransactionsSucceeded
  <2>10. QED
    BY <2>8, <2>9 DEF AcceptedRecordIsTrue
<1>2. QED
  BY <1>1, RecordInvariant, PTL

-----------------------------------------------------------------------------
(* The toy contract implements the certified world.                        *)

\* The inductive invariant: the order succeeds with the last share, credits exist
\* only then, and a running withdrawal is one withdrawal away from the state before
\* it, which every call of the callback leaves alone.
SuccessInv ==
  /\ opened \in BOOLEAN /\ successful \in BOOLEAN
  /\ accepted \subseteq Members
  /\ successful <=> accepted = Members
  /\ output # NoOutput <=> successful
  /\ accepted # {} => opened
  /\ DOMAIN credit = Members /\ DOMAIN member = Members
  /\ \A m \in Members : credit[m] # 0 => successful

\* The state before a withdrawal is that of the contract, but for the payment.
PaymentInv ==
  LET b == calling.before
      m == calling.member
  IN  calling # Idle =>
        /\ successful
        /\ m \in Members
        /\ accepted = b.accepted /\ successful = b.successful
        /\ output = b.output /\ route = b.route
        /\ b.credit[m] # 0 /\ b.exchange >= b.credit[m]
        /\ exchange = b.exchange - b.credit[m]
        /\ member = [b.member EXCEPT ![m] = @ + b.credit[m]]
        /\ credit = [b.credit EXCEPT ![m] = 0]
        /\ DOMAIN b.credit = Members /\ DOMAIN b.member = Members

ToyInv == SuccessInv /\ PaymentInv

\* The shape of a running withdrawal and of an output tells them from none.
LEMMA ToyShapes ==
  ASSUME NEW a, NEW b, NEW c
  PROVE  /\ [member |-> a, before |-> b] # Idle
         /\ [resource |-> a, shares |-> b, buyer |-> c] # NoOutput
<1>1. /\ "before" \in DOMAIN [member |-> a, before |-> b] /\ "before" \notin DOMAIN Idle
      /\ "shares" \in DOMAIN [resource |-> a, shares |-> b, buyer |-> c]
      /\ "shares" \notin DOMAIN NoOutput
  BY DEF Idle, NoOutput
<1>2. QED
  BY <1>1

\* Members is not empty, and no member has accepted when the order opens.
LEMMA MembersExist == Members # {}
BY ToyAssumption, FS_EmptySet

\* Opening the order opens it in the world.
LEMMA OpenStep ==
  ASSUME ToyInv, NEW sender, NEW value, NEW resource, NEW shares,
         Open(sender, value, resource, shares)
  PROVE  ToyInv' /\ World!Open
<1>1. calling = Idle /\ calling' = Idle
  <2>1. calling = Idle
    BY MembersExist DEF ToyInv, SuccessInv, PaymentInv, Open
  <2>2. QED
    BY <2>1 DEF Open
<1>2. ToyInv'
  BY <1>1 DEF ToyInv, SuccessInv, PaymentInv, Open, NoOutput, Idle
<1>3. World!Open
  BY <1>1 DEF Open, World!Open, ExactValue, Before
<1>4. QED
  BY <1>2, <1>3

\* A share that is accepted is accepted in the world, where none is after success.
LEMMA SubmitStep ==
  ASSUME ToyInv, NEW sender, NEW share, SubmitShare(sender, share)
  PROVE  ToyInv' /\ sender \in Members /\ World!Submit(sender)
<1>1. /\ opened /\ sender \in Members /\ sender \notin accepted /\ ~successful
  BY DEF ToyInv, SuccessInv, SubmitShare, ReplayedShare
<1>2. calling = Idle /\ calling' = Idle
  BY <1>1 DEF ToyInv, PaymentInv, SubmitShare
<1>3. accepted' = accepted \cup {sender} /\ output = NoOutput
  BY <1>1 DEF SubmitShare, ToyInv, SuccessInv
<1>4. CASE accepted' = Members
  <2>1. successful' = TRUE /\ credit' = Amount /\ output' # NoOutput
    BY <1>4, ToyShapes DEF SubmitShare
  <2>2. ToyInv'
    BY <1>2, <1>3, <1>4, <2>1, ToyAssumption
       DEF ToyInv, SuccessInv, PaymentInv, SubmitShare, NoOutput, Idle
  <2>3. World!Submit(sender)
    BY <1>1, <1>2, <1>4, <2>1 DEF SubmitShare, World!Submit, Before, NoOutput
  <2>4. QED
    BY <1>1, <2>2, <2>3
<1>5. CASE accepted' # Members
  <2>1. UNCHANGED <<successful, credit, output>>
    BY <1>5 DEF SubmitShare
  <2>2. ToyInv'
    BY <1>1, <1>2, <1>3, <1>5, <2>1 DEF ToyInv, SuccessInv, PaymentInv, SubmitShare, NoOutput, Idle
  <2>3. World!Submit(sender)
    BY <1>1, <1>2, <1>5, <2>1 DEF SubmitShare, World!Submit, Before, NoOutput
  <2>4. QED
    BY <1>1, <2>2, <2>3
<1>6. QED
  BY <1>4, <1>5

\* A withdrawal that has not returned is no step of the world,
LEMMA WithdrawStep ==
  ASSUME ToyInv, NEW sender, WithdrawCredit(sender)
  PROVE  ToyInv' /\ UNCHANGED World!worldVars
<1>1. /\ sender \in Members /\ credit[sender] # 0 /\ calling = Idle /\ successful
      /\ exchange >= credit[sender]
  BY DEF ToyInv, SuccessInv, WithdrawCredit, withdrawing
<1>2. calling' = [member |-> sender, before |-> Before] /\ calling' # Idle
  BY ToyShapes DEF WithdrawCredit
<1>3. Before = [accepted |-> accepted, successful |-> successful, output |-> output,
                credit |-> credit, exchange |-> exchange, member |-> member,
                route |-> route]
  BY <1>1 DEF Before
<1>4. UNCHANGED World!worldVars
  <2>1. Before' = Before
    BY <1>2 DEF Before, Idle
  <2>2. QED
    BY <2>1 DEF WithdrawCredit, World!worldVars, NoOutput
<1>5. SuccessInv'
  BY <1>1 DEF ToyInv, SuccessInv, WithdrawCredit, NoOutput
<1>6. PaymentInv'
  <2>1. /\ calling'.member = sender /\ calling'.before.accepted = accepted
        /\ calling'.before.successful = successful /\ calling'.before.output = output
        /\ calling'.before.credit = credit /\ calling'.before.exchange = exchange
        /\ calling'.before.member = member /\ calling'.before.route = route
    BY <1>2, <1>3
  <2>2. QED
    BY <1>1, <2>1 DEF PaymentInv, ToyInv, SuccessInv, WithdrawCredit
<1>7. QED
  BY <1>4, <1>5, <1>6 DEF ToyInv

\* one that returns is the world's withdrawal,
LEMMA ReturnStep ==
  ASSUME ToyInv, TransferReturns
  PROVE  ToyInv' /\ \E m \in Members : World!Withdraw(m)
<1>1. calling # Idle /\ calling' = Idle
  BY DEF TransferReturns, withdrawing
<1>2. ToyInv'
  BY <1>1 DEF ToyInv, SuccessInv, PaymentInv, TransferReturns, NoOutput, Idle
<1>3. World!Withdraw(calling.member) /\ calling.member \in Members
  BY <1>1 DEF TransferReturns, World!Withdraw, Before, NoOutput, ToyInv, PaymentInv, Idle
<1>4. QED
  BY <1>2, <1>3

\* and one whose transfer fails leaves the world as it was.
LEMMA FailStep ==
  ASSUME ToyInv, TransferFails
  PROVE  ToyInv' /\ UNCHANGED World!worldVars
<1>1. calling # Idle /\ calling' = Idle
  BY DEF TransferFails, withdrawing
<1>2. ToyInv'
  BY <1>1 DEF ToyInv, SuccessInv, PaymentInv, TransferFails, NoOutput, Idle
<1>3. UNCHANGED World!worldVars
  BY <1>1 DEF TransferFails, World!worldVars, Before, NoOutput, Idle
<1>4. QED
  BY <1>2, <1>3

\* Every step of the contract keeps the invariant and is a step of the world or none.
LEMMA ToyStep ==
  ASSUME ToyInv, [ToyNext]_toyVars
  PROVE  ToyInv' /\ [World!Next]_World!worldVars
<1>1. CASE UNCHANGED toyVars
  <2>1. ToyInv'
    BY <1>1 DEF toyVars, ToyInv, SuccessInv, PaymentInv, NoOutput, Idle
  <2>2. UNCHANGED World!worldVars
    BY <1>1 DEF toyVars, World!worldVars, Before, NoOutput, Idle
  <2>3. QED
    BY <2>1, <2>2
<1>2. CASE \E sender, value, resource, shares : Open(sender, value, resource, shares)
  BY <1>2, OpenStep DEF World!Next
<1>3. CASE \E sender, share : SubmitShare(sender, share)
  BY <1>3, SubmitStep DEF World!Next
<1>4. CASE \E sender : WithdrawCredit(sender)
  BY <1>4, WithdrawStep
<1>5. CASE TransferReturns
  BY <1>5, ReturnStep DEF World!Next
<1>6. CASE TransferFails
  BY <1>6, FailStep
<1>7. QED
  BY <1>1, <1>2, <1>3, <1>4, <1>5, <1>6 DEF ToyNext

\* In the initial state nothing was paid, credited or accepted.
LEMMA ToyBegins ==
  ASSUME ToyInit
  PROVE  ToyInv /\ World!Init
<1>1. ToyInv
  BY MembersExist DEF ToyInit, ToyInv, SuccessInv, PaymentInv
<1>2. World!Init
  BY DEF ToyInit, World!Init, Before
<1>3. QED
  BY <1>1, <1>2

\* The contract behaves as the certified world: a call that re-enters during a
\* payment changes nothing, a failed payment leaves no trace, and a share replayed
\* after a withdrawal never restores a credit.
THEOREM ToyImplementsWorld == ToySpec => ImplementsWorld
<1>1. ToyInit => ToyInv /\ World!Init
  BY ToyBegins
<1>2. ToyInv /\ [ToyNext]_toyVars => ToyInv' /\ [World!Next]_World!worldVars
  BY ToyStep
<1>3. QED
  BY <1>1, <1>2, PTL DEF ToySpec, ImplementsWorld, World!Spec

-----------------------------------------------------------------------------
(* What the script certifies of the world.                                 *)

\* The world's sums are those of module Amounts.
LEMMA SameTotal == \A f : World!Total(f) = Total(f)
<1>1. \A f : World!Units(f) = Units(f)
  BY DEF World!Units, World!UnitsAt, Units, UnitsAt
<1>2. \A S : World!Cardinality(S) = Cardinality(S)
  BY ZenonT(20) DEF World!Cardinality, Cardinality
<1>3. QED
  BY <1>1, <1>2 DEF World!Total, Total

\* The certified floor is positive and covers each amount.
LEMMA FloorFacts ==
  /\ World!Floor \in Nat /\ World!Floor > 0
  /\ \A m \in Members : Amount[m] \in Nat /\ Amount[m] > 0 /\ Amount[m] <= World!Floor
<1>1. Amount \in [Members -> Nat] /\ \A m \in Members : Amount[m] > 0
  BY ToyAssumption
<1>2. World!Floor \in Nat /\ \A m \in Members : Amount[m] <= World!Floor
  <2>1. World!Floor = Total(Amount)
    BY SameTotal DEF World!Floor
  <2>2. QED
    BY <1>1, <2>1, ToyAssumption, TotalType, KeyAtMostTotal
<1>3. PICK m \in Members : TRUE
  BY MembersExist
<1>4. QED
  BY <1>1, <1>2, <1>3

\* Two different members are all of them.
LEMMA TwoMembers ==
  ASSUME NEW m \in Members, NEW n \in Members, m # n
  PROVE  {m, n} = Members
<1>1. Cardinality({m, n}) = 2 /\ IsFiniteSet({m, n})
  <2>1. {m} \cup {n} = {m, n} /\ n \notin {m} /\ IsFiniteSet({m}) /\ Cardinality({m}) = 1
    BY FS_Singleton
  <2>2. IsFiniteSet({m} \cup {n}) /\ Cardinality({m} \cup {n}) = 2
    BY <2>1, FS_AddElement
  <2>3. QED
    BY <2>1, <2>2
<1>2. QED
  BY <1>1, ToyAssumption, FS_Subset

\* One member is not all of them.
LEMMA OneMember ==
  ASSUME NEW m \in Members
  PROVE  {m} # Members
BY FS_Singleton, ToyAssumption

\* What Append does to a sequence.
LEMMA AppendFacts ==
  ASSUME NEW T, NEW s \in Seq(T), NEW x \in T
  PROVE  /\ Append(s, x) \in Seq(T)
         /\ Len(Append(s, x)) = Len(s) + 1
         /\ Append(s, x)[Len(s) + 1] = x
         /\ \A i \in 1 .. Len(s) : Append(s, x)[i] = s[i]
OBVIOUS

\* A route of at most two actions and one more.
LEMMA AppendTo ==
  ASSUME NEW a, NEW b, NEW c
  PROVE  /\ Append(<<>>, a) = <<a>>
         /\ Append(<<a>>, b) = <<a, b>>
         /\ Append(<<a, b>>, c) = <<a, b, c>>
<1>. DEFINE T == {a, b, c}
<1>1. Append(<<>>, a) = <<a>>
  OBVIOUS
<1>2. Append(<<a>>, b) = <<a, b>>
  <2>. DEFINE s == <<a>>
              t == Append(s, b)
  <2>1. s \in Seq(T) /\ b \in T
    OBVIOUS
  <2>. HIDE DEF s, T
  <2>2. /\ t \in Seq(T) /\ Len(t) = Len(s) + 1 /\ t[Len(s) + 1] = b
        /\ \A i \in 1 .. Len(s) : t[i] = s[i]
    BY <2>1, AppendFacts
  <2>. HIDE DEF t
  <2>3. Len(s) = 1 /\ s[1] = a
    BY DEF s
  <2>4. Len(t) = 2 /\ t[1] = a /\ t[2] = b
    BY <2>2, <2>3
  <2>5. t = <<t[1], t[2]>>
    <3>1. t \in Seq(T) /\ Len(t) = 2
      BY <2>2, <2>4
    <3>2. QED
      BY <3>1
  <2>6. QED
    BY <2>4, <2>5 DEF s, t
<1>3. Append(<<a, b>>, c) = <<a, b, c>>
  <2>. DEFINE s == <<a, b>>
              t == Append(s, c)
  <2>1. s \in Seq(T) /\ c \in T
    OBVIOUS
  <2>. HIDE DEF s, T
  <2>2. /\ t \in Seq(T) /\ Len(t) = Len(s) + 1 /\ t[Len(s) + 1] = c
        /\ \A i \in 1 .. Len(s) : t[i] = s[i]
    BY <2>1, AppendFacts
  <2>. HIDE DEF t
  <2>3. Len(s) = 2 /\ s[1] = a /\ s[2] = b
    BY DEF s
  <2>4. Len(t) = 3 /\ t[1] = a /\ t[2] = b /\ t[3] = c
    BY <2>2, <2>3
  <2>5. t = <<t[1], t[2], t[3]>>
    <3>1. t \in Seq(T) /\ Len(t) = 3
      BY <2>2, <2>4
    <3>2. QED
      BY <3>1
  <2>6. QED
    BY <2>4, <2>5 DEF s, t
<1>4. QED
  BY <1>1, <1>2, <1>3

\* The outflow of a variant is the floor less what comes back, or zero.
LEMMA OutflowValue ==
  ASSUME NEW v, NEW due \in Nat, v.funding \in Nat, v.returned \in Nat,
         due = IF v.bypass THEN 0 ELSE World!Floor
  PROVE  World!Outflow(v) =
           IF due > v.funding + v.returned THEN due - v.funding - v.returned ELSE 0
<1>. DEFINE left == due - v.funding - v.returned
            T == {0, left}
<1>1. left \in Int
  BY FloorFacts
<1>2. World!Outflow(v) = World!Max(T)
  BY DEF World!Outflow
<1>3. QED
  BY <1>1, <1>2 DEF World!Max

\* The script's negative controls come out as it expects.
LEMMA ControlsComeOut == World!ControlsHold
<1>. DEFINE F == World!Floor
            D == World!BaseWorld
<1>1. F \in Nat /\ F > 0 /\ \A m \in Members : Amount[m] \in 1 .. F
  BY FloorFacts
<1>2. \A v, g : g \in World!FailedGates(v) <=>
        \/ g = "B1" /\ ~v.usable
        \/ g = "B2" /\ v.funding # 0
        \/ g = "B3" /\ ~v.debitFirst
        \/ g = "B4" /\ v.returned # 0
        \/ g = "B5" /\ v.bypass
  <2>1. SUFFICES ASSUME NEW v, NEW g
                 PROVE  g \in World!FailedGates(v) <=>
                          \/ g = "B1" /\ ~v.usable
                          \/ g = "B2" /\ v.funding # 0
                          \/ g = "B3" /\ ~v.debitFirst
                          \/ g = "B4" /\ v.returned # 0
                          \/ g = "B5" /\ v.bypass
    OBVIOUS
  <2>2. /\ DOMAIN World!Gates(v) = {"B1", "B2", "B3", "B4", "B5"}
        /\ World!Gates(v)["B1"] <=> v.usable
        /\ World!Gates(v)["B2"] <=> v.funding = 0
        /\ World!Gates(v)["B3"] <=> v.debitFirst
        /\ World!Gates(v)["B4"] <=> v.returned = 0
        /\ World!Gates(v)["B5"] <=> ~v.bypass
    BY DEF World!Gates
  <2>3. g \in World!FailedGates(v) <=> g \in DOMAIN World!Gates(v) /\ ~World!Gates(v)[g]
    BY DEF World!FailedGates
  <2>4. QED
    BY <2>2, <2>3
<1>. HIDE DEF F
<1>3. ASSUME NEW v, v = [D EXCEPT !.usable = FALSE]
      PROVE  /\ World!FailedGates(v) = {"B1"} /\ World!Verdict(v) = "UNKNOWN"
             /\ World!Outflow(v) = F
  <2>1. /\ v.usable = FALSE /\ v.funding = 0 /\ v.debitFirst = TRUE
        /\ v.returned = 0 /\ v.bypass = FALSE
    BY <1>3 DEF World!BaseWorld
  <2>2. World!FailedGates(v) = {"B1"}
    BY <1>1, <1>2, <2>1
  <2>3. World!Outflow(v) = F
    <3>1. (IF v.bypass THEN 0 ELSE World!Floor) = F
      BY <2>1 DEF F
    <3>2. QED
      BY <1>1, <2>1, <3>1, OutflowValue
  <2>. HIDE DEF D
  <2>4. QED
    BY <1>1, <2>1, <2>2, <2>3 DEF World!Verdict, F
<1>4. ASSUME NEW v, v = [D EXCEPT !.funding = F]
      PROVE  /\ World!FailedGates(v) = {"B2"} /\ World!Verdict(v) = "MODEL-REFUTED"
             /\ World!Outflow(v) = 0
  <2>1. /\ v.usable = TRUE /\ v.funding = F /\ v.debitFirst = TRUE
        /\ v.returned = 0 /\ v.bypass = FALSE
    BY <1>4 DEF World!BaseWorld
  <2>2. World!FailedGates(v) = {"B2"}
    BY <1>1, <1>2, <2>1
  <2>3. World!Outflow(v) = 0
    <3>1. (IF v.bypass THEN 0 ELSE World!Floor) = F
      BY <2>1 DEF F
    <3>2. QED
      BY <1>1, <2>1, <3>1, OutflowValue
  <2>. HIDE DEF D
  <2>4. QED
    BY <1>1, <2>1, <2>2, <2>3 DEF World!Verdict, F
<1>5. ASSUME NEW v, v = [D EXCEPT !.debitFirst = FALSE]
      PROVE  /\ World!FailedGates(v) = {"B3"} /\ World!Verdict(v) = "UNKNOWN"
             /\ World!Outflow(v) = F
  <2>1. /\ v.usable = TRUE /\ v.funding = 0 /\ v.debitFirst = FALSE
        /\ v.returned = 0 /\ v.bypass = FALSE
    BY <1>5 DEF World!BaseWorld
  <2>2. World!FailedGates(v) = {"B3"}
    BY <1>1, <1>2, <2>1
  <2>3. World!Outflow(v) = F
    <3>1. (IF v.bypass THEN 0 ELSE World!Floor) = F
      BY <2>1 DEF F
    <3>2. QED
      BY <1>1, <2>1, <3>1, OutflowValue
  <2>. HIDE DEF D
  <2>4. QED
    BY <1>1, <2>1, <2>2, <2>3 DEF World!Verdict, F
<1>6. ASSUME NEW v, NEW x \in 1 .. F, v = [D EXCEPT !.returned = x]
      PROVE  /\ World!FailedGates(v) = {"B4"} /\ World!Verdict(v) = "MODEL-REFUTED"
             /\ World!Outflow(v) = F - x
  <2>1. /\ v.usable = TRUE /\ v.funding = 0 /\ v.debitFirst = TRUE
        /\ v.returned = x /\ v.bypass = FALSE
    BY <1>6 DEF World!BaseWorld
  <2>2. World!FailedGates(v) = {"B4"}
    BY <1>1, <1>2, <2>1
  <2>3. World!Outflow(v) = F - x
    <3>1. (IF v.bypass THEN 0 ELSE World!Floor) = F
      BY <2>1 DEF F
    <3>2. QED
      BY <1>1, <2>1, <3>1, OutflowValue
  <2>. HIDE DEF D
  <2>4. QED
    BY <1>1, <2>1, <2>2, <2>3 DEF World!Verdict, F
<1>7. ASSUME NEW v, v = [D EXCEPT !.bypass = TRUE]
      PROVE  /\ World!FailedGates(v) = {"B5"} /\ World!Verdict(v) = "MODEL-REFUTED"
             /\ World!Outflow(v) = 0
  <2>1. /\ v.usable = TRUE /\ v.funding = 0 /\ v.debitFirst = TRUE
        /\ v.returned = 0 /\ v.bypass = TRUE
    BY <1>7 DEF World!BaseWorld
  <2>2. World!FailedGates(v) = {"B5"}
    BY <1>1, <1>2, <2>1
  <2>3. World!Outflow(v) = 0
    <3>1. (IF v.bypass THEN 0 ELSE World!Floor) = 0
      BY <2>1 DEF F
    <3>2. QED
      BY <1>1, <2>1, <3>1, OutflowValue
  <2>. HIDE DEF D
  <2>4. QED
    BY <1>1, <2>1, <2>2, <2>3 DEF World!Verdict, F
<1>8. F \in 1 .. F
  BY <1>1
<1>9. ASSUME NEW c \in World!NegativeControls
      PROVE  World!FailedGates(c[1]) = {c[2]} /\ World!Verdict(c[1]) = c[3]
  <2>1. CASE \E m \in Members :
               c = <<[D EXCEPT !.returned = Amount[m]], "B4", "MODEL-REFUTED">>
    BY <1>1, <1>6, <2>1
  <2>2. CASE c = <<[D EXCEPT !.usable = FALSE], "B1", "UNKNOWN">>
    BY <1>3, <2>2
  <2>3. CASE c = <<[D EXCEPT !.funding = F], "B2", "MODEL-REFUTED">>
    BY <1>4, <2>3
  <2>4. CASE c = <<[D EXCEPT !.debitFirst = FALSE], "B3", "UNKNOWN">>
    BY <1>5, <2>4
  <2>5. CASE c = <<[D EXCEPT !.returned = F], "B4", "MODEL-REFUTED">>
    BY <1>6, <1>8, <2>5
  <2>6. CASE c = <<[D EXCEPT !.bypass = TRUE], "B5", "MODEL-REFUTED">>
    BY <1>7, <2>6
  <2>7. QED
    BY <1>9, <2>1, <2>2, <2>3, <2>4, <2>5, <2>6 DEF World!NegativeControls, F
<1>10. ASSUME NEW v \in {[D EXCEPT !.funding = F], [D EXCEPT !.returned = F]}
       PROVE  World!Outflow(v) = 0
  BY <1>1, <1>4, <1>6, <1>8, <1>10
<1>11. QED
  BY <1>9, <1>10 DEF World!ControlsHold, F

\* The gates follow from the invariant of the world.
LEMMA GatesFollow ==
  ASSUME World!WorldInv
  PROVE  World!StateGates
<1>. DEFINE O == World!Act("open", World!Nobody)
            S(m) == World!Act("submit", m)
<1>1. ASSUME Before.successful
      PROVE  /\ opened
             /\ \E m, n \in Members : Before.route = <<O, S(m), S(n)>>
  BY <1>1, OneMember, MembersExist DEF World!WorldInv, World!RouteInv
<1>2. ASSUME Before.successful
      PROVE  /\ Before.route \in World!ExpectedRoutes
             /\ Head(Before.route) = O
             /\ Before.route[Len(Before.route)].type = "submit"
  <2>1. PICK m \in Members, n \in Members : Before.route = <<O, S(m), S(n)>>
    BY <1>1, <1>2
  <2>2. S(n).type = "submit"
    BY DEF World!Act
  <2>. HIDE DEF O, S
  <2>3. Head(Before.route) = O /\ Len(Before.route) = 3 /\ Before.route[3] = S(n)
    BY <2>1
  <2>4. QED
    BY <2>1, <2>2, <2>3 DEF World!ExpectedRoutes, O, S
<1>3. QED
  BY <1>1, <1>2 DEF World!WorldInv, World!StateGates, World!DebitPrecedesOutput

\* A share moves the route on; with the second one all credits are assigned.
LEMMA SubmitKeeps ==
  ASSUME World!WorldInv, NEW m \in Members, World!Submit(m)
  PROVE  World!WorldInv'
<1>. DEFINE O == World!Act("open", World!Nobody)
            S(n) == World!Act("submit", n)
<1>1. /\ opened /\ opened' /\ m \notin Before.accepted /\ ~Before.successful
      /\ Before'.accepted = Before.accepted \cup {m}
      /\ Before'.route = Append(Before.route, S(m))
      /\ UNCHANGED <<opened, buyer>>
      /\ Before'.exchange = Before.exchange /\ Before'.member = Before.member
  BY DEF World!Submit, World!WorldInv
<1>2. /\ (Before'.output # NoOutput') = Before'.successful
      /\ Before'.successful \in BOOLEAN
      /\ Before'.successful <=> Before'.accepted = Members
      /\ Before'.credit \in [Members -> Nat]
  BY <1>1, ToyAssumption DEF World!Submit, World!WorldInv
<1>3. World!RouteInv'
  <2>. HIDE DEF O, S
  <2>1. CASE Before.accepted = {} /\ Before.route = <<O>>
    <3>1. Before'.route = <<O, S(m)>> /\ Before'.accepted = {m}
      BY <1>1, <2>1, AppendTo
    <3>2. QED
      BY <1>1, <3>1 DEF World!RouteInv, O, S
  <2>2. ASSUME NEW n \in Members, Before.accepted = {n}, Before.route = <<O, S(n)>>
        PROVE  World!RouteInv'
    <3>1. Before'.route = <<O, S(n), S(m)>> /\ Before'.accepted = {n, m} /\ n # m
      BY <1>1, <2>2, AppendTo
    <3>2. QED
      BY <1>1, <3>1 DEF World!RouteInv, O, S
  <2>3. ASSUME NEW n \in Members, NEW k \in Members, n # k, Before.accepted = {n, k}
        PROVE  FALSE
    BY <1>1, <2>3, TwoMembers
  <2>4. QED
    BY <1>1, <2>1, <2>2, <2>3 DEF World!WorldInv, World!RouteInv, O, S
<1>4. QED
  BY <1>1, <1>2, <1>3 DEF World!WorldInv, World!Conserved

\* A withdrawal moves its amount from the exchange to the member.
LEMMA WithdrawKeeps ==
  ASSUME World!WorldInv, NEW m \in Members, World!Withdraw(m)
  PROVE  World!WorldInv'
<1>1. /\ Before.credit \in [Members -> Nat] /\ Before.member \in [Members -> Nat]
      /\ Before.exchange \in Int
      /\ Before'.exchange = Before.exchange - Before.credit[m]
      /\ Before'.member = [Before.member EXCEPT ![m] = @ + Before.credit[m]]
      /\ Before'.credit = [Before.credit EXCEPT ![m] = 0]
      /\ UNCHANGED <<opened, buyer>>
      /\ Before'.accepted = Before.accepted /\ Before'.successful = Before.successful
      /\ (Before'.output # NoOutput') = (Before.output # NoOutput)
      /\ Before'.route = Before.route
  BY DEF World!Withdraw, World!WorldInv
<1>2. Before'.member \in [Members -> Nat] /\ Before'.credit \in [Members -> Nat]
  BY <1>1
<1>3. World!Total(Before'.member) = World!Total(Before.member) + Before.credit[m]
  <2>. DEFINE f == Before.member
              g == Before'.member
  <2>1. /\ \A n \in Members \ {m} : g[n] = f[n] /\ g[m] = f[m] + Before.credit[m]
        /\ f \in [Members -> Nat] /\ g \in [Members -> Nat] /\ IsFiniteSet(Members)
    BY <1>1, <1>2, ToyAssumption
  <2>2. g[m] = f[m] + Before.credit[m] /\ f[m] \in Nat /\ Before.credit[m] \in Nat
    BY <1>1
  <2>. HIDE DEF f, g
  <2>3. Total(g) = Total(f) - f[m] + g[m] /\ Total(f) \in Nat
    BY <2>1, TotalUpdate, TotalType
  <2>4. Total(g) = Total(f) + Before.credit[m]
    BY <2>2, <2>3
  <2>5. QED
    BY <2>4, SameTotal DEF f, g
<1>4. World!Total(Before.member) \in Nat /\ Before.credit[m] \in Nat
  BY <1>1, ToyAssumption, SameTotal, TotalType
<1>5. World!Conserved'
  <2>1. Before.exchange + World!Total(Before.member) + buyer = InitialBalance
    BY DEF World!WorldInv, World!Conserved
  <2>2. buyer \in Int
    BY FloorFacts, ToyAssumption DEF World!WorldInv
  <2>3. Before'.exchange + World!Total(Before'.member) + buyer' = InitialBalance
    BY <1>1, <1>3, <1>4, <2>1, <2>2
  <2>4. QED
    BY <2>3 DEF World!Conserved, World!Total, World!Units, World!UnitsAt
<1>6. World!RouteInv'
  <2>1. World!RouteInv
    BY DEF World!WorldInv
  <2>. DEFINE O == World!Act("open", World!Nobody)
              S(n) == World!Act("submit", n)
  <2>2. \/ ~opened /\ Before.accepted = {} /\ Before.route = <<>>
        \/ opened /\ Before.accepted = {} /\ Before.route = <<O>>
        \/ opened /\ \E n \in Members : Before.accepted = {n} /\ Before.route = <<O, S(n)>>
        \/ opened /\ \E k, n \in Members :
             k # n /\ Before.accepted = {k, n} /\ Before.route = <<O, S(k), S(n)>>
    BY <2>1 DEF World!RouteInv
  <2>3. Before'.accepted = Before.accepted /\ Before'.route = Before.route /\ opened' = opened
    BY <1>1
  <2>. HIDE DEF O, S
  <2>4. \/ ~opened' /\ Before'.accepted = {} /\ Before'.route = <<>>
        \/ opened' /\ Before'.accepted = {} /\ Before'.route = <<O>>
        \/ opened' /\ \E n \in Members : Before'.accepted = {n} /\ Before'.route = <<O, S(n)>>
        \/ opened' /\ \E k, n \in Members :
             k # n /\ Before'.accepted = {k, n} /\ Before'.route = <<O, S(k), S(n)>>
    BY <2>2, <2>3
  <2>5. QED
    BY <2>4 DEF World!RouteInv, O, S
<1>7. QED
  BY <1>1, <1>2, <1>5, <1>6 DEF World!WorldInv

\* The steps of the world.
LEMMA WorldStep ==
  ASSUME World!WorldInv, [World!Next]_World!worldVars
  PROVE  World!WorldInv' /\ buyer' <= buyer
<1>1. buyer \in Int /\ World!Floor \in Nat
  BY FloorFacts, ToyAssumption DEF World!WorldInv
<1>2. CASE UNCHANGED World!worldVars
  BY <1>1, <1>2 DEF World!worldVars, World!WorldInv, World!RouteInv, World!Conserved
<1>3. CASE World!Open
  <2>1. /\ ~opened /\ opened' = TRUE /\ buyer' = buyer - World!Floor
        /\ Before'.exchange = Before.exchange + World!Floor
        /\ Before'.route = Append(Before.route, World!Act("open", World!Nobody))
        /\ Before'.accepted = Before.accepted /\ Before'.successful = Before.successful
        /\ (Before'.output # NoOutput') = (Before.output # NoOutput)
        /\ Before'.member = Before.member /\ Before'.credit = Before.credit
    BY <1>3 DEF World!Open
  <2>2. World!RouteInv'
    <3>1. Before.accepted = {} /\ Before.route = <<>>
      BY <2>1 DEF World!WorldInv, World!RouteInv
    <3>2. Before'.route = <<World!Act("open", World!Nobody)>>
      BY <2>1, <3>1, AppendTo
    <3>3. QED
      BY <2>1, <3>1, <3>2 DEF World!RouteInv
  <2>3. World!Total(Before.member) \in Nat
    BY ToyAssumption, SameTotal, TotalType DEF World!WorldInv
  <2>4. World!Conserved'
    <3>1. Before.exchange + World!Total(Before.member) + buyer = InitialBalance
      BY DEF World!WorldInv, World!Conserved
    <3>2. Before'.exchange + World!Total(Before'.member) + buyer' = InitialBalance
      BY <1>1, <2>1, <2>3, <3>1 DEF World!WorldInv
    <3>3. QED
      BY <3>2 DEF World!Conserved, World!Total, World!Units, World!UnitsAt
  <2>5. buyer' = InitialBalance - (IF opened' THEN World!Floor ELSE 0)
    BY <1>1, <2>1, ToyAssumption DEF World!WorldInv
  <2>6. /\ {opened', Before'.successful, Before'.output # NoOutput'} \subseteq BOOLEAN
        /\ (Before'.output # NoOutput') = Before'.successful
        /\ Before'.successful <=> Before'.accepted = Members
        /\ Before'.exchange \in Int
        /\ Before'.member \in [Members -> Nat] /\ Before'.credit \in [Members -> Nat]
    BY <1>1, <2>1 DEF World!WorldInv
  <2>7. QED
    BY <1>1, <2>1, <2>2, <2>4, <2>5, <2>6 DEF World!WorldInv, World!Floor, World!Total,
       World!Units, World!UnitsAt
<1>4. CASE \E m \in Members : World!Submit(m)
  <2>1. PICK m \in Members : World!Submit(m)
    BY <1>4
  <2>2. buyer' = buyer
    BY <2>1 DEF World!Submit
  <2>3. QED
    BY <1>1, <2>1, <2>2, SubmitKeeps
<1>5. CASE \E m \in Members : World!Withdraw(m)
  <2>1. PICK m \in Members : World!Withdraw(m)
    BY <1>5
  <2>2. buyer' = buyer
    BY <2>1 DEF World!Withdraw
  <2>3. QED
    BY <1>1, <2>1, <2>2, WithdrawKeeps
<1>6. QED
  BY <1>2, <1>3, <1>4, <1>5 DEF World!Next

\* What the script certifies of the world holds of the contract at every call.
THEOREM ToyPaysFloor == ToySpec => BuyerPaysFloor
<1>1. ToyInit => ToyInv /\ World!WorldInv
  <2>1. SUFFICES ASSUME ToyInit
                 PROVE  World!WorldInv
    BY ToyBegins
  <2>2. World!Init
    BY <2>1, ToyBegins
  <2>3. World!Total(Before.member) = 0
    <3>1. Before.member = [m \in Members |-> 0]
      BY <2>2 DEF World!Init
    <3>2. Total(Before.member) = Cardinality(Members) * 0
      BY <3>1, ToyAssumption, TotalConstant
    <3>3. QED
      BY <3>2, SameTotal, ToyAssumption
  <2>4. /\ Before.accepted = {} /\ Before.route = <<>> /\ opened = FALSE
        /\ Before.successful = FALSE /\ (Before.output # NoOutput) = FALSE
        /\ buyer = InitialBalance /\ Before.exchange = 0
        /\ Before.member = [m \in Members |-> 0] /\ Before.credit = [m \in Members |-> 0]
    BY <2>2 DEF World!Init
  <2>5. World!RouteInv
    BY <2>4 DEF World!RouteInv
  <2>6. World!Conserved
    BY <2>3, <2>4, ToyAssumption DEF World!Conserved
  <2>7. /\ {opened, Before.successful, Before.output # NoOutput} \subseteq BOOLEAN
        /\ (Before.output # NoOutput) = Before.successful
        /\ Before.successful <=> Before.accepted = Members
    BY <2>4, MembersExist
  <2>8. /\ buyer = InitialBalance - (IF opened THEN World!Floor ELSE 0)
        /\ Before.exchange \in Int
        /\ Before.member \in [Members -> Nat] /\ Before.credit \in [Members -> Nat]
    BY <2>4, ToyAssumption
  <2>9. QED
    BY <2>5, <2>6, <2>7, <2>8 DEF World!WorldInv
<1>2. ToyInv /\ World!WorldInv /\ [ToyNext]_toyVars
        => ToyInv' /\ World!WorldInv' /\ [World!NoReturn]_World!worldVars
  BY ToyStep, WorldStep DEF World!NoReturn
<1>3. World!WorldInv => World!StateGates /\ World!ControlsHold
  BY GatesFollow, ControlsComeOut
<1>4. QED
  BY <1>1, <1>2, <1>3, PTL DEF ToySpec, BuyerPaysFloor, World!CertificateHolds

-----------------------------------------------------------------------------
(* The delivery extension implements the certified world.                  *)

\* The inductive invariant: an order is opened, made final, served and delivered in
\* this order, and the trace began with the opening and then tells the rest of it.
\* While the delivery is pending its last action is the share that completed the order.
DeliveryInv ==
  /\ process \in [opened : BOOLEAN, finalized : BOOLEAN, submitted : SUBSET Members,
                  delivered : BOOLEAN, withdrawn : SUBSET Members]
  /\ trace \in Seq(Delivery!Actions)
  /\ process.opened <=> trace # <<>>
  /\ process.opened => trace[1] = Delivery!Act("open", Delivery!Nobody)
  /\ process.opened /\ ~process.finalized => Len(trace) = 1
  /\ process.finalized => process.opened /\ Len(trace) >= 2
  /\ process.submitted # {} => process.finalized
  /\ process.delivered => process.submitted = Members
  /\ process.withdrawn # {} => process.delivered
  /\ Delivery!Pending =>
       /\ Len(trace) >= 3
       /\ \E m \in Members : trace[Len(trace)] = Delivery!Act("submit", m)

\* The extension counts amounts as the world does.
LEMMA SameTotals == \A f : Delivery!Total(f) = Total(f) /\ Delivery!World!Total(f) = Total(f)
<1>1. \A f : Delivery!Units(f) = Units(f) /\ Delivery!World!Units(f) = Units(f)
  BY DEF Delivery!Units, Delivery!UnitsAt, Delivery!World!Units, Delivery!World!UnitsAt, Units, UnitsAt
<1>2. \A S : Delivery!Cardinality(S) = Cardinality(S)
  BY ZenonT(20) DEF Delivery!Cardinality, Cardinality
<1>3. \A S : Delivery!World!Cardinality(S) = Cardinality(S)
  BY ZenonT(20) DEF Delivery!World!Cardinality, Cardinality
<1>4. QED
  BY <1>1, <1>2, <1>3 DEF Delivery!Total, Delivery!World!Total, Total

\* What an action does, by its type.
LEMMA ActionFacts ==
  ASSUME DeliveryInv, NEW a \in Delivery!Actions, Delivery!Step(a)
  PROVE  /\ a.type \in {"open", "finalize", "submit", "deliver", "withdraw"}
         /\ a.type = "open" =>
              /\ a = Delivery!Act("open", Delivery!Nobody) /\ ~process.opened
              /\ process' = [process EXCEPT !.opened = TRUE]
         /\ a.type # "open" => process.opened
         /\ a.type = "finalize" =>
              ~process.finalized /\ process' = [process EXCEPT !.finalized = TRUE]
         /\ a.type = "submit" =>
              /\ a.member \in Members /\ a = Delivery!Act("submit", a.member)
              /\ process.finalized /\ ~process.delivered /\ a.member \notin process.submitted
              /\ process' = [process EXCEPT !.submitted = @ \cup {a.member}]
         /\ a.type = "deliver" =>
              /\ process.finalized /\ ~process.delivered /\ process.submitted = Members
              /\ process' = [process EXCEPT !.delivered = TRUE]
         /\ a.type = "withdraw" =>
              /\ a.member \in Members /\ process.delivered /\ a.member \notin process.withdrawn
              /\ process' = [process EXCEPT !.withdrawn = @ \cup {a.member}]
         /\ trace' = IF process.delivered THEN trace ELSE Append(trace, a)
<1>1. \/ \E t \in {"open", "finalize", "deliver"} : a = [type |-> t, member |-> Delivery!Nobody]
      \/ \E t \in {"submit", "withdraw"}, m \in Members : a = [type |-> t, member |-> m]
  BY DEF Delivery!Actions, Delivery!Act
<1>2. /\ process.opened \in BOOLEAN
      /\ Delivery!Enabled(process, a) /\ process' = Delivery!After(process, a)
      /\ trace' = IF process.delivered THEN trace ELSE Append(trace, a)
  BY DEF Delivery!Step, DeliveryInv
<1>3. QED
  BY <1>1, <1>2 DEF Delivery!Enabled, Delivery!After, Delivery!Act, Delivery!AllResponded

\* The part of a trace that is the route so far: without its second action, up to n.
Kept(t, n) == <<t[1]>> \o SubSeq(t, 3, n)

\* It starts with the first action, a longer trace changes nothing of it, and it grows
\* with its last action.
LEMMA KeptFacts ==
  ASSUME NEW T, NEW t \in Seq(T), t # <<>>, NEW a \in T
  PROVE  /\ \A n \in Nat : n < 3 => Kept(t, n) = <<t[1]>>
         /\ \A n \in 2 .. Len(t) : Kept(Append(t, a), n) = Kept(t, n)
         /\ \A n \in 3 .. Len(t) : Kept(t, n) = Append(Kept(t, n - 1), t[n])
<1>1. ASSUME NEW n \in Nat, n < 3
      PROVE  Kept(t, n) = <<t[1]>>
  <2>1. SubSeq(t, 3, n) = <<>>
    BY <1>1, SubSeqEmpty
  <2>2. <<t[1]>> \in Seq(T)
    BY ElementOfSeq, LenProperties, EmptySeq
  <2>3. QED
    BY <2>1, <2>2, ConcatEmptySeq DEF Kept
<1>2. ASSUME NEW n \in 2 .. Len(t)
      PROVE  Kept(Append(t, a), n) = Kept(t, n)
  <2>1. /\ Append(t, a) \in Seq(T) /\ Len(Append(t, a)) = Len(t) + 1
        /\ \A i \in 1 .. Len(t) : Append(t, a)[i] = t[i]
    BY AppendProperties
  <2>2. Len(t) \in Nat /\ n \in Int /\ \A i \in 1 .. Len(t) : t[i] \in T
    BY LenProperties, ElementOfSeq
  <2>. DEFINE p == SubSeq(Append(t, a), 3, n)
              q == SubSeq(t, 3, n)
  <2>3. p = q
    <3>1. /\ p \in Seq(T) /\ Len(p) = (IF 3 <= n THEN n - 3 + 1 ELSE 0)
          /\ \A i \in 1 .. n - 3 + 1 : p[i] = Append(t, a)[3 + i - 1]
      <4>1. \A i \in 3 .. n : Append(t, a)[i] \in T
        BY <2>1, <2>2
      <4>2. QED
        BY <2>2, <4>1, SubSeqProperties
    <3>2. /\ q \in Seq(T) /\ Len(q) = (IF 3 <= n THEN n - 3 + 1 ELSE 0)
          /\ \A i \in 1 .. n - 3 + 1 : q[i] = t[3 + i - 1]
      <4>1. \A i \in 3 .. n : t[i] \in T
        BY <2>2
      <4>2. QED
        BY <2>2, <4>1, SubSeqProperties
    <3>. HIDE DEF p, q
    <3>3. \A i \in 1 .. Len(p) : p[i] = q[i]
      BY <2>1, <2>2, <3>1, <3>2
    <3>4. QED
      BY <3>1, <3>2, <3>3, SeqEqual
  <2>4. Append(t, a)[1] = t[1]
    BY <2>1, <2>2
  <2>5. QED
    BY <2>3, <2>4 DEF Kept
<1>3. ASSUME NEW n \in 3 .. Len(t)
      PROVE  Kept(t, n) = Append(Kept(t, n - 1), t[n])
  <2>1. Len(t) \in Nat /\ n \in Int /\ \A i \in 1 .. Len(t) : t[i] \in T
    BY LenProperties, ElementOfSeq
  <2>2. SubSeq(t, 3, n) = SubSeq(t, 3, n - 1) \o <<t[n]>>
    <3>1. 3 \in 1 .. Len(t) /\ n \in 3 .. Len(t)
      BY <2>1
    <3>2. QED
      BY <3>1, SubSeqRecursiveSecond
  <2>. DEFINE p == SubSeq(t, 3, n - 1)
  <2>3. p \in Seq(T) /\ <<t[1]>> \in Seq(T) /\ <<t[n]>> \in Seq(T) /\ t[n] \in T
    <3>1. \A i \in 3 .. n - 1 : t[i] \in T
      BY <2>1
    <3>2. p \in Seq(T)
      BY <2>1, <3>1, SubSeqProperties
    <3>3. t[1] \in T /\ t[n] \in T
      BY <2>1
    <3>. HIDE DEF p
    <3>4. QED
      BY <3>2, <3>3
  <2>. HIDE DEF p
  <2>4. <<t[1]>> \o (p \o <<t[n]>>) = (<<t[1]>> \o p) \o <<t[n]>>
    BY <2>3, ConcatAssociative
  <2>5. (<<t[1]>> \o p) \in Seq(T)
    BY <2>3, ConcatProperties
  <2>6. (<<t[1]>> \o p) \o <<t[n]>> = Append(<<t[1]>> \o p, t[n])
    BY <2>3, <2>5, AppendIsConcat
  <2>7. QED
    BY <2>2, <2>4, <2>6 DEF Kept, p
<1>4. QED
  BY <1>1, <1>2, <1>3

\* What the members withdrew, and what is left for one that did not yet.
LEMMA WithdrawnFacts ==
  ASSUME NEW w \in SUBSET Members, NEW m \in Members \ w
  PROVE  LET got(s) == [k \in Members |-> IF k \in s THEN Amount[k] ELSE 0] IN
         /\ Total(got({})) = 0
         /\ Total(got(w)) \in Nat /\ Total(Amount) \in Nat
         /\ Total(got(w \cup {m})) = Total(got(w)) + Amount[m]
         /\ Amount[m] <= Total(Amount) - Total(got(w))
<1>. DEFINE f(s) == [k \in Members |-> IF k \in s THEN Amount[k] ELSE 0]
<1>1. IsFiniteSet(Members) /\ Amount \in [Members -> Nat] /\ \A k \in Members : Amount[k] \in Nat \ {0}
  BY ToyAssumption
<1>2. \A s \in SUBSET Members : f(s) \in [Members -> Nat]
  BY <1>1
<1>3. Total(f({})) = 0
  <2>1. Total(f({})) = TotalOn(f({}), Members)
    BY <1>2, TotalOnAll
  <2>2. \A x \in Members : f({})[x] = 0
    OBVIOUS
  <2>3. QED
    BY <1>2, <2>1, <2>2, TotalZero
<1>4. Total(f(w)) \in Nat /\ Total(Amount) \in Nat
  BY <1>1, <1>2, TotalType
<1>5. Total(f(w \cup {m})) = Total(f(w)) + Amount[m]
  <2>. DEFINE a == f(w)
              b == f(w \cup {m})
  <2>1. /\ a \in [Members -> Nat] /\ b \in [Members -> Nat] /\ a[m] = 0 /\ b[m] = Amount[m]
        /\ \A y \in Members \ {m} : b[y] = a[y]
    BY <1>1
  <2>. HIDE DEF a, b
  <2>2. Total(b) = Total(a) - a[m] + b[m]
    BY <1>1, <2>1, TotalUpdate
  <2>3. QED
    BY <1>1, <1>4, <2>1, <2>2 DEF a, b
<1>6. Total(f(w \cup {m})) <= Total(Amount)
  <2>. DEFINE a == f(w \cup {m})
              b == [k \in Members |-> IF k \in w \cup {m} THEN 0 ELSE Amount[k]]
  <2>1. /\ a \in [Members -> Nat] /\ b \in [Members -> Nat]
        /\ Amount = [k \in Members |-> a[k] + b[k]]
    BY <1>1
  <2>. HIDE DEF a, b
  <2>2. /\ Total([k \in Members |-> a[k] + b[k]]) = Total(a) + Total(b)
        /\ Total(a) \in Nat /\ Total(b) \in Nat
    BY <1>1, <2>1, TotalSum, TotalType
  <2>3. Total(a) <= Total(Amount)
    BY <2>1, <2>2
  <2>4. QED
    BY <2>3 DEF a
<1>7. QED
  BY <1>1, <1>3, <1>4, <1>5, <1>6

\* The world as the extension shows it.
LEMMA WorldView ==
  ASSUME DeliveryInv
  PROVE  /\ Delivery!WorldRoute =
              IF process.opened
              THEN Kept(trace, Len(trace) - (IF Delivery!Pending \/ process.delivered THEN 1 ELSE 0))
              ELSE <<>>
         /\ Delivery!Debit = IF process.opened THEN Delivery!World!Floor ELSE 0
         /\ Delivery!World!Floor \in Nat
         /\ Delivery!Pending => /\ Delivery!Last(trace).member \in Members
                                /\ Delivery!Last(trace) = trace[Len(trace)]
                                /\ trace[Len(trace)] = Delivery!Act("submit", Delivery!Last(trace).member)
<1>1. Delivery!WorldRoute =
              IF process.opened
              THEN Kept(trace, Len(trace) - (IF Delivery!Pending \/ process.delivered THEN 1 ELSE 0))
              ELSE <<>>
  BY DEF Delivery!WorldRoute, Kept
<1>2. /\ Delivery!Debit = IF process.opened THEN Delivery!World!Floor ELSE 0
      /\ Delivery!World!Floor \in Nat
  BY SameTotals, ToyAssumption, TotalType DEF Delivery!Debit, Delivery!World!Floor
<1>3. ASSUME Delivery!Pending
      PROVE  /\ Delivery!Last(trace).member \in Members
             /\ Delivery!Last(trace) = trace[Len(trace)]
             /\ trace[Len(trace)] = Delivery!Act("submit", Delivery!Last(trace).member)
  <2>1. Delivery!Last(trace) = trace[Len(trace)]
    BY DEF Delivery!Last
  <2>2. PICK m \in Members : trace[Len(trace)] = Delivery!Act("submit", m)
    BY <1>3 DEF DeliveryInv
  <2>3. trace[Len(trace)].member = m
    BY <2>2 DEF Delivery!Act
  <2>4. QED
    BY <2>1, <2>2, <2>3
<1>4. QED
  BY <1>1, <1>2, <1>3

\* Nothing has happened at first, here as in the world.
LEMMA DeliveryBegins ==
  ASSUME Delivery!Init
  PROVE  DeliveryInv /\ Delivery!World!Init
<1>1. DeliveryInv
  BY MembersExist DEF Delivery!Init, DeliveryInv, Delivery!InitialState, Delivery!Pending
<1>2. Delivery!World!Init
  <2>1. /\ process.opened = FALSE /\ process.submitted = {} /\ process.delivered = FALSE
        /\ process.withdrawn = {} /\ ~Delivery!Pending
    BY MembersExist DEF Delivery!Init, Delivery!InitialState, Delivery!Pending
  <2>2. Delivery!WorldRoute = <<>> /\ Delivery!Debit = 0
    BY <1>1, <2>1, WorldView
  <2>3. Delivery!Withdrawn = [m \in Members |-> 0]
    BY <2>1 DEF Delivery!Withdrawn
  <2>4. Delivery!Total(Delivery!Withdrawn) = 0
    <3>1. Delivery!Withdrawn = [k \in Members |-> IF k \in {} THEN Amount[k] ELSE 0]
      BY <2>1 DEF Delivery!Withdrawn
    <3>2. QED
      BY <3>1, SameTotals, MembersExist, WithdrawnFacts
  <2>5. QED
    BY <2>1, <2>2, <2>3, <2>4, ToyAssumption DEF Delivery!World!Init
<1>3. QED
  BY <1>1, <1>2

\* Every action keeps the invariant.
LEMMA DeliveryKeeps ==
  ASSUME DeliveryInv, NEW a \in Delivery!Actions, Delivery!Step(a)
  PROVE  DeliveryInv'
<1>1. /\ ~process.delivered =>
           /\ trace' \in Seq(Delivery!Actions) /\ trace' # <<>>
           /\ Len(trace') = Len(trace) + 1 /\ trace'[Len(trace')] = a
           /\ \A i \in 1 .. Len(trace) : trace'[i] = trace[i]
      /\ process.delivered => trace' = trace
      /\ Len(trace) \in Nat /\ (trace # <<>> <=> Len(trace) >= 1)
  <2>1. trace \in Seq(Delivery!Actions)
    BY DEF DeliveryInv
  <2>2. trace' = IF process.delivered THEN trace ELSE Append(trace, a)
    BY ActionFacts
  <2>3. /\ Append(trace, a) \in Seq(Delivery!Actions) /\ Append(trace, a) # <<>>
        /\ Len(Append(trace, a)) = Len(trace) + 1 /\ Append(trace, a)[Len(trace) + 1] = a
        /\ \A i \in 1 .. Len(trace) : Append(trace, a)[i] = trace[i]
    BY <2>1, AppendProperties
  <2>4. Len(trace) \in Nat /\ (trace # <<>> <=> Len(trace) >= 1)
    BY <2>1, LenProperties, EmptySeq
  <2>5. QED
    BY <2>2, <2>3, <2>4
<1>2. CASE a.type = "open"
  <2>1. /\ a = Delivery!Act("open", Delivery!Nobody) /\ ~process.opened
        /\ process' = [process EXCEPT !.opened = TRUE]
    BY <1>2, ActionFacts
  <2>2. /\ trace = <<>> /\ process.submitted = {} /\ ~process.delivered
        /\ ~process.finalized /\ process.withdrawn = {}
    BY <2>1, MembersExist DEF DeliveryInv
  <2>3. /\ process' \in [opened : BOOLEAN, finalized : BOOLEAN, submitted : SUBSET Members,
                         delivered : BOOLEAN, withdrawn : SUBSET Members]
        /\ process'.opened /\ ~process'.finalized
        /\ process'.submitted = {} /\ ~process'.delivered /\ process'.withdrawn = {}
    BY <2>1, <2>2 DEF DeliveryInv
  <2>4. ~Delivery!Pending'
    BY <2>3, MembersExist DEF Delivery!Pending
  <2>5. Len(trace) = 0 /\ Len(trace') = 1 /\ trace'[1] = a
    BY <1>1, <2>2
  <2>6. QED
    BY <1>1, <2>1, <2>2, <2>3, <2>4, <2>5 DEF DeliveryInv
<1>3. CASE a.type = "finalize"
  <2>1. /\ process.opened /\ ~process.finalized
        /\ process' = [process EXCEPT !.finalized = TRUE]
    BY <1>3, ActionFacts
  <2>2. process.submitted = {} /\ ~process.delivered /\ process.withdrawn = {} /\ Len(trace) = 1
    BY <2>1, MembersExist DEF DeliveryInv
  <2>3. /\ process' \in [opened : BOOLEAN, finalized : BOOLEAN, submitted : SUBSET Members,
                         delivered : BOOLEAN, withdrawn : SUBSET Members]
        /\ process'.opened /\ process'.finalized
        /\ process'.submitted = {} /\ ~process'.delivered /\ process'.withdrawn = {}
    BY <2>1, <2>2 DEF DeliveryInv
  <2>4. ~Delivery!Pending'
    BY <2>3, MembersExist DEF Delivery!Pending
  <2>5. trace'[1] = trace[1] /\ Len(trace') = 2
    BY <1>1, <2>2
  <2>6. QED
    BY <1>1, <2>1, <2>2, <2>3, <2>4, <2>5 DEF DeliveryInv
<1>4. CASE a.type = "submit"
  <2>1. /\ a.member \in Members /\ a = Delivery!Act("submit", a.member)
        /\ process.finalized /\ ~process.delivered
        /\ process' = [process EXCEPT !.submitted = @ \cup {a.member}]
    BY <1>4, ActionFacts
  <2>2. process.opened /\ Len(trace) >= 2 /\ process.withdrawn = {}
    BY <2>1 DEF DeliveryInv
  <2>3. /\ process' \in [opened : BOOLEAN, finalized : BOOLEAN, submitted : SUBSET Members,
                         delivered : BOOLEAN, withdrawn : SUBSET Members]
        /\ process'.opened /\ process'.finalized
        /\ ~process'.delivered /\ process'.withdrawn = {}
    BY <2>1, <2>2 DEF DeliveryInv
  <2>4. trace'[1] = trace[1] /\ Len(trace') >= 3
    BY <1>1, <2>1, <2>2
  <2>5. /\ trace' \in Seq(Delivery!Actions) /\ trace' # <<>>
        /\ trace'[Len(trace')] = Delivery!Act("submit", a.member)
        /\ trace[1] = Delivery!Act("open", Delivery!Nobody)
    BY <1>1, <2>1, <2>2 DEF DeliveryInv
  <2>6. Len(trace') \in Int
    BY <1>1, <2>1
  <2>7. Delivery!Pending' => \E m \in Members : trace'[Len(trace')] = Delivery!Act("submit", m)
    BY <2>1, <2>5
  <2>8. Len(trace') # 1 /\ Len(trace') >= 2
    BY <2>4, <2>6
  <2>9. trace'[1] = Delivery!Act("open", Delivery!Nobody)
    BY <2>4, <2>5
  <2>10. QED
    BY <2>3, <2>4, <2>5, <2>7, <2>8, <2>9 DEF DeliveryInv
<1>5. CASE a.type = "deliver"
  <2>1. /\ process.finalized /\ ~process.delivered /\ process.submitted = Members
        /\ process' = [process EXCEPT !.delivered = TRUE]
    BY <1>5, ActionFacts
  <2>2. process.opened /\ Len(trace) >= 2 /\ process.withdrawn = {}
    BY <2>1 DEF DeliveryInv
  <2>3. /\ process' \in [opened : BOOLEAN, finalized : BOOLEAN, submitted : SUBSET Members,
                         delivered : BOOLEAN, withdrawn : SUBSET Members]
        /\ process'.opened /\ process'.finalized
        /\ process'.delivered /\ process'.submitted = Members
    BY <2>1, <2>2 DEF DeliveryInv
  <2>4. ~Delivery!Pending' /\ trace'[1] = trace[1] /\ Len(trace') >= 3
    BY <1>1, <2>1, <2>2, <2>3 DEF Delivery!Pending
  <2>5. /\ trace' \in Seq(Delivery!Actions) /\ trace' # <<>>
        /\ trace[1] = Delivery!Act("open", Delivery!Nobody) /\ Len(trace') \in Int
    BY <1>1, <2>1, <2>2 DEF DeliveryInv
  <2>6. QED
    BY <2>3, <2>4, <2>5 DEF DeliveryInv
<1>6. CASE a.type = "withdraw"
  <2>1. /\ a.member \in Members /\ process.delivered
        /\ process' = [process EXCEPT !.withdrawn = @ \cup {a.member}]
    BY <1>6, ActionFacts
  <2>2. QED
    BY <1>1, <2>1 DEF DeliveryInv, Delivery!Pending
<1>7. QED
  BY <1>2, <1>3, <1>4, <1>5, <1>6, ActionFacts

\* The opening is the world's, if the buyer can pay.
LEMMA OpeningOpens ==
  ASSUME DeliveryInv, DeliveryInv', NEW a \in Delivery!Actions, Delivery!Step(a),
         a.type = "open", Total(Amount) <= InitialBalance
  PROVE  Delivery!World!Open
<1>1. /\ a = Delivery!Act("open", Delivery!Nobody) /\ ~process.opened
      /\ process' = [process EXCEPT !.opened = TRUE]
  BY ActionFacts
<1>2. /\ trace = <<>> /\ process.submitted = {} /\ ~process.delivered
      /\ ~process.finalized /\ process.withdrawn = {}
  BY <1>1, MembersExist DEF DeliveryInv
<1>3. /\ process'.opened /\ process'.submitted = {} /\ ~process'.delivered
      /\ process'.withdrawn = {} /\ ~process'.finalized
  BY <1>1, <1>2 DEF DeliveryInv
<1>4. ~Delivery!Pending /\ ~Delivery!Pending'
  BY <1>2, <1>3, MembersExist DEF Delivery!Pending
<1>5. trace' = <<a>>
  <2>1. trace' = Append(<<>>, a)
    BY <1>2, ActionFacts
  <2>2. QED
    BY <2>1, AppendTo
<1>6. Delivery!WorldRoute = <<>> /\ Delivery!WorldRoute' = <<a>>
  <2>1. Delivery!WorldRoute = <<>>
    BY <1>1, WorldView
  <2>2. Delivery!WorldRoute' = Kept(trace', Len(trace'))
    BY <1>3, <1>4, <1>5 DEF Delivery!WorldRoute, Kept
  <2>3. <<a>> \in Seq(Delivery!Actions) /\ <<a>> # <<>> /\ Len(<<a>>) = 1 /\ <<a>>[1] = a
    OBVIOUS
  <2>4. Kept(<<a>>, 1) = <<a>>
    <3>. DEFINE t == <<a>>
    <3>1. t \in Seq(Delivery!Actions) /\ t # <<>> /\ t[1] = a
      BY <2>3
    <3>. HIDE DEF t
    <3>2. Kept(t, 1) = <<t[1]>>
      BY <3>1, KeptFacts
    <3>3. QED
      BY <3>1, <3>2 DEF t
  <2>5. QED
    BY <1>5, <2>1, <2>2, <2>3, <2>4
<1>7. /\ Delivery!Debit = 0 /\ Delivery!Debit' = Delivery!World!Floor
      /\ Delivery!World!Floor \in Nat /\ Delivery!World!Floor <= InitialBalance
  BY <1>1, <1>3, WorldView, SameTotals DEF Delivery!Debit, Delivery!World!Floor
<1>8. Delivery!Withdrawn' = Delivery!Withdrawn
  BY <1>2, <1>3 DEF Delivery!Withdrawn
<1>9. Delivery!Total(Delivery!Withdrawn) = 0
  BY <1>2, SameTotals, MembersExist, WithdrawnFacts DEF Delivery!Withdrawn
<1>10. Append(<<>>, a) = <<a>> /\ a = Delivery!World!Act("open", Delivery!World!Nobody)
  BY <1>1, AppendTo DEF Delivery!Act, Delivery!Nobody, Delivery!World!Act, Delivery!World!Nobody
<1>11. QED
  BY <1>1, <1>2, <1>3, <1>4, <1>6, <1>7, <1>8, <1>9, <1>10, ToyAssumption
     DEF Delivery!World!Open

\* The route and the accounts of the world are those before, if the trace is kept.
LEMMA SameWorld ==
  ASSUME DeliveryInv, DeliveryInv', process'.opened = process.opened,
         process'.delivered = process.delivered, process'.withdrawn = process.withdrawn
  PROVE  /\ Delivery!Debit' = Delivery!Debit /\ Delivery!Withdrawn' = Delivery!Withdrawn
         /\ [m \in Members |-> IF process.delivered /\ m \notin process.withdrawn
                               THEN Amount[m] ELSE 0]'
              = [m \in Members |-> IF process.delivered /\ m \notin process.withdrawn
                                   THEN Amount[m] ELSE 0]
BY DEF Delivery!Debit, Delivery!Withdrawn

\* Finality is no step of the world.
LEMMA FinalityStutters ==
  ASSUME DeliveryInv, DeliveryInv', NEW a \in Delivery!Actions, Delivery!Step(a),
         a.type = "finalize"
  PROVE  UNCHANGED Delivery!World!worldVars
<1>1. /\ process.opened /\ ~process.finalized
      /\ process' = [process EXCEPT !.finalized = TRUE]
  BY ActionFacts
<1>2. /\ process.submitted = {} /\ ~process.delivered /\ Len(trace) = 1
      /\ trace \in Seq(Delivery!Actions) /\ trace # <<>>
  BY <1>1, MembersExist DEF DeliveryInv
<1>3. /\ process'.opened /\ process'.submitted = {} /\ ~process'.delivered
      /\ process'.withdrawn = process.withdrawn
      /\ process'.opened = process.opened /\ process'.delivered = process.delivered
  BY <1>1, <1>2 DEF DeliveryInv
<1>4. ~Delivery!Pending /\ ~Delivery!Pending'
  BY <1>2, <1>3, MembersExist DEF Delivery!Pending
<1>5. Delivery!WorldRoute' = Delivery!WorldRoute
  <2>1. /\ trace' = Append(trace, a) /\ Len(trace') = 2 /\ trace' \in Seq(Delivery!Actions)
        /\ trace' # <<>> /\ trace'[1] = trace[1]
    <3>1. trace' = Append(trace, a)
      BY <1>2, ActionFacts
    <3>2. /\ Append(trace, a) \in Seq(Delivery!Actions) /\ Append(trace, a) # <<>>
          /\ Len(Append(trace, a)) = Len(trace) + 1
          /\ \A i \in 1 .. Len(trace) : Append(trace, a)[i] = trace[i]
      <4>1. trace \in Seq(Delivery!Actions)
        BY <1>2
      <4>2. QED
        BY <4>1, AppendProperties
    <3>3. QED
      BY <1>2, <3>1, <3>2
  <2>2. Delivery!WorldRoute = Kept(trace, 1)
    BY <1>1, <1>2, <1>4, WorldView
  <2>3. Delivery!WorldRoute' = Kept(trace', 2)
    BY <1>3, <1>4, <2>1 DEF Delivery!WorldRoute, Kept
  <2>4. Kept(trace, 1) = <<trace[1]>>
    BY <1>2, KeptFacts
  <2>5. Kept(trace', 2) = <<trace'[1]>>
    <3>. DEFINE t == trace'
    <3>1. t \in Seq(Delivery!Actions) /\ t # <<>>
      BY <2>1
    <3>. HIDE DEF t
    <3>2. Kept(t, 2) = <<t[1]>>
      BY <3>1, KeptFacts
    <3>3. QED
      BY <3>2 DEF t
  <2>6. QED
    BY <2>1, <2>2, <2>3, <2>4, <2>5
<1>6. QED
  BY <1>1, <1>2, <1>3, <1>4, <1>5, SameWorld DEF Delivery!World!worldVars

\* A share is the world's share, unless it completes the order: then the world has not
\* seen it yet.
LEMMA ShareSubmits ==
  ASSUME DeliveryInv, DeliveryInv', NEW a \in Delivery!Actions, Delivery!Step(a),
         a.type = "submit"
  PROVE  Delivery!World!Submit(a.member) \/ UNCHANGED Delivery!World!worldVars
<1>1. /\ a.member \in Members /\ a = Delivery!Act("submit", a.member)
      /\ process.finalized /\ ~process.delivered /\ a.member \notin process.submitted
      /\ process' = [process EXCEPT !.submitted = @ \cup {a.member}]
  BY ActionFacts
<1>2. /\ process.opened /\ Len(trace) >= 2 /\ Len(trace) \in Nat
      /\ trace \in Seq(Delivery!Actions) /\ trace # <<>>
  BY <1>1, LenProperties DEF DeliveryInv
<1>3. /\ process'.opened /\ process'.submitted = process.submitted \cup {a.member}
      /\ ~process'.delivered /\ process'.withdrawn = process.withdrawn
      /\ process'.opened = process.opened /\ process'.delivered = process.delivered
  BY <1>1, <1>2 DEF DeliveryInv
<1>4. ~Delivery!Pending
  BY <1>1 DEF Delivery!Pending
<1>5. /\ trace' = Append(trace, a) /\ trace' \in Seq(Delivery!Actions) /\ trace' # <<>>
      /\ Len(trace') = Len(trace) + 1 /\ trace'[Len(trace')] = a
  <2>1. trace' = Append(trace, a)
    BY <1>1, ActionFacts
  <2>2. QED
    BY <1>2, <2>1, AppendProperties
<1>6. Delivery!WorldRoute = Kept(trace, Len(trace))
  BY <1>1, <1>2, <1>4, WorldView
<1>7. Kept(trace', Len(trace)) = Kept(trace, Len(trace))
  BY <1>2, <1>5, KeptFacts
<1>8. CASE process'.submitted = Members
  <2>1. Delivery!Pending'
    BY <1>3, <1>8 DEF Delivery!Pending
  <2>2. Delivery!WorldRoute' = Kept(trace', Len(trace') - 1)
    BY <1>3, <2>1 DEF Delivery!WorldRoute, Kept
  <2>3. Delivery!WorldRoute' = Delivery!WorldRoute
    BY <1>2, <1>5, <1>6, <1>7, <2>2
  <2>4. Delivery!Last(trace)' = a
    BY <1>5 DEF Delivery!Last
  <2>5. process'.submitted \ {Delivery!Last(trace)'.member} = process.submitted
    BY <1>1, <1>3, <2>4
  <2>6. QED
    BY <1>1, <1>3, <1>4, <2>1, <2>3, <2>5, SameWorld DEF Delivery!World!worldVars
<1>9. CASE process'.submitted # Members
  <2>1. ~Delivery!Pending'
    BY <1>9 DEF Delivery!Pending
  <2>2. Delivery!WorldRoute' = Kept(trace', Len(trace'))
    BY <1>2, <1>3, <1>5, <2>1 DEF Delivery!WorldRoute, Kept
  <2>3. Delivery!WorldRoute' = Append(Delivery!WorldRoute, a)
    <3>1. Len(trace') \in 3 .. Len(trace') /\ Len(trace') - 1 = Len(trace)
      BY <1>2, <1>5
    <3>2. Kept(trace', Len(trace')) = Append(Kept(trace', Len(trace') - 1), trace'[Len(trace')])
      BY <1>5, <3>1, KeptFacts
    <3>3. QED
      BY <1>5, <1>6, <1>7, <2>2, <3>1, <3>2
  <2>4. a = Delivery!World!Act("submit", a.member)
    BY <1>1 DEF Delivery!Act, Delivery!World!Act
  <2>5. Delivery!World!Submit(a.member)
    BY <1>1, <1>2, <1>3, <1>4, <1>9, <2>1, <2>3, <2>4, SameWorld DEF Delivery!World!Submit
  <2>6. QED
    BY <2>5
<1>10. QED
  BY <1>8, <1>9

\* The delivery is the world's last share.
LEMMA DeliverySubmits ==
  ASSUME DeliveryInv, DeliveryInv', NEW a \in Delivery!Actions, Delivery!Step(a),
         a.type = "deliver"
  PROVE  \E m \in Members : Delivery!World!Submit(m)
<1>. DEFINE b == trace[Len(trace)]
            last == Delivery!Last(trace).member
<1>1. /\ process.finalized /\ ~process.delivered /\ process.submitted = Members
      /\ process' = [process EXCEPT !.delivered = TRUE]
  BY ActionFacts
<1>2. Delivery!Pending /\ ~Delivery!Pending'
  BY <1>1 DEF Delivery!Pending, DeliveryInv
<1>3. /\ process.opened /\ Len(trace) >= 3 /\ Len(trace) \in Nat /\ process.withdrawn = {}
      /\ trace \in Seq(Delivery!Actions) /\ trace # <<>>
      /\ last \in Members /\ b = Delivery!Act("submit", last)
  BY <1>1, <1>2, LenProperties, WorldView DEF DeliveryInv
<1>4. /\ process'.opened /\ process'.submitted = Members
      /\ process'.delivered /\ process'.withdrawn = {}
  BY <1>1, <1>3 DEF DeliveryInv
<1>5. /\ trace' = Append(trace, a) /\ trace' \in Seq(Delivery!Actions) /\ trace' # <<>>
      /\ Len(trace') = Len(trace) + 1
  <2>1. trace' = Append(trace, a)
    BY <1>1, ActionFacts
  <2>2. QED
    BY <1>3, <2>1, AppendProperties
<1>6. Delivery!WorldRoute = Kept(trace, Len(trace) - 1)
  BY <1>2, <1>3, WorldView
<1>7. Delivery!WorldRoute' = Kept(trace', Len(trace))
  <2>1. Delivery!WorldRoute' = Kept(trace', Len(trace') - 1)
    BY <1>4 DEF Delivery!WorldRoute, Kept
  <2>2. QED
    BY <1>3, <1>5, <2>1
<1>8. Delivery!WorldRoute' = Append(Delivery!WorldRoute, b)
  <2>1. Len(trace) \in 3 .. Len(trace) /\ Len(trace) \in 2 .. Len(trace)
    BY <1>3
  <2>2. Kept(trace', Len(trace)) = Kept(trace, Len(trace))
    BY <1>3, <1>5, <2>1, KeptFacts
  <2>3. Kept(trace, Len(trace)) = Append(Kept(trace, Len(trace) - 1), b)
    BY <1>3, <2>1, KeptFacts
  <2>4. QED
    BY <1>6, <1>7, <2>2, <2>3
<1>9. b = Delivery!World!Act("submit", last)
  BY <1>3 DEF Delivery!Act, Delivery!World!Act
<1>10. /\ Delivery!Debit' = Delivery!Debit /\ Delivery!Withdrawn' = Delivery!Withdrawn
  BY <1>3, <1>4 DEF Delivery!Debit, Delivery!Withdrawn
<1>11. [k \in Members |-> IF process'.delivered /\ k \notin process'.withdrawn
                          THEN Amount[k] ELSE 0] = Amount
  BY <1>4, ToyAssumption
<1>12. PICK m \in Members : m = last
  BY <1>3
<1>. HIDE DEF b, last
<1>13. Delivery!World!Submit(m)
  BY <1>1, <1>2, <1>3, <1>4, <1>8, <1>9, <1>10, <1>11, <1>12 DEF Delivery!World!Submit, last
<1>14. QED
  BY <1>13

\* A withdrawal is the world's.
LEMMA WithdrawalWithdraws ==
  ASSUME DeliveryInv, DeliveryInv', NEW a \in Delivery!Actions, Delivery!Step(a),
         a.type = "withdraw"
  PROVE  Delivery!World!Withdraw(a.member)
<1>. DEFINE m == a.member
            w == process.withdrawn
            credits(s) == [k \in Members |-> IF process.delivered /\ k \notin s
                                             THEN Amount[k] ELSE 0]
            got(s) == [k \in Members |-> IF k \in s THEN Amount[k] ELSE 0]
<1>1. /\ m \in Members /\ process.delivered /\ m \notin w
      /\ process' = [process EXCEPT !.withdrawn = @ \cup {m}]
      /\ trace' = trace
  BY ActionFacts
<1>2. /\ w \in SUBSET Members /\ process.submitted = Members /\ process.opened
      /\ process'.withdrawn = w \cup {m} /\ process'.submitted = process.submitted
      /\ process'.delivered = process.delivered /\ process'.opened = process.opened
  BY <1>1, MembersExist DEF DeliveryInv
<1>3. ~Delivery!Pending /\ ~Delivery!Pending'
  BY <1>1, <1>2 DEF Delivery!Pending
<1>4. Delivery!WorldRoute' = Delivery!WorldRoute /\ Delivery!Debit' = Delivery!Debit
  BY <1>1, <1>2, <1>3 DEF Delivery!WorldRoute, Delivery!Debit
<1>5. Delivery!Withdrawn = got(w) /\ Delivery!Withdrawn' = got(w \cup {m})
  BY <1>2 DEF Delivery!Withdrawn
<1>6. /\ Amount[m] \in Nat \ {0} /\ credits(w)[m] = Amount[m]
      /\ credits(w \cup {m}) = [credits(w) EXCEPT ![m] = 0]
      /\ got(w \cup {m}) = [got(w) EXCEPT ![m] = @ + Amount[m]]
  <2>1. Amount \in [Members -> Nat \ {0}]
    BY ToyAssumption
  <2>2. /\ Amount[m] \in Nat \ {0} /\ credits(w)[m] = Amount[m]
        /\ got(w)[m] = 0 /\ 0 + Amount[m] = Amount[m]
    BY <1>1, <2>1
  <2>3. \A k \in Members : credits(w \cup {m})[k] = [credits(w) EXCEPT ![m] = 0][k]
    BY <1>1
  <2>4. \A k \in Members : got(w \cup {m})[k] = [got(w) EXCEPT ![m] = @ + Amount[m]][k]
    BY <1>1, <2>2
  <2>5. credits(w \cup {m}) = [credits(w) EXCEPT ![m] = 0]
    BY <2>3
  <2>6. got(w \cup {m}) = [got(w) EXCEPT ![m] = @ + Amount[m]]
    BY <2>4
  <2>7. QED
    BY <2>2, <2>5, <2>6
<1>7. /\ Total(got(w)) \in Nat /\ Total(got(w \cup {m})) = Total(got(w)) + Amount[m]
      /\ Total(Amount) \in Nat /\ Amount[m] <= Total(Amount) - Total(got(w))
  <2>1. m \in Members \ w
    BY <1>1
  <2>. HIDE DEF m, w
  <2>2. QED
    BY <1>2, <2>1, WithdrawnFacts
<1>8. Delivery!Debit = Total(Amount)
  BY <1>2, SameTotals DEF Delivery!Debit
<1>9. /\ Delivery!Total(Delivery!Withdrawn) = Total(got(w))
      /\ Delivery!Total(Delivery!Withdrawn)' = Total(got(w \cup {m}))
  BY <1>5, SameTotals
<1>10. credits(w)' = credits(w \cup {m})
  BY <1>2
<1>11. /\ credits(w)[m] # 0
       /\ Delivery!Debit - Delivery!Total(Delivery!Withdrawn) >= credits(w)[m]
       /\ Delivery!Debit' - Delivery!Total(Delivery!Withdrawn)'
            = Delivery!Debit - Delivery!Total(Delivery!Withdrawn) - credits(w)[m]
  <2>. HIDE DEF m, w, credits, got
  <2>1. Amount[m] \in Nat \ {0} /\ credits(w)[m] = Amount[m]
    BY <1>6
  <2>2. QED
    BY <1>4, <1>7, <1>8, <1>9, <2>1
<1>12. Delivery!Withdrawn' = [Delivery!Withdrawn EXCEPT ![m] = @ + credits(w)[m]]
  <2>1. got(w)[m] + credits(w)[m] = got(w)[m] + Amount[m]
    BY <1>6
  <2>2. QED
    BY <1>5, <1>6, <2>1
<1>13. credits(w)' = [credits(w) EXCEPT ![m] = 0]
  BY <1>6, <1>10
<1>14. QED
  BY <1>1, <1>2, <1>3, <1>4, <1>11, <1>12, <1>13 DEF Delivery!World!Withdraw

\* The delivery extension behaves as the certified world whenever the buyer can pay for
\* the order: finality and the wait for delivery are invisible, and the share that
\* completes an order counts when the order is delivered.
THEOREM DeliveryImplementsWorld ==
  ASSUME Total(Amount) <= InitialBalance
  PROVE  Delivery!Spec => DeliveryExtendsWorld
<1>1. Delivery!Init => DeliveryInv /\ Delivery!World!Init
  BY DeliveryBegins
<1>2. DeliveryInv /\ [Delivery!Next]_Delivery!processVars
        => DeliveryInv' /\ [Delivery!World!Next]_Delivery!World!worldVars
  <2>1. ASSUME DeliveryInv, Delivery!Next
        PROVE  DeliveryInv' /\ [Delivery!World!Next]_Delivery!World!worldVars
    <3>1. PICK a \in Delivery!Actions : Delivery!Step(a)
      BY <2>1 DEF Delivery!Next
    <3>2. DeliveryInv'
      BY <2>1, <3>1, DeliveryKeeps
    <3>3. CASE a.type = "open"
      BY <2>1, <3>1, <3>2, <3>3, OpeningOpens DEF Delivery!World!Next
    <3>4. CASE a.type = "finalize"
      BY <2>1, <3>1, <3>2, <3>4, FinalityStutters
    <3>5. CASE a.type = "submit"
      <4>1. a.member \in Members
        BY <2>1, <3>1, <3>5, ActionFacts
      <4>2. QED
        BY <2>1, <3>1, <3>2, <3>5, <4>1, ShareSubmits DEF Delivery!World!Next
    <3>6. CASE a.type = "deliver"
      BY <2>1, <3>1, <3>2, <3>6, DeliverySubmits DEF Delivery!World!Next
    <3>7. CASE a.type = "withdraw"
      <4>1. a.member \in Members
        BY <2>1, <3>1, <3>7, ActionFacts
      <4>2. QED
        BY <2>1, <3>1, <3>2, <3>7, <4>1, WithdrawalWithdraws DEF Delivery!World!Next
    <3>8. a.type \in {"open", "finalize", "submit", "deliver", "withdraw"}
      BY <2>1, <3>1, ActionFacts
    <3>9. QED
      BY <3>2, <3>3, <3>4, <3>5, <3>6, <3>7, <3>8
  <2>2. ASSUME DeliveryInv, UNCHANGED Delivery!processVars
        PROVE  DeliveryInv' /\ UNCHANGED Delivery!World!worldVars
    <3>1. process' = process /\ trace' = trace
      BY <2>2 DEF Delivery!processVars
    <3>2. DeliveryInv'
      BY <2>2, <3>1 DEF DeliveryInv, Delivery!Pending
    <3>3. UNCHANGED Delivery!World!worldVars
      BY <3>1 DEF Delivery!World!worldVars, Delivery!Pending, Delivery!Last, Delivery!Debit,
                  Delivery!Withdrawn, Delivery!WorldRoute
    <3>4. QED
      BY <3>2, <3>3
  <2>3. QED
    BY <2>1, <2>2
<1>3. QED
  BY <1>1, <1>2, PTL
     DEF Delivery!Spec, DeliveryExtendsWorld, Delivery!DeliveryExtendsWorld, Delivery!World!Spec
=============================================================================
