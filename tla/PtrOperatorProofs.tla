-------------------------- MODULE PtrOperatorProofs --------------------------
(***************************************************************************)
(* Proofs that an operator answers no nonce that its log gives back twice, *)
(* none twice in the life of one process, and records what it answers, for *)
(* every number of threads, requests and kills and all nonces that clients *)
(* can choose, as long as no append is cut short.                          *)
(***************************************************************************)
EXTENDS PtrOperator, TLAPS

-----------------------------------------------------------------------------
(* What the log makes of a nonce.                                          *)

\* What is read back are nonces again.
LEMMA StrippedType ==
  ASSUME NEW n \in Seq(Lines)
  PROVE  Stripped(n) \subseteq Seq(Lines)
<1>. SUFFICES ASSUME NEW i \in DOMAIN n
              PROVE  <<[text |-> n[i].text, padded |-> FALSE]>> \in Seq(Lines)
  BY DEF Stripped
<1>1. n[i] \in Lines
  OBVIOUS
<1>2. [text |-> n[i].text, padded |-> FALSE] \in Lines
  BY <1>1 DEF Lines
<1>3. QED
  BY <1>2

\* A complete append adds what the log gives back of the nonce.
LEMMA AppendedFacts ==
  ASSUME OInv, NEW lines \in Seq(Lines)
  PROVE  Appended(lines) = log \cup Stripped(lines)
BY DEF OInv, Appended

\* How often a nonce may have been answered before is a number, and none for one that
\* the log gives back.
LEMMA EarlierFacts ==
  ASSUME OInv, NEW n \in Nonces
  PROVE  Earlier(n) \in Nat /\ (n \in Surviving => Earlier(n) = 0 /\ Stripped(n) = {n})
BY OperatorConstants DEF OInv, TypeOK, Earlier, Surviving, Survives

-----------------------------------------------------------------------------
\* No thread serves a request and nothing is on disk.
LEMMA InitOInv == Init => OInv
<1>. SUFFICES ASSUME Init PROVE OInv
  OBVIOUS
<1>1. (CHOOSE n \in Nonces : TRUE) \in Nonces
  BY OperatorConstants
<1>2. TypeOK
  BY <1>1, OperatorConstants DEF Init, TypeOK, Steps
<1>3. \A n \in Nonces : Earlier(n) = 0 /\ answers[n] = 0 /\ transcript[n] = 0
  BY DEF Init, Earlier
<1>4. AnsweredOnce /\ AnswersAudited /\ DiskIsAhead
  BY <1>3 DEF AnsweredOnce, AnswersAudited, DiskIsAhead, Surviving
<1>5. QED
  BY <1>2, <1>4 DEF Init, OInv, GrantsAreExclusive, Serving

-----------------------------------------------------------------------------
(* One lemma per step of a thread.                                         *)

\* A request arrives; its nonce is not looked up yet.
LEMMA ReceiveOInv ==
  ASSUME OInv, NEW t \in Threads, NEW n \in Nonces, NEW ok \in BOOLEAN, Receive(t, n, ok)
  PROVE  OInv'
<1>. USE DEF Receive, Goto, files, Earlier
<1>1. TypeOK'
  BY OperatorConstants DEF OInv, TypeOK, Steps
<1>2. \A u \in Threads : Serving(u)' => Serving(u) /\ u # t
  BY DEF OInv, TypeOK, Serving
<1>3. GrantsAreExclusive'
  BY <1>2 DEF OInv, TypeOK, GrantsAreExclusive, Serving
<1>4. QED
  BY <1>1, <1>3 DEF OInv, AnsweredOnce, AnswersAudited, DiskIsAhead

\* Under the lock, the grant of a nonce that nobody was granted before.
LEMMA LookUpNewOInv ==
  ASSUME OInv, NEW t \in Threads, LookUpNew(t)
  PROVE  OInv'
<1>. USE DEF LookUpNew, Goto, files, counted, Earlier
<1>1. /\ nonce[t] \in Nonces /\ nonce[t] \notin seen /\ up
      /\ answers[nonce[t]] <= Earlier(nonce[t])
  <2>1. nonce[t] \in Nonces /\ nonce[t] \notin seen /\ up
    BY DEF OInv, TypeOK, Replayed
  <2>2. answers[nonce[t]] \in Nat /\ Earlier(nonce[t]) \in Nat
    BY <2>1, EarlierFacts DEF OInv, TypeOK
  <2>3. QED
    BY <2>1, <2>2 DEF OInv, DiskIsAhead
<1>2. TypeOK'
  <2>1. pc' \in [Threads -> Steps] /\ seen' \subseteq Seq(Lines)
    BY <1>1, OperatorConstants DEF OInv, TypeOK, Steps
  <2>2. \A u \in Threads : lock' = u <=> pc'[u] = "append"
    BY OperatorConstants DEF OInv, TypeOK
  <2>3. QED
    BY <1>1, <2>1, <2>2 DEF OInv, TypeOK
<1>3. GrantsAreExclusive'
  BY <1>1 DEF OInv, TypeOK, GrantsAreExclusive, Serving
<1>4. QED
  BY <1>2, <1>3 DEF OInv, AnsweredOnce, AnswersAudited, DiskIsAhead

\* A thread moves on, holding or releasing nothing and touching no nonce: to
\* a place where it has no grant, or keeping the one it has.
LEMMA MoveOnOInv ==
  ASSUME OInv, NEW t \in Threads, NEW step \in Steps \ {"append", "send"},
         Goto(t, step), pc[t] # "append", pc[t] # "idle",
         step \in {"compute", "record"} => Serving(t),
         UNCHANGED <<up, nonce, sound, lock, seen, files, answers, counted>>
  PROVE  OInv'
<1>. USE DEF Goto, files, counted, Earlier
<1>1. TypeOK'
  BY DEF OInv, TypeOK
<1>2. GrantsAreExclusive'
  BY DEF OInv, TypeOK, GrantsAreExclusive, Serving, Steps
<1>3. QED
  BY <1>1, <1>2 DEF OInv, AnsweredOnce, AnswersAudited, DiskIsAhead

\* What the log gives back of the nonce is on disk before the lock is released.
LEMMA AppendNonceOInv ==
  ASSUME OInv, NEW t \in Threads, AppendNonce(t)
  PROVE  OInv'
<1>. USE DEF AppendNonce, Goto, counted, Earlier
<1>1. /\ nonce[t] \in Nonces /\ nonce[t] \in Seq(Lines) /\ Serving(t) /\ up
      /\ nonce[t] \in seen /\ log' = log \cup Stripped(nonce[t]) /\ torn' = {}
  <2>1. nonce[t] \in Nonces /\ nonce[t] \in Seq(Lines)
    BY OperatorConstants DEF OInv, TypeOK
  <2>2. QED
    BY <2>1, AppendedFacts DEF OInv, TypeOK, GrantsAreExclusive, Serving
<1>2. TypeOK'
  <2>1. pc' \in [Threads -> Steps] /\ log' \subseteq Seq(Lines)
    BY <1>1, StrippedType DEF OInv, TypeOK, Steps
  <2>2. \A u \in Threads : lock' = u <=> pc'[u] = "append"
    BY OperatorConstants DEF OInv, TypeOK
  <2>3. QED
    BY <1>1, <2>1, <2>2 DEF OInv, TypeOK
<1>3. GrantsAreExclusive'
  BY <1>1 DEF OInv, TypeOK, GrantsAreExclusive, Serving
<1>4. QED
  BY <1>1, <1>2, <1>3 DEF OInv, AnsweredOnce, AnswersAudited, DiskIsAhead

\* A failed append leaves the file as it was: it is not cut short.
LEMMA FailToAppendFacts ==
  ASSUME OInv, MaxShortWrites = 0, NEW f, NEW cut \in BOOLEAN, FailToAppend(f, cut)
  PROVE  cut = FALSE /\ torn' = {} /\ shortWrites' = shortWrites
BY DEF FailToAppend, OInv, TypeOK

LEMMA NothingAppended ==
  ASSUME OInv, MaxShortWrites = 0, NEW t \in Threads, NonceNotAppended(t)
  PROVE  torn' = {} /\ shortWrites' = shortWrites /\ log' = log
<1>1. PICK cut \in BOOLEAN, whole \in 0 .. Len(nonce[t]) - 1 :
        /\ FailToAppend("log", cut)
        /\ IF cut THEN nonce[t][whole + 1] # EmptyLine ELSE whole = 0
        /\ log' = Appended(SubSeq(nonce[t], 1, whole))
  BY DEF NonceNotAppended
<1>2. cut = FALSE /\ torn' = {} /\ shortWrites' = shortWrites
  BY <1>1, FailToAppendFacts
<1>3. log' = Appended(SubSeq(nonce[t], 1, 0))
  BY <1>1, <1>2
<1>4. nonce[t] \in Seq(Lines)
  BY OperatorConstants DEF OInv, TypeOK
<1>5. SubSeq(nonce[t], 1, 0) = << >>
  BY <1>4
<1>6. Stripped(<< >>) = {}
  BY DEF Stripped
<1>7. Appended(<< >>) = log \cup Stripped(<< >>)
  <2>1. << >> \in Seq(Lines)
    OBVIOUS
  <2>2. QED
    BY <2>1, AppendedFacts
<1>8. QED
  BY <1>2, <1>3, <1>5, <1>6, <1>7

\* An append that fails ends the request without an answer.
LEMMA NonceNotAppendedOInv ==
  ASSUME OInv, MaxShortWrites = 0, NEW t \in Threads, NonceNotAppended(t)
  PROVE  OInv'
<1>. USE DEF NonceNotAppended, Goto, Earlier
<1>1. torn' = {} /\ shortWrites' = shortWrites /\ log' = log
  BY NothingAppended
<1>2. TypeOK'
  <2>1. pc' \in [Threads -> Steps]
    BY DEF OInv, TypeOK, Steps
  <2>2. \A u \in Threads : lock' = u <=> pc'[u] = "append"
    BY OperatorConstants DEF OInv, TypeOK
  <2>3. up
    BY DEF OInv, TypeOK
  <2>4. QED
    BY <1>1, <2>1, <2>2, <2>3 DEF OInv, TypeOK
<1>3. GrantsAreExclusive'
  BY <1>1 DEF OInv, TypeOK, GrantsAreExclusive, Serving
<1>4. QED
  BY <1>1, <1>2, <1>3 DEF OInv, AnsweredOnce, AnswersAudited, DiskIsAhead

\* A nonce that is known is refused.
LEMMA RefuseReplayOInv ==
  ASSUME OInv, NEW t \in Threads, RefuseReplay(t)
  PROVE  OInv'
<1>1. torn' = torn
  BY DEF RefuseReplay, OInv
<1>2. "idle" \in Steps \ {"append", "send"}
  BY DEF Steps
<1>3. QED
  BY <1>1, <1>2, MoveOnOInv DEF RefuseReplay, files

\* The transcript has the answer before it is sent.
LEMMA RecordAnswerOInv ==
  ASSUME OInv, NEW t \in Threads, RecordAnswer(t)
  PROVE  OInv'
<1>. USE DEF RecordAnswer, Goto, counted, Earlier
<1>1. /\ nonce[t] \in Nonces /\ Serving(t) /\ up
      /\ transcript' = [transcript EXCEPT ![nonce[t]] = @ + 1] /\ torn' = {}
  BY DEF OInv, TypeOK, Serving
<1>2. /\ transcript \in [Nonces -> Nat] /\ transcript' \in [Nonces -> Nat]
      /\ answers \in [Nonces -> Nat] /\ answers[nonce[t]] < transcript'[nonce[t]]
      /\ \A n \in Nonces : transcript'[n] >= transcript[n]
  BY <1>1 DEF OInv, TypeOK, AnswersAudited
<1>3. TypeOK'
  <2>1. pc' \in [Threads -> Steps]
    BY DEF OInv, TypeOK, Steps
  <2>2. \A u \in Threads : lock' = u <=> pc'[u] = "append"
    BY DEF OInv, TypeOK
  <2>3. QED
    BY <1>1, <1>2, <2>1, <2>2 DEF OInv, TypeOK
<1>4. GrantsAreExclusive'
  BY <1>1, <1>2 DEF OInv, TypeOK, GrantsAreExclusive, Serving
<1>5. AnswersAudited'
  BY <1>2 DEF OInv, TypeOK, AnswersAudited
<1>6. QED
  BY <1>1, <1>3, <1>4, <1>5 DEF OInv, AnsweredOnce, DiskIsAhead

\* An answer that cannot be recorded is not sent.
LEMMA NotRecordedOInv ==
  ASSUME OInv, MaxShortWrites = 0, NEW t \in Threads, NotRecorded(t)
  PROVE  OInv'
<1>1. torn' = {} /\ torn = {} /\ shortWrites' = shortWrites
  <2>1. PICK cut \in BOOLEAN : FailToAppend("transcript", cut)
    BY DEF NotRecorded
  <2>2. QED
    BY <2>1, FailToAppendFacts DEF OInv
<1>2. "idle" \in Steps \ {"append", "send"}
  BY DEF Steps
<1>3. QED
  BY <1>1, <1>2, MoveOnOInv DEF NotRecorded, files, counted

\* The answer leaves; the grant ends, and the nonce stays known.
LEMMA SendAnswerOInv ==
  ASSUME OInv, NEW t \in Threads, SendAnswer(t)
  PROVE  OInv'
<1>. USE DEF SendAnswer, Goto, files, counted, Earlier
<1>1. /\ nonce[t] \in Nonces /\ Serving(t) /\ up /\ answers[nonce[t]] <= Earlier(nonce[t])
      /\ nonce[t] \in seen /\ Stripped(nonce[t]) \subseteq log
      /\ answers[nonce[t]] < transcript[nonce[t]]
      /\ \A u \in Threads \ {t} : Serving(u) => nonce[u] # nonce[t]
  BY DEF OInv, TypeOK, GrantsAreExclusive, Serving
<1>2. /\ answers \in [Nonces -> Nat] /\ transcript \in [Nonces -> Nat]
      /\ answers' \in [Nonces -> Nat] /\ answers'[nonce[t]] = answers[nonce[t]] + 1
      /\ \A n \in Nonces \ {nonce[t]} : answers'[n] = answers[n]
  BY <1>1 DEF OInv, TypeOK
<1>3. TypeOK'
  <2>1. pc' \in [Threads -> Steps]
    BY DEF OInv, TypeOK, Steps
  <2>2. \A u \in Threads : lock' = u <=> pc'[u] = "append"
    BY DEF OInv, TypeOK
  <2>3. QED
    BY <1>1, <1>2, <2>1, <2>2 DEF OInv, TypeOK
<1>4. GrantsAreExclusive'
  BY <1>1, <1>2 DEF OInv, TypeOK, GrantsAreExclusive, Serving
<1>5. AnsweredOnce'
  <2>. SUFFICES ASSUME NEW n \in Nonces PROVE answers'[n] <= 1 + Earlier(n)
    BY DEF AnsweredOnce
  <2>1. Earlier(n) \in Nat
    BY EarlierFacts
  <2>2. CASE n = nonce[t]
    BY <1>1, <1>2, <2>1, <2>2
  <2>3. CASE n # nonce[t]
    BY <1>2, <2>3 DEF OInv, AnsweredOnce
  <2>4. QED
    BY <2>2, <2>3
<1>6. AnswersAudited'
  BY <1>1, <1>2 DEF OInv, AnswersAudited
<1>7. DiskIsAhead'
  <2>1. \A n \in Surviving : answers'[n] # 0 => n \in log
    BY <1>1, <1>2, EarlierFacts DEF OInv, DiskIsAhead, Surviving
  <2>2. \A n \in Nonces : answers'[n] > Earlier(n) => n \in seen
    BY <1>1, <1>2 DEF OInv, DiskIsAhead
  <2>3. QED
    BY <1>1, <2>1, <2>2 DEF DiskIsAhead
<1>8. QED
  BY <1>3, <1>4, <1>5, <1>6, <1>7 DEF OInv

\* A kill takes threads, lock and memory, and leaves the disk.
LEMMA KillOInv ==
  ASSUME OInv, Kill
  PROVE  OInv'
<1>. USE DEF Kill, files
<1>1. TypeOK'
  <2>1. pc' \in [Threads -> Steps] /\ \A u \in Threads : pc'[u] = "idle"
    BY DEF Steps
  <2>2. \A u \in Threads : lock' = u <=> pc'[u] = "append"
    BY <2>1, OperatorConstants
  <2>3. kills' \in 0 .. MaxKills
    BY OperatorConstants DEF OInv, TypeOK
  <2>4. QED
    BY <2>1, <2>2, <2>3 DEF OInv, TypeOK
<1>2. GrantsAreExclusive'
  BY DEF GrantsAreExclusive, Serving
<1>3. \A n \in Nonces :
        /\ answers[n] \in Nat /\ Earlier(n) \in Nat /\ Earlier(n)' \in Nat
        /\ Earlier(n)' >= Earlier(n)
        /\ n \notin Surviving => Earlier(n)' = Earlier(n) + 1
  BY DEF OInv, TypeOK, Earlier, Surviving
<1>4. AnsweredOnce' /\ AnswersAudited'
  BY <1>3 DEF OInv, AnsweredOnce, AnswersAudited
<1>5. DiskIsAhead'
  BY <1>3 DEF OInv, AnsweredOnce, DiskIsAhead
<1>6. QED
  BY <1>1, <1>2, <1>4, <1>5 DEF OInv

\* A restart knows what is on disk.
LEMMA RestartOInv ==
  ASSUME OInv, Restart
  PROVE  OInv'
<1>. USE DEF Restart, Loaded, thread, files, counted, Earlier
<1>1. TypeOK'
  BY DEF OInv, TypeOK
<1>2. GrantsAreExclusive'
  BY DEF OInv, TypeOK, GrantsAreExclusive, Serving
<1>3. \A n \in Nonces : answers[n] > Earlier(n) => n \in log
  <2>. SUFFICES ASSUME NEW n \in Nonces, answers[n] > Earlier(n) PROVE n \in log
    OBVIOUS
  <2>1. n \in Surviving
    BY DEF OInv, DiskIsAhead
  <2>2. answers[n] # 0
    BY <2>1, EarlierFacts
  <2>3. QED
    BY <2>1, <2>2 DEF OInv, DiskIsAhead
<1>4. DiskIsAhead'
  BY <1>3 DEF OInv, DiskIsAhead
<1>5. QED
  BY <1>1, <1>2, <1>4 DEF OInv, AnsweredOnce, AnswersAudited

-----------------------------------------------------------------------------
(* The theorems.                                                           *)

\* The grants of nonces to threads stay exclusive and backed by the disk,
\* whatever the threads' interleaving and wherever the process is killed.
THEOREM Invariant == ASSUME MaxShortWrites = 0 PROVE Spec => []OInv
<1>1. Init => OInv
  BY InitOInv
<1>2. OInv /\ [Next]_vars => OInv'
  <2>. SUFFICES ASSUME OInv, [Next]_vars PROVE OInv'
    OBVIOUS
  <2>1. CASE \E t \in Threads, n \in Nonces, ok \in BOOLEAN : Receive(t, n, ok)
    BY <2>1, ReceiveOInv
  <2>2. ASSUME NEW t \in Threads, Serve(t)
        PROVE  OInv'
    <3>1. CASE LookUpNew(t)
      BY <3>1, LookUpNewOInv
    <3>2. CASE LookUpReplayed(t)
      BY <3>2, MoveOnOInv DEF LookUpReplayed, Released, Steps
    <3>3. CASE AppendNonce(t)
      BY <3>3, AppendNonceOInv
    <3>4. CASE NonceNotAppended(t)
      BY <3>4, NonceNotAppendedOInv
    <3>5. CASE RefuseReplay(t)
      BY <3>5, RefuseReplayOInv
    <3>6. CASE RefuseCiphertext(t)
      BY <3>6, MoveOnOInv DEF RefuseCiphertext, Steps
    <3>7. CASE Compute(t)
      BY <3>7, MoveOnOInv DEF Compute, AfterSigning, Steps, Serving
    <3>8. CASE RecordAnswer(t)
      BY <3>8, RecordAnswerOInv
    <3>9. CASE NotRecorded(t)
      BY <3>9, NotRecordedOInv
    <3>10. CASE SendAnswer(t)
      BY <3>10, SendAnswerOInv
    <3>11. CASE SendFails(t)
      BY <3>11, MoveOnOInv DEF SendFails, Steps
    <3>12. QED
      BY <2>2, <3>1, <3>2, <3>3, <3>4, <3>5, <3>6, <3>7, <3>8, <3>9, <3>10, <3>11 DEF Serve
  <2>3. CASE Kill
    BY <2>3, KillOInv
  <2>4. CASE Restart
    BY <2>4, RestartOInv
  <2>5. CASE UNCHANGED vars
    BY <2>5 DEF vars, thread, files, counted, OInv, TypeOK, AnsweredOnce, AnswersAudited,
       GrantsAreExclusive, Serving, DiskIsAhead, Earlier
  <2>6. QED
    BY <2>1, <2>2, <2>3, <2>4, <2>5 DEF Next
<1>3. QED
  BY <1>1, <1>2, PTL DEF Spec

\* Unless an append is cut short, no nonce that the log gives back is ever answered
\* twice, and none is answered twice by the same process.
THEOREM NeverAnsweredTwice == ASSUME MaxShortWrites = 0 PROVE Spec => []AnsweredOnce
<1>1. OInv => AnsweredOnce
  BY DEF OInv
<1>2. QED
  BY <1>1, Invariant, PTL

\* Unless an append is cut short, every answer sent is in the transcript.
THEOREM EveryAnswerAudited == ASSUME MaxShortWrites = 0 PROVE Spec => []AnswersAudited
<1>1. OInv => AnswersAudited
  BY DEF OInv
<1>2. QED
  BY <1>1, Invariant, PTL

\* About the nonces that the log gives back the operator implements AnswerOnce:
\* appending a nonce spends those that are read back of it, sending the answer answers
\* it, and every other step, about whatever nonce, leaves both as they are.
THEOREM Refinement == ASSUME MaxShortWrites = 0 PROVE Spec => ImplementsAnswerOnce
<1>. DEFINE spent == log \cap Surviving
            surviving == [n \in Surviving |-> answers[n]]
<1>1. Init => Promise!Init
  BY DEF Init, Promise!Init, Surviving
<1>2. OInv /\ [Next]_vars => [Promise!Next]_<<spent, surviving>>
  <2>. SUFFICES ASSUME OInv, [Next]_vars, ~UNCHANGED <<log, answers>>
                PROVE  Promise!Next \/ UNCHANGED <<spent, surviving>>
    OBVIOUS
  <2>1. ASSUME NEW t \in Threads, AppendNonce(t)
        PROVE  Promise!Next
    <3>. DEFINE S == (Stripped(nonce[t]) \cap Surviving) \ spent
    <3>1. nonce[t] \in Seq(Lines)
      BY OperatorConstants DEF OInv, TypeOK
    <3>2. log' = log \cup Stripped(nonce[t]) /\ answers' = answers
      BY <2>1, <3>1, AppendedFacts DEF AppendNonce
    <3>3. spent' = spent \cup S /\ S \cap spent = {} /\ UNCHANGED surviving
      BY <3>2
    <3>4. Promise!Spend(S)
      BY <3>3 DEF Promise!Spend
    <3>5. S \in SUBSET Surviving
      OBVIOUS
    <3>6. QED
      BY <3>4, <3>5 DEF Promise!Next
  <2>2. ASSUME NEW t \in Threads, SendAnswer(t)
        PROVE  Promise!Next \/ UNCHANGED <<spent, surviving>>
    <3>1. /\ nonce[t] \in Nonces /\ Stripped(nonce[t]) \subseteq log
          /\ answers[nonce[t]] <= Earlier(nonce[t]) /\ answers \in [Nonces -> Nat]
      BY <2>2 DEF SendAnswer, OInv, TypeOK, GrantsAreExclusive, Serving
    <3>2. answers' = [answers EXCEPT ![nonce[t]] = @ + 1] /\ log' = log
      BY <2>2 DEF SendAnswer, files
    <3>3. CASE nonce[t] \in Surviving
      <4>1. answers[nonce[t]] = 0 /\ nonce[t] \in log
        BY <3>1, <3>3, EarlierFacts
      <4>2. surviving' = [surviving EXCEPT ![nonce[t]] = 1]
        <5>1. Surviving \subseteq Nonces
          BY DEF Surviving
        <5>2. \A n \in Surviving : answers'[n] = IF n = nonce[t] THEN 1 ELSE answers[n]
          BY <3>1, <3>2, <4>1, <5>1
        <5>3. QED
          BY <3>3, <5>2
      <4>3. PICK n \in Surviving : n = nonce[t]
        BY <3>3
      <4>4. Promise!Answer(n)
        BY <3>2, <4>1, <4>2, <4>3 DEF Promise!Answer
      <4>5. QED
        BY <4>4 DEF Promise!Next
    <3>4. CASE nonce[t] \notin Surviving
      <4>1. \A n \in Surviving : answers'[n] = answers[n]
        BY <3>1, <3>2, <3>4 DEF Surviving
      <4>2. QED
        BY <3>2, <4>1
    <3>5. QED
      BY <3>3, <3>4
  <2>3. \E t \in Threads : AppendNonce(t) \/ SendAnswer(t)
    <3>1. \A t \in Threads : NonceNotAppended(t) => log' = log /\ answers' = answers
      BY NothingAppended DEF NonceNotAppended
    <3>2. QED
      BY <3>1 DEF Next, Serve, vars, thread, files, counted, Receive, LookUpNew,
         LookUpReplayed, RefuseReplay, RefuseCiphertext, Compute, RecordAnswer,
         NotRecorded, SendFails, Kill, Restart
  <2>4. QED
    BY <2>1, <2>2, <2>3
<1>3. QED
  BY <1>1, <1>2, Invariant, PTL DEF Spec, ImplementsAnswerOnce, Promise!Spec
=============================================================================
