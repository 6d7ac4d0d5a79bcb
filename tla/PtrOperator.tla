---------------------------- MODULE PtrOperator ----------------------------
(***************************************************************************)
(* One operator process of the paid threshold-response runtime.  The HTTP  *)
(* server runs every request in a thread of its own.  A request's nonce is *)
(* looked up and, if new, remembered in memory and appended to the nonce   *)
(* log under the operator's lock; the partial decryption is computed       *)
(* without the lock, recorded in the transcript, and sent.  The process    *)
(* may be killed between any two steps; it reloads the log when it starts. *)
(*                                                                         *)
(* Requests that are malformed, of another protocol version or expired on  *)
(* arrival are refused before anything is read or written; they leave no   *)
(* trace and are not modelled.                                             *)
(*                                                                         *)
(* A nonce is whatever string the client chose.  It is written to the log  *)
(* as it is and read back line by line, so the log gives back another      *)
(* nonce, several, or none, if it is not one line of text without white    *)
(* space around it.                                                        *)
(***************************************************************************)
EXTENDS Naturals, FiniteSets, Sequences

CONSTANTS
  Threads,        \* threads of the HTTP server
  NoThread,       \* nobody holds the lock
  Texts,          \* what is left of a line without the white space around it
  Empty,          \* ... if nothing is left
  Nonces,         \* the nonces clients use: the lines of each
  MaxRequests,    \* bound: requests received
  MaxKills,       \* bound: times the process is killed
  MaxShortWrites  \* bound: appends cut short by a full disk

\* `padded': there is white space before or after the text.
Lines == [text : Texts \cup {Empty}, padded : BOOLEAN]

ASSUME OperatorConstants ==
  /\ NoThread \notin Threads
  /\ Nonces \subseteq Seq(Lines) \ {<<>>}
  /\ Nonces # {}
  /\ MaxRequests \in Nat
  /\ MaxKills \in Nat
  /\ MaxShortWrites \in Nat

VARIABLES
  up,          \* is the process running?
  pc,          \* where each thread is; "idle": no request
  nonce,       \* the nonce of the request a thread is serving
  sound,       \* does the ciphertext parse and fit the request's context?
  lock,        \* OperatorState.lock
  seen,        \* OperatorState.seen_nonces
  log,         \* the nonces that _load_nonces would read from the file
  torn,        \* the files that end in the middle of a line
  transcript,  \* per nonce, the "responded" lines in the transcript file
  answers,     \* per nonce, the answers sent with status 200
  received, kills, shortWrites   \* counted against the bounds

thread  == <<pc, nonce, sound>>
files   == <<log, transcript, torn>>
counted == <<received, kills, shortWrites>>

vars == <<up, thread, lock, seen, files, answers, counted>>

Steps == {"idle", "received", "append", "replayed", "compute", "record", "send"}

-----------------------------------------------------------------------------
(* Faulty variants of the definitions below, for mutation tests.           *)

\* The nonce is forgotten by a restart.
NothingLoaded == {}

\* The answer leaves before it is recorded.
SendAtOnce == "send"

\* record() is called inside the `with state.lock' block of the replay.
KeepLock(t) == t

\* The file is opened for writing and not for appending.
OnlyTheLast(lines) == {<<lines[i]>> : i \in DOMAIN lines}

-----------------------------------------------------------------------------
Init ==
  /\ up = TRUE
  /\ pc = [t \in Threads |-> "idle"]
  /\ nonce = [t \in Threads |-> CHOOSE n \in Nonces : TRUE]
  /\ sound = [t \in Threads |-> FALSE]
  /\ lock = NoThread
  /\ seen = {}
  /\ log = {}
  /\ torn = {}
  /\ transcript = [n \in Nonces |-> 0]
  /\ answers = [n \in Nonces |-> 0]
  /\ received = 0
  /\ kills = 0
  /\ shortWrites = 0

Goto(t, step) == pc' = [pc EXCEPT ![t] = step]

\* A request that passed the first checks of do_POST.
Receive(t, n, ok) ==
  /\ up
  /\ pc[t] = "idle"
  /\ received < MaxRequests
  /\ received' = received + 1
  /\ Goto(t, "received")
  /\ nonce' = [nonce EXCEPT ![t] = n]
  /\ sound' = [sound EXCEPT ![t] = ok]
  /\ UNCHANGED <<up, lock, seen, files, answers, kills, shortWrites>>

-----------------------------------------------------------------------------
(* The block under the lock: the lookup, and remember_nonce.               *)

Replayed(t) == nonce[t] \in seen

\* Leaving a `with state.lock' block.
Released(t) == NoThread

LookUpNew(t) ==
  /\ pc[t] = "received"
  /\ lock = NoThread
  /\ ~Replayed(t)
  /\ lock' = t
  /\ seen' = seen \cup {nonce[t]}
  /\ Goto(t, "append")
  /\ UNCHANGED <<up, nonce, sound, files, answers, counted>>

LookUpReplayed(t) ==
  /\ pc[t] = "received"
  /\ lock = NoThread
  /\ Replayed(t)
  /\ lock' = Released(t)
  /\ Goto(t, "replayed")
  /\ UNCHANGED <<up, nonce, sound, seen, files, answers, counted>>

\* line.strip() of the lines that are not blank, each a nonce of one line.
Stripped(lines) ==
  {<<[text |-> lines[i].text, padded |-> FALSE]>> : i \in {j \in DOMAIN lines : lines[j].text # Empty}}

\* The log gives the nonce back as it was.
Survives(n) == Stripped(n) = {n}

\* What the log holds after these lines were added at its end: the start of a line
\* without its end turns the first of them into something that is not a nonce.
Appended(lines) ==
  log \cup Stripped(IF "log" \in torn THEN SubSeq(lines, 2, Len(lines)) ELSE lines)

\* _append_line writes, flushes and syncs.
AppendNonce(t) ==
  /\ pc[t] = "append"
  /\ log' = Appended(nonce[t])
  /\ torn' = torn \ {"log"}
  /\ lock' = NoThread
  /\ Goto(t, "compute")
  /\ UNCHANGED <<up, nonce, sound, seen, transcript, answers, counted>>

\* An append to f fails, perhaps (`cut') after part of a line was written.
FailToAppend(f, cut) ==
  /\ cut => shortWrites < MaxShortWrites
  /\ torn' = IF cut THEN torn \cup {f} ELSE torn
  /\ shortWrites' = IF cut THEN shortWrites + 1 ELSE shortWrites

EmptyLine == [text |-> Empty, padded |-> FALSE]

\* The exception leaves the block and the handler; the connection is closed.  A nonce
\* of several lines may be cut after some of them.
NonceNotAppended(t) ==
  /\ pc[t] = "append"
  /\ \E cut \in BOOLEAN, whole \in 0 .. Len(nonce[t]) - 1 :
       /\ FailToAppend("log", cut)
       /\ IF cut THEN nonce[t][whole + 1] # EmptyLine ELSE whole = 0
       /\ log' = Appended(SubSeq(nonce[t], 1, whole))
  /\ lock' = NoThread
  /\ Goto(t, "idle")
  /\ UNCHANGED <<up, nonce, sound, seen, transcript, answers, received, kills>>

-----------------------------------------------------------------------------
(* After the lock.  record() takes the lock for the length of one append.  *)

RefuseReplay(t) ==
  /\ pc[t] = "replayed"
  /\ lock = NoThread
  /\ torn' = torn \ {"transcript"}
  /\ Goto(t, "idle")
  /\ UNCHANGED <<up, nonce, sound, lock, seen, log, transcript, answers, counted>>

\* Ciphertext.from_dict raises, or the context does not match: no answer,
\* and the nonce stays spent.
RefuseCiphertext(t) ==
  /\ pc[t] = "compute"
  /\ ~sound[t]
  /\ Goto(t, "idle")
  /\ UNCHANGED <<up, nonce, sound, lock, seen, files, answers, counted>>

AfterSigning == "record"

Compute(t) ==
  /\ pc[t] = "compute"
  /\ sound[t]
  /\ Goto(t, AfterSigning)
  /\ UNCHANGED <<up, nonce, sound, lock, seen, files, answers, counted>>

RecordAnswer(t) ==
  /\ pc[t] = "record"
  /\ lock = NoThread
  /\ transcript' =
       IF "transcript" \in torn THEN transcript ELSE [transcript EXCEPT ![nonce[t]] = @ + 1]
  /\ torn' = torn \ {"transcript"}
  /\ Goto(t, "send")
  /\ UNCHANGED <<up, nonce, sound, lock, seen, log, answers, counted>>

\* The transcript could not be written: nothing is sent, answer or refusal.
NotRecorded(t) ==
  /\ pc[t] \in {"replayed", "record"}
  /\ lock = NoThread
  /\ \E cut \in BOOLEAN : FailToAppend("transcript", cut)
  /\ Goto(t, "idle")
  /\ UNCHANGED <<up, nonce, sound, lock, seen, log, transcript, answers, received, kills>>

SendAnswer(t) ==
  /\ pc[t] = "send"
  /\ answers' = [answers EXCEPT ![nonce[t]] = @ + 1]
  /\ Goto(t, "idle")
  /\ UNCHANGED <<up, nonce, sound, lock, seen, files, counted>>

\* The client has gone: writing to the socket raises.
SendFails(t) ==
  /\ pc[t] = "send"
  /\ Goto(t, "idle")
  /\ UNCHANGED <<up, nonce, sound, lock, seen, files, answers, counted>>

-----------------------------------------------------------------------------
\* Threads and memory are gone; what was synced to the files stays.
Kill ==
  /\ up
  /\ kills < MaxKills
  /\ kills' = kills + 1
  /\ up' = FALSE
  /\ pc' = [t \in Threads |-> "idle"]
  /\ lock' = NoThread
  /\ seen' = {}
  /\ UNCHANGED <<nonce, sound, files, answers, received, shortWrites>>

\* _load_nonces: `log' is what it reads.
Loaded == log

Restart ==
  /\ ~up
  /\ up' = TRUE
  /\ seen' = Loaded
  /\ UNCHANGED <<thread, lock, files, answers, counted>>

-----------------------------------------------------------------------------
\* The steps a thread takes once it has a request.
Serve(t) ==
  \/ LookUpNew(t) \/ LookUpReplayed(t)
  \/ AppendNonce(t) \/ NonceNotAppended(t)
  \/ RefuseReplay(t) \/ RefuseCiphertext(t)
  \/ Compute(t) \/ RecordAnswer(t) \/ NotRecorded(t)
  \/ SendAnswer(t) \/ SendFails(t)

Next ==
  \/ \E t \in Threads, n \in Nonces, ok \in BOOLEAN : Receive(t, n, ok)
  \/ \E t \in Threads : Serve(t)
  \/ Kill
  \/ Restart

\* The operating system runs every thread that can run.  Nothing forces a
\* request to arrive, the process to be killed, or anyone to restart it.
Fairness == \A t \in Threads : WF_vars(Serve(t))

Spec == Init /\ [][Next]_vars /\ Fairness

-----------------------------------------------------------------------------
(* Properties.                                                             *)

\* The types, what a thread's place says about the lock, and that nothing
\* of a killed process remains in memory.
TypeOK ==
  /\ up \in BOOLEAN
  /\ pc \in [Threads -> Steps]
  /\ nonce \in [Threads -> Nonces]
  /\ sound \in [Threads -> BOOLEAN]
  /\ lock \in Threads \cup {NoThread}
  /\ seen \subseteq Seq(Lines)
  /\ log \subseteq Seq(Lines)
  /\ torn \subseteq {"log", "transcript"}
  /\ transcript \in [Nonces -> Nat]
  /\ answers \in [Nonces -> Nat]
  /\ received \in 0 .. MaxRequests
  /\ kills \in 0 .. MaxKills
  /\ shortWrites \in 0 .. MaxShortWrites
  /\ ~up => seen = {} /\ \A t \in Threads : pc[t] = "idle"
  /\ \A t \in Threads : lock = t <=> pc[t] = "append"

\* How often a nonce may have been answered before the process started: a nonce that
\* the log does not give back may be answered once in the life of each process.
Earlier(n) == IF Survives(n) THEN 0 ELSE kills

\* A killed process cannot forget what it already answered, if the log gives the
\* nonce back: such a nonce is not answered twice, by two threads or before and after
\* a restart.  No other is answered twice by the same process.
AnsweredOnce == \A n \in Nonces : answers[n] <= 1 + Earlier(n)

\* Every answer that left the operator is in its transcript file.
AnswersAudited == \A n \in Nonces : answers[n] <= transcript[n]

\* Every thread comes to an end with its request; none waits for a lock
\* that is never released.
RequestsEnd == \A t \in Threads : pc[t] # "idle" ~> pc[t] = "idle"

Surviving == {n \in Nonces : Survives(n)}

\* About the nonces that the log gives back the operator keeps the promise of module
\* AnswerOnce, whatever other nonces are written around them.  A nonce is spent when
\* a line with it is on disk.
Promise ==
  INSTANCE AnswerOnce WITH Nonces <- Surviving,
                           spent <- log \cap Surviving,
                           answers <- [n \in Surviving |-> answers[n]]

ImplementsAnswerOnce == Promise!Spec

-----------------------------------------------------------------------------
(* The invariant that the proofs of module PtrOperatorProofs carry from    *)
(* one step to the next.                                                   *)

\* A thread whose nonce was new, and which has not sent its answer yet.
Serving(t) == pc[t] \in {"append", "compute", "record", "send"}

\* A nonce that was granted to a thread is known and has no answer from this process
\* yet.  Once the lock was released what the log gives back of it is on disk, and it
\* is granted to no other thread.
GrantsAreExclusive ==
  \A t \in Threads : Serving(t) =>
    /\ up
    /\ nonce[t] \in seen
    /\ answers[nonce[t]] <= Earlier(nonce[t])
    /\ pc[t] # "append" => Stripped(nonce[t]) \subseteq log
    /\ pc[t] = "send" => answers[nonce[t]] < transcript[nonce[t]]
    /\ \A u \in Threads \ {t} : Serving(u) => nonce[u] # nonce[t]

\* What was answered is on disk as far as the log gives it back, and what this process
\* answered it knows.
DiskIsAhead ==
  /\ \A n \in Surviving : answers[n] # 0 => n \in log
  /\ \A n \in Nonces : answers[n] > Earlier(n) => IF up THEN n \in seen ELSE n \in Surviving

OInv ==
  /\ TypeOK
  /\ torn = {}
  /\ AnsweredOnce
  /\ AnswersAudited
  /\ GrantsAreExclusive
  /\ DiskIsAhead
=============================================================================
